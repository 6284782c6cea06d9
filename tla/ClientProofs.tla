----------------------------- MODULE ClientProofs -----------------------------
(***************************************************************************)
(* What the clients of the approval queue guarantee, for any number of     *)
(* processes, requests and records.                                        *)
(***************************************************************************)
EXTENDS ApprovalClients, ApprovalQueueProofs, FiniteSetTheorems

(***************************************************************************)
(* The queue under a client.  Its steps are a request, a grant and a spent *)
(* approval; what a client relies on is that an approval it spent stays    *)
(* spent, for the action and the target it was asked for.                  *)
(***************************************************************************)

Made == {r \in Requests : status[r] # "absent"}

\* The queue is well formed, and what was asked for one of a client's actions
\* is one of its purposes.
GateInv(purposes) ==
  /\ status \in [Requests -> Statuses]
  /\ scope = [r \in Requests |-> scope[r]]
  /\ IsFiniteSet(Made)
  /\ \A r \in Made : scope[r].action \in ActionsOf(purposes)
                     => <<scope[r].action, scope[r].target>> \in purposes

\* A step of the queue that spends none of a client's approvals, and takes no
\* spent one back.
Aside(purposes) ==
  /\ \A x \in purposes : Consumed(x[1], x[2])' = Consumed(x[1], x[2])
  /\ \A a, t : Consumed(a, t) \subseteq Consumed(a, t)'
  /\ \A r \in Requests : status[r] = "consumed" => status'[r] = "consumed"

LEMMA InitGate == ASSUME NEW purposes, Init PROVE GateInv(purposes)
<1>1. Made = {}
  BY DEF Init, Made
<1>2. IsFiniteSet(Made)
  BY <1>1, FS_EmptySet
<1>3. QED
  BY <1>1, <1>2 DEF Init, GateInv, Statuses

\* A request for one of the purposes.
LEMMA AskKeepsGate ==
  ASSUME NEW purposes, GateInv(purposes), NEW r \in Requests,
         NEW action, NEW target, <<action, target>> \in purposes, AskFor(r, action, target)
  PROVE  /\ GateInv(purposes)' /\ Aside(purposes)
         /\ \A a, t : Consumed(a, t)' = Consumed(a, t)
<1> DEFINE q == [ClientScope(action, target) EXCEPT !.user = DefaultUser]
<1>1. /\ status[r] = "absent"
      /\ status' = [status EXCEPT ![r] = "pending"]
      /\ scope' = [scope EXCEPT ![r] = q]
  BY DEF AskFor, RequestApproval
<1>2. q.action = action /\ q.target = target
  BY DEF ClientScope
<1> HIDE DEF q
<1>3. \A s \in Requests : s # r => status'[s] = status[s] /\ scope'[s] = scope[s]
  BY <1>1 DEF GateInv
<1>4. status'[r] = "pending" /\ scope'[r] = q
  BY <1>1 DEF GateInv
<1>5. Made' = Made \cup {r}
  BY <1>3, <1>4 DEF Made
<1>6. IsFiniteSet(Made')
  <2>1. IsFiniteSet(Made)
    BY DEF GateInv
  <2>2. QED
    BY <2>1, <1>5, FS_AddElement
<1>7. \A s \in Made' : scope'[s].action \in ActionsOf(purposes)
                         => <<scope'[s].action, scope'[s].target>> \in purposes
  <2> SUFFICES ASSUME NEW s \in Made', scope'[s].action \in ActionsOf(purposes)
               PROVE  <<scope'[s].action, scope'[s].target>> \in purposes
    OBVIOUS
  <2>1. CASE s = r
    BY <2>1, <1>2, <1>4
  <2>2. CASE s # r
    BY <2>2, <1>3, <1>5 DEF GateInv, Made
  <2>3. QED
    BY <2>1, <2>2
<1>8. status' \in [Requests -> Statuses] /\ scope' = [s \in Requests |-> scope'[s]]
  BY <1>1 DEF GateInv, Statuses
<1>9. GateInv(purposes)'
  BY <1>6, <1>7, <1>8 DEF GateInv
<1>10. ASSUME NEW a, NEW t PROVE Consumed(a, t)' = Consumed(a, t)
  BY <1>1, <1>3, <1>4 DEF Consumed
<1>11. \A s \in Requests : status[s] = "consumed" => status'[s] = "consumed"
  BY <1>1, <1>3
<1>12. QED
  BY <1>9, <1>10, <1>11 DEF Aside

\* The human's grant.
LEMMA GrantKeepsGate ==
  ASSUME NEW purposes, GateInv(purposes), NEW r \in Requests, Approve(r)
  PROVE  /\ GateInv(purposes)' /\ Aside(purposes)
         /\ \A a, t : Consumed(a, t)' = Consumed(a, t)
<1>1. /\ status[r] = "pending"
      /\ status' = [status EXCEPT ![r] = "approved"]
      /\ scope' = scope
  BY DEF Approve
<1>2. Made' = Made
  BY <1>1 DEF Made, GateInv
<1>3. GateInv(purposes)'
  BY <1>1, <1>2 DEF GateInv, Statuses
<1>4. ASSUME NEW a, NEW t PROVE Consumed(a, t)' = Consumed(a, t)
  BY <1>1 DEF Consumed, GateInv
<1>5. \A s \in Requests : status[s] = "consumed" => status'[s] = "consumed"
  BY <1>1 DEF GateInv
<1>6. QED
  BY <1>3, <1>4, <1>5 DEF Aside

\* An approval is spent: it was not before, it is for the action presented
\* and for a target that redaction does not tell from the one presented, and
\* nothing else changes.
LEMMA SpendKeepsGate ==
  ASSUME NEW purposes, GateInv(purposes), NEW p \in Procs, NEW r \in Requests,
         NEW action, NEW target, Spend(p, r, action, target)
  PROVE  /\ GateInv(purposes)'
         /\ \A a, t : Consumed(a, t) \subseteq Consumed(a, t)'
         /\ \A a, t : Consumed(a, t)' \subseteq Consumed(a, t) \cup {r}
         /\ r \in Made
         /\ \A t : scope[r].target = t => r \in Consumed(action, t)'
         /\ \A a, t : r \notin Consumed(a, t)
         /\ scope[r].action = action
         /\ scope[r].target = EmptyTarget \/ Canon[scope[r].target] = Canon[target]
<1>1. /\ status[r] = "approved"
      /\ status' = [status EXCEPT ![r] = "consumed"]
      /\ scope' = scope
      /\ ScopeFits(scope[r], ClientScope(action, target))
  BY DEF Spend, Consume, MayConsume
<1>2. /\ scope[r].action = action
      /\ scope[r].target = EmptyTarget \/ Canon[scope[r].target] = Canon[target]
  BY <1>1 DEF ScopeFits, SameTarget, ClientScope
<1>3. Made' = Made /\ r \in Made
  BY <1>1 DEF Made, GateInv
<1>4. GateInv(purposes)'
  BY <1>1, <1>3 DEF GateInv, Statuses
<1>5. ASSUME NEW a, NEW t PROVE Consumed(a, t) \subseteq Consumed(a, t)'
  BY <1>1 DEF Consumed, GateInv
<1>6. ASSUME NEW a, NEW t PROVE Consumed(a, t)' \subseteq Consumed(a, t) \cup {r}
  BY <1>1 DEF Consumed, GateInv
<1>7. ASSUME NEW t, scope[r].target = t PROVE r \in Consumed(action, t)'
  BY <1>7, <1>1, <1>2 DEF Consumed, GateInv
<1>8. ASSUME NEW a, NEW t PROVE r \notin Consumed(a, t)
  BY <1>1 DEF Consumed
<1>9. QED
  BY <1>2, <1>3, <1>4, <1>5, <1>6, <1>7, <1>8

LEMMA GateStutters ==
  ASSUME NEW purposes, GateInv(purposes), UNCHANGED vars
  PROVE  /\ GateInv(purposes)' /\ Aside(purposes)
         /\ \A a, t : Consumed(a, t)' = Consumed(a, t)
<1>1. status' = status /\ scope' = scope
  BY DEF vars
<1>2. GateInv(purposes)' /\ \A a, t : Consumed(a, t)' = Consumed(a, t)
  BY <1>1 DEF GateInv, Made, Consumed
<1>3. QED
  BY <1>1, <1>2 DEF Aside

\* Others use the queue for actions of theirs: they neither ask for the
\* client's purposes nor spend what was asked for them.
LEMMA OthersKeepGate ==
  ASSUME NEW purposes, GateInv(purposes), NEW scopes,
         \A c \in scopes : c.action \notin ActionsOf(purposes), QueueCalls(scopes)
  PROVE  GateInv(purposes)' /\ Aside(purposes)
<1>1. ASSUME NEW r \in Requests, NEW q \in scopes, NEW e \in Expiries, RequestApproval(r, q, e)
      PROVE  GateInv(purposes)' /\ Aside(purposes)
  <2>1. /\ status[r] = "absent"
        /\ status' = [status EXCEPT ![r] = "pending"]
        /\ scope' = [scope EXCEPT ![r] = q]
        /\ q.action \notin ActionsOf(purposes)
    BY <1>1 DEF RequestApproval
  <2>2. \A s \in Requests : s # r => status'[s] = status[s] /\ scope'[s] = scope[s]
    BY <2>1 DEF GateInv
  <2>3. status'[r] = "pending" /\ scope'[r] = q
    BY <2>1 DEF GateInv
  <2>4. Made' = Made \cup {r}
    BY <2>2, <2>3 DEF Made
  <2>5. IsFiniteSet(Made')
    BY <2>4, FS_AddElement DEF GateInv
  <2>6. ASSUME NEW s \in Made', scope'[s].action \in ActionsOf(purposes)
        PROVE  <<scope'[s].action, scope'[s].target>> \in purposes
    <3>1. s # r
      BY <2>1, <2>3, <2>6
    <3>2. QED
      BY <3>1, <2>2, <2>4, <2>6 DEF GateInv, Made
  <2>7. status' \in [Requests -> Statuses] /\ scope' = [s \in Requests |-> scope'[s]]
    BY <2>1 DEF GateInv, Statuses
  <2>8. GateInv(purposes)'
    BY <2>5, <2>6, <2>7 DEF GateInv
  <2>9. ASSUME NEW a, NEW t PROVE Consumed(a, t)' = Consumed(a, t)
    BY <2>1, <2>2, <2>3 DEF Consumed
  <2>10. \A s \in Requests : status[s] = "consumed" => status'[s] = "consumed"
    BY <2>1, <2>2
  <2>11. QED
    BY <2>8, <2>9, <2>10 DEF Aside
\* A step of a request that is neither absent nor spent.
<1>2. ASSUME NEW r \in Requests, status[r] \notin {"absent", "consumed"},
             NEW state \in Statuses \ {"absent"}, status' = [status EXCEPT ![r] = state],
             scope' = scope,
             state = "consumed" => scope[r].action \notin ActionsOf(purposes)
      PROVE  GateInv(purposes)' /\ Aside(purposes)
  <2>1. Made' = Made
    BY <1>2 DEF Made, GateInv
  <2>2. status' \in [Requests -> Statuses]
    BY <1>2 DEF GateInv
  <2>3. GateInv(purposes)'
    BY <1>2, <2>1, <2>2 DEF GateInv
  <2>4. \A s \in Requests : status'[s] = IF s = r THEN state ELSE status[s]
    BY <1>2 DEF GateInv
  <2>5. ASSUME NEW x \in purposes PROVE Consumed(x[1], x[2])' = Consumed(x[1], x[2])
    <3>1. PICK a : a = x[1]
      OBVIOUS
    <3>2. a \in ActionsOf(purposes)
      BY <3>1 DEF ActionsOf
    <3>3. Consumed(a, x[2])' = Consumed(a, x[2])
      BY <1>2, <2>4, <3>2 DEF Consumed
    <3>4. QED
      BY <3>1, <3>3
  <2>6. ASSUME NEW a, NEW t PROVE Consumed(a, t) \subseteq Consumed(a, t)'
    BY <1>2, <2>4 DEF Consumed
  <2>7. \A s \in Requests : status[s] = "consumed" => status'[s] = "consumed"
    BY <1>2, <2>4
  <2>8. QED
    BY <2>3, <2>5, <2>6, <2>7 DEF Aside
<1>3. ASSUME NEW r \in Requests, Approve(r) PROVE GateInv(purposes)' /\ Aside(purposes)
  BY <1>3, GrantKeepsGate
<1>4. ASSUME NEW p \in Procs, NEW r \in Requests, NEW c \in scopes, Reserve(p, r, c)
      PROVE  GateInv(purposes)' /\ Aside(purposes)
  <2>1. /\ status[r] = "approved" /\ status' = [status EXCEPT ![r] = "reserved"]
        /\ scope' = scope
    BY <1>4 DEF Reserve
  <2>2. "reserved" \in Statuses \ {"absent"}
    BY DEF Statuses
  <2>3. QED
    BY <1>2, <2>1, <2>2
<1>5. ASSUME NEW p \in Procs, NEW r \in Requests, NEW c \in scopes, Consume(p, r, c)
      PROVE  GateInv(purposes)' /\ Aside(purposes)
  <2>1. /\ status[r] \in {"approved", "reserved"} /\ status' = [status EXCEPT ![r] = "consumed"]
        /\ scope' = scope /\ scope[r].action = c.action
    BY <1>5 DEF Consume, MayConsume, ScopeFits
  <2>2. "consumed" \in Statuses \ {"absent"}
    BY DEF Statuses
  <2>3. QED
    BY <1>2, <2>1, <2>2
<1>6. ASSUME NEW p \in Procs, NEW r \in Requests, NEW c, MarkUnknown(p, r, c)
      PROVE  GateInv(purposes)' /\ Aside(purposes)
  <2>1. /\ status[r] = "reserved" /\ status' = [status EXCEPT ![r] = "unknown_outcome"]
        /\ scope' = scope
    BY <1>6 DEF MarkUnknown, MayMarkUnknown
  <2>2. "unknown_outcome" \in Statuses \ {"absent"}
    BY DEF Statuses
  <2>3. QED
    BY <1>2, <2>1, <2>2
<1>7. ASSUME UNCHANGED <<status, scope>> PROVE GateInv(purposes)' /\ Aside(purposes)
  <2>1. GateInv(purposes)' /\ \A a, t : Consumed(a, t)' = Consumed(a, t)
    BY <1>7 DEF GateInv, Made, Consumed
  <2>2. QED
    BY <1>7, <2>1 DEF Aside
<1>8. ASSUME NEW p \in Procs, Crash(p) PROVE GateInv(purposes)' /\ Aside(purposes)
  BY <1>7, <1>8 DEF Crash
<1>9. CASE Tick
  BY <1>7, <1>9 DEF Tick, queueVars
<1>10. QED
  BY <1>1, <1>3, <1>4, <1>5, <1>6, <1>8, <1>9 DEF QueueCalls

\* The approvals consumed are finitely many.
LEMMA ConsumedFinite ==
  ASSUME NEW purposes, GateInv(purposes), NEW a, NEW t
  PROVE  /\ IsFiniteSet(Consumed(a, t))
         /\ Cardinality(Consumed(a, t)) \in Nat
<1>1. Consumed(a, t) \subseteq Made
  BY DEF Consumed, Made
<1>2. IsFiniteSet(Made)
  BY DEF GateInv
<1>3. QED
  BY <1>1, <1>2, FS_Subset, FS_CardinalityType

\* Spending one approval never lowers the count of any.
LEMMA SpendGrows ==
  ASSUME NEW purposes, GateInv(purposes), NEW p \in Procs, NEW r \in Requests,
         NEW action, NEW target, Spend(p, r, action, target), NEW a, NEW t
  PROVE  /\ Cardinality(Consumed(a, t)) \in Nat /\ Cardinality(Consumed(a, t)') \in Nat
         /\ Cardinality(Consumed(a, t)) <= Cardinality(Consumed(a, t)')
<1>1. Consumed(a, t)' \subseteq Made'
  BY DEF Consumed, Made
<1>2. IsFiniteSet(Made') /\ Consumed(a, t) \subseteq Consumed(a, t)'
  BY SpendKeepsGate DEF GateInv
<1>3. IsFiniteSet(Consumed(a, t)')
  BY <1>1, <1>2, FS_Subset
<1>4. QED
  BY <1>2, <1>3, FS_Subset, FS_CardinalityType

\* A set with one more element.
LEMMA OneMore ==
  ASSUME NEW S, IsFiniteSet(S), NEW x, NEW T \in SUBSET (S \cup {x})
  PROVE  /\ IsFiniteSet(T)
         /\ Cardinality(S) \in Nat /\ Cardinality(T) \in Nat
         /\ Cardinality(T) <= Cardinality(S) + 1
<1>1. /\ IsFiniteSet(S \cup {x})
      /\ Cardinality(S \cup {x}) = IF x \in S THEN Cardinality(S) ELSE Cardinality(S) + 1
  BY FS_AddElement
<1>2. Cardinality(S) \in Nat /\ Cardinality(S \cup {x}) \in Nat
  BY <1>1, FS_CardinalityType
<1>3. Cardinality(S \cup {x}) <= Cardinality(S) + 1
  BY <1>1, <1>2
<1>4. IsFiniteSet(T) /\ Cardinality(T) <= Cardinality(S \cup {x})
  BY <1>1, FS_Subset
<1>5. Cardinality(T) \in Nat
  BY <1>4, FS_CardinalityType
<1>6. QED
  BY <1>2, <1>3, <1>4, <1>5

LEMMA OwnAction ==
  ASSUME NEW purposes, NEW action, NEW target, <<action, target>> \in purposes
  PROVE  action \in ActionsOf(purposes)
<1>1. <<action, target>>[1] \in ActionsOf(purposes)
  BY DEF ActionsOf
<1>2. QED
  BY <1>1

LEMMA AsideKeeps ==
  ASSUME NEW purposes, Aside(purposes)
  PROVE  \A a, t : <<a, t>> \in purposes => Consumed(a, t)' = Consumed(a, t)
<1> SUFFICES ASSUME NEW a, NEW t, <<a, t>> \in purposes PROVE Consumed(a, t)' = Consumed(a, t)
  OBVIOUS
<1>1. PICK x \in purposes : x = <<a, t>>
  OBVIOUS
<1>2. Consumed(x[1], x[2])' = Consumed(x[1], x[2])
  BY DEF Aside
<1>3. x[1] = a /\ x[2] = t
  BY <1>1
<1>4. QED
  BY <1>2, <1>3

\* A client whose purposes name one target for an action counts each
\* approval it spends for them.
LEMMA SpendCounts ==
  ASSUME NEW purposes, GateInv(purposes), NEW p \in Procs, NEW r \in Requests,
         NEW action, NEW target, Spend(p, r, action, target), <<action, target>> \in purposes,
         \A t : <<action, t>> \in purposes => t = target
  PROVE  /\ r \in Consumed(action, target)'
         /\ Cardinality(Consumed(action, target)') = Cardinality(Consumed(action, target)) + 1
<1>1. /\ r \in Made
      /\ scope[r].action = action
      /\ scope[r].target = target => r \in Consumed(action, target)'
      /\ r \notin Consumed(action, target)
      /\ Consumed(action, target) \subseteq Consumed(action, target)'
      /\ Consumed(action, target)' \subseteq Consumed(action, target) \cup {r}
  BY SpendKeepsGate
<1>2. scope[r].target = target
  <2>1. <<scope[r].action, scope[r].target>> \in purposes
    BY <1>1, OwnAction DEF GateInv
  <2>2. <<action, scope[r].target>> \in purposes
    BY <1>1, <2>1
  <2>3. QED
    BY <2>2
<1>3. r \in Consumed(action, target)'
  BY <1>1, <1>2
<1>4. Consumed(action, target)' = Consumed(action, target) \cup {r}
  BY <1>1, <1>3
<1>5. IsFiniteSet(Consumed(action, target))
  BY ConsumedFinite
<1>6. QED
  BY <1>1, <1>3, <1>4, <1>5, FS_AddElement

\* A client whose targets for an action are identifiers spends an approval
\* that was asked for the very target.
LEMMA SpendPlain ==
  ASSUME NEW purposes, GateInv(purposes), NEW p \in Procs, NEW r \in Requests,
         NEW targets, PlainTargets(targets), NEW action, NEW target \in targets,
         Spend(p, r, action, target), <<action, target>> \in purposes,
         \A t : <<action, t>> \in purposes => t \in targets
  PROVE  r \in Consumed(action, target)'
<1>1. /\ r \in Made
      /\ scope[r].action = action
      /\ scope[r].target = target => r \in Consumed(action, target)'
      /\ scope[r].target = EmptyTarget \/ Canon[scope[r].target] = Canon[target]
  BY SpendKeepsGate
<1>2. scope[r].target \in targets
  <2>1. <<scope[r].action, scope[r].target>> \in purposes
    BY <1>1, OwnAction DEF GateInv
  <2>2. <<action, scope[r].target>> \in purposes
    BY <1>1, <2>1
  <2>3. QED
    BY <2>2
<1>3. scope[r].target = target
  BY <1>1, <1>2 DEF PlainTargets
<1>4. QED
  BY <1>1, <1>3

-----------------------------------------------------------------------------
(***************************************************************************)
(* The registry of MCP servers.  What a copy may say follows from what it  *)
(* is held for: a copy that is trusted is one an approval vouches for, and *)
(* the writes still to come of calls that have paid are counted against    *)
(* the approvals as well as the writes done.                               *)
(***************************************************************************)

\* A session's copy is of a registration already drawn, and vouched for if it
\* is trusted; the sessions that start the command hold a trusted copy.
SessionOK(s) ==
  /\ s.copy.gen <= drawn
  /\ s.copy.trusted => s.copy.gen \in vouched
  /\ s.op = "trust" => s.copy.gen # 0
  /\ s.op \in {"discover", "call"} => s.copy.trusted

\* The calls in write mode that have paid and not run yet.
PaidCalls ==
  {p \in Procs : At(p, "call", 3) /\ session[p].copy.allowed = "write"}

TrustSpent == Consumed("mcp_trust_server", Server)
WriteSpent == Consumed("mcp_write_tool", Tool)

McpIInv ==
  /\ GateInv(McpPurposes)
  /\ McpTypeOK
  /\ ran \subseteq vouched
  /\ registry.gen <= drawn
  /\ registry.trusted => registry.gen \in vouched
  /\ \A p \in Procs : session[p] # Idle => SessionOK(session[p])
  /\ Cardinality(vouched) <= Cardinality(TrustSpent)
  /\ IsFiniteSet(PaidCalls)
  /\ writes + Cardinality(PaidCalls) <= Cardinality(WriteSpent)

LEMMA McpIInvImplies == McpIInv => RunsAreVouchedFor
<1> SUFFICES ASSUME McpIInv PROVE RunsAreVouchedFor
  OBVIOUS
<1>1. ASSUME NEW rec \in {registry} \cup {session[p].copy : p \in {q \in Procs : session[q] # Idle}},
             rec.trusted
      PROVE  rec.gen \in vouched
  BY <1>1 DEF McpIInv, SessionOK
<1>2. Cardinality(PaidCalls) \in Nat
  BY FS_CardinalityType DEF McpIInv
<1>3. Cardinality(WriteSpent) \in Nat
  BY ConsumedFinite DEF McpIInv, WriteSpent
<1>4. writes <= Cardinality(WriteSpent)
  BY <1>2, <1>3 DEF McpIInv, McpTypeOK
<1>5. QED
  BY <1>1, <1>4 DEF McpIInv, RunsAreVouchedFor, TrustSpent, WriteSpent

LEMMA McpInit_IInv == Init /\ McpInit => McpIInv
<1> SUFFICES ASSUME Init, McpInit PROVE McpIInv
  OBVIOUS
<1>1. GateInv(McpPurposes)
  BY InitGate
<1>2. McpTypeOK
  BY RegistrationAssumption DEF McpInit, McpTypeOK, Record, Registered
<1>3. vouched = {} /\ PaidCalls = {}
  BY DEF McpInit, PaidCalls, At
<1>4. IsFiniteSet(PaidCalls) /\ Cardinality(PaidCalls) = 0 /\ Cardinality(vouched) = 0
  BY <1>3, FS_EmptySet
<1>5. Cardinality(TrustSpent) \in Nat /\ Cardinality(WriteSpent) \in Nat
  BY <1>1, ConsumedFinite DEF TrustSpent, WriteSpent
<1>6. QED
  BY <1>1, <1>2, <1>4, <1>5 DEF McpInit, McpIInv, Registered

\* Calls that leave the paid ones alone.
LEMMA UnpaidMove ==
  ASSUME McpIInv, NEW p \in Procs, NEW s, session' = [session EXCEPT ![p] = s],
         ~(s # Idle /\ s.op = "call" /\ s.at = 3 /\ s.copy.allowed = "write")
  PROVE  /\ IsFiniteSet(PaidCalls') /\ Cardinality(PaidCalls') \in Nat
         /\ Cardinality(PaidCalls) \in Nat
         /\ Cardinality(PaidCalls') <= Cardinality(PaidCalls)
         /\ p \in PaidCalls => Cardinality(PaidCalls') = Cardinality(PaidCalls) - 1
<1>1. PaidCalls' = PaidCalls \ {p}
  BY DEF McpIInv, McpTypeOK, PaidCalls, At
<1>2. IsFiniteSet(PaidCalls)
  BY DEF McpIInv
<1>3. IsFiniteSet(PaidCalls') /\ Cardinality(PaidCalls') <= Cardinality(PaidCalls)
  BY <1>1, <1>2, FS_Subset
<1>4. p \in PaidCalls => Cardinality(PaidCalls') = Cardinality(PaidCalls) - 1
  BY <1>1, <1>2, FS_RemoveElement
<1>5. QED
  BY <1>2, <1>3, <1>4, FS_CardinalityType

\* What a step has to establish, when it changes one session and keeps what
\* was drawn and vouched for.
LEMMA McpMove ==
  ASSUME McpIInv, GateInv(McpPurposes)', NEW p \in Procs, NEW s \in Session \cup {Idle},
         session' = [session EXCEPT ![p] = s],
         registry' \in Record, registry'.gen <= drawn',
         registry'.trusted => registry'.gen \in vouched',
         drawn' \in 0 .. MaxRegistrations, drawn <= drawn',
         vouched \subseteq vouched', vouched' \subseteq 1 .. drawn',
         ran' \subseteq vouched',
         s # Idle => /\ s.copy.gen <= drawn'
                     /\ s.copy.trusted => s.copy.gen \in vouched'
                     /\ s.op = "trust" => s.copy.gen # 0
                     /\ s.op \in {"discover", "call"} => s.copy.trusted,
         Cardinality(vouched') <= Cardinality(TrustSpent'),
         writes' \in Nat,
         IsFiniteSet(PaidCalls'),
         writes' + Cardinality(PaidCalls') <= Cardinality(WriteSpent')
  PROVE  McpIInv'
<1>1. session' \in [Procs -> Session \cup {Idle}]
  BY DEF McpIInv, McpTypeOK
<1>2. McpTypeOK'
  BY <1>1 DEF McpTypeOK
<1>3. ASSUME NEW q \in Procs, session'[q] # Idle PROVE SessionOK(session[q])'
  <2>1. CASE q = p
    <3>1. session'[q] = s
      BY <2>1 DEF McpIInv, McpTypeOK
    <3>2. QED
      BY <3>1, <1>3 DEF SessionOK
  <2>2. CASE q # p
    <3>1. session'[q] = session[q]
      BY <2>2 DEF McpIInv, McpTypeOK
    <3>2. session[q] \in Session /\ SessionOK(session[q])
      BY <3>1, <1>3 DEF McpIInv, McpTypeOK
    <3>3. session[q].copy.gen <= drawn'
      BY <3>2 DEF SessionOK, Session, Record, McpIInv, McpTypeOK
    <3>4. QED
      BY <3>1, <3>2, <3>3 DEF SessionOK
  <2>3. QED
    BY <2>1, <2>2
<1>4. QED
  BY <1>2, <1>3 DEF McpIInv

\* A step that spends nothing, vouches for nothing and makes no write: of
\* most steps it remains to say what the session holds afterwards.
LEMMA McpQuietMove ==
  ASSUME McpIInv, NEW p \in Procs, NEW s \in Session \cup {Idle},
         session' = [session EXCEPT ![p] = s],
         registry' \in Record, registry'.gen <= drawn',
         registry'.trusted => registry'.gen \in vouched,
         drawn' \in 0 .. MaxRegistrations, drawn <= drawn',
         ran' \subseteq vouched,
         s # Idle => /\ s.copy.gen <= drawn'
                     /\ s.copy.trusted => s.copy.gen \in vouched
                     /\ s.op = "trust" => s.copy.gen # 0
                     /\ s.op \in {"discover", "call"} => s.copy.trusted
                     /\ s.op = "call" /\ s.copy.allowed = "write" => s.at # 3,
         UNCHANGED <<vouched, writes, vars>>
  PROVE  McpIInv'
<1>1. /\ GateInv(McpPurposes)'
      /\ TrustSpent' = TrustSpent /\ WriteSpent' = WriteSpent
  BY GateStutters DEF McpIInv, TrustSpent, WriteSpent
<1>2. /\ IsFiniteSet(PaidCalls') /\ Cardinality(PaidCalls') \in Nat
      /\ Cardinality(PaidCalls) \in Nat
      /\ Cardinality(PaidCalls') <= Cardinality(PaidCalls)
  BY UnpaidMove
<1>3. Cardinality(WriteSpent) \in Nat
  BY ConsumedFinite DEF McpIInv, WriteSpent
<1>4. writes' + Cardinality(PaidCalls') <= Cardinality(WriteSpent')
  BY <1>1, <1>2, <1>3 DEF McpIInv, McpTypeOK
<1>5. vouched' \subseteq 1 .. drawn'
  BY DEF McpIInv, McpTypeOK
<1>6. QED
  BY <1>1, <1>2, <1>4, <1>5, McpMove DEF McpIInv, McpTypeOK

\* A session that may be entered, or left, without an approval.
MayEnter(s) ==
  s # Idle => /\ SessionOK(s)
              /\ s.op = "call" /\ s.copy.allowed = "write" => s.at # 3

\* Most steps change the session alone.
LEMMA McpSessionMove ==
  ASSUME McpIInv, NEW p \in Procs, NEW s \in Session \cup {Idle},
         session' = [session EXCEPT ![p] = s],
         ran' \subseteq vouched,
         MayEnter(s),
         registry' = registry, drawn' = drawn, vouched' = vouched, writes' = writes, vars' = vars
  PROVE  McpIInv'
<1>1. /\ registry' \in Record /\ registry'.gen <= drawn'
      /\ registry'.trusted => registry'.gen \in vouched
      /\ drawn' \in 0 .. MaxRegistrations /\ drawn <= drawn'
      /\ UNCHANGED <<vouched, writes, vars>>
  BY DEF McpIInv, McpTypeOK
<1>2. s # Idle => /\ s.copy.gen <= drawn'
                  /\ s.copy.trusted => s.copy.gen \in vouched
                  /\ s.op = "trust" => s.copy.gen # 0
                  /\ s.op \in {"discover", "call"} => s.copy.trusted
                  /\ s.op = "call" /\ s.copy.allowed = "write" => s.at # 3
  BY DEF MayEnter, SessionOK
<1>3. QED
  BY <1>1, <1>2, McpQuietMove

\* An approval of the trust of a server is spent on the registration the
\* process has a copy of.
LEMMA PayTrustKeeps ==
  ASSUME McpIInv, NEW p \in Procs, NEW r \in Requests, PayTrust(p, r)
  PROVE  McpIInv'
<1> DEFINE s == [op |-> "save", at |-> 1, copy |-> [session[p].copy EXCEPT !.trusted = TRUE]]
           g == session[p].copy.gen
<1>1. /\ session[p] # Idle /\ session[p].op = "trust"
      /\ Spend(p, r, "mcp_trust_server", Server)
      /\ session' = [session EXCEPT ![p] = s]
      /\ vouched' = vouched \cup {g}
      /\ UNCHANGED <<registry, drawn, ran, writes>>
  BY DEF PayTrust, At, ToSave
<1>2. session[p] \in Session /\ SessionOK(session[p])
  BY <1>1 DEF McpIInv, McpTypeOK
<1>3. s \in Session
  <2>1. [session[p].copy EXCEPT !.trusted = TRUE] \in Record
    BY <1>2 DEF Session, Record
  <2>2. QED
    BY <2>1 DEF Session
<1>4. g \in 1 .. drawn
  BY <1>1, <1>2 DEF SessionOK, Session, Record, McpIInv, McpTypeOK
<1>5. s.copy.gen = g /\ s.op = "save"
  BY <1>2 DEF Session, Record
<1> HIDE DEF s, g
<1>6. /\ GateInv(McpPurposes)'
      /\ Cardinality(TrustSpent') = Cardinality(TrustSpent) + 1
  <2>1. /\ <<"mcp_trust_server", Server>> \in McpPurposes
        /\ \A t : <<"mcp_trust_server", t>> \in McpPurposes => t = Server
    BY DEF McpPurposes
  <2>2. GateInv(McpPurposes)'
    BY <1>1, SpendKeepsGate DEF McpIInv
  <2>3. QED
    BY <1>1, <2>1, <2>2, SpendCounts DEF McpIInv, TrustSpent
<1>7. /\ Cardinality(WriteSpent) \in Nat /\ Cardinality(WriteSpent') \in Nat
      /\ Cardinality(WriteSpent) <= Cardinality(WriteSpent')
  BY <1>1, SpendGrows DEF McpIInv, WriteSpent
<1>9. Cardinality(vouched') <= Cardinality(TrustSpent')
  <2>1. IsFiniteSet(1 .. drawn)
    BY FS_Interval DEF McpIInv, McpTypeOK
  <2>2. IsFiniteSet(vouched) /\ Cardinality(vouched) \in Nat
    BY <2>1, FS_Subset, FS_CardinalityType DEF McpIInv, McpTypeOK
  <2>3. Cardinality(vouched') <= Cardinality(vouched) + 1 /\ Cardinality(vouched') \in Nat
    BY <2>2, <1>1, OneMore
  <2>4. Cardinality(TrustSpent) \in Nat
    BY ConsumedFinite DEF McpIInv, TrustSpent
  <2>5. QED
    BY <1>6, <2>2, <2>3, <2>4 DEF McpIInv
<1>10. /\ IsFiniteSet(PaidCalls') /\ Cardinality(PaidCalls') \in Nat
       /\ Cardinality(PaidCalls) \in Nat
       /\ Cardinality(PaidCalls') <= Cardinality(PaidCalls)
  BY <1>1, <1>5, UnpaidMove
<1>11. writes' + Cardinality(PaidCalls') <= Cardinality(WriteSpent')
  BY <1>1, <1>7, <1>10 DEF McpIInv, McpTypeOK
<1>12. vouched \subseteq vouched' /\ vouched' \subseteq 1 .. drawn'
  BY <1>1, <1>4 DEF McpIInv, McpTypeOK
<1>13. s.copy.gen <= drawn' /\ s.copy.gen \in vouched'
  BY <1>1, <1>2, <1>5 DEF SessionOK, g
<1>14. /\ registry' \in Record /\ registry'.gen <= drawn'
       /\ registry'.trusted => registry'.gen \in vouched'
       /\ drawn' \in 0 .. MaxRegistrations /\ drawn <= drawn'
       /\ vouched \subseteq vouched' /\ vouched' \subseteq 1 .. drawn'
       /\ ran' \subseteq vouched' /\ writes' \in Nat
  BY <1>1, <1>12 DEF McpIInv, McpTypeOK
<1>15. QED
  BY <1>1, <1>3, <1>5, <1>6, <1>9, <1>10, <1>11, <1>13, <1>14, McpMove

LEMMA PayCallKeeps ==
  ASSUME McpIInv, NEW p \in Procs, NEW r \in Requests, PayCall(p, r)
  PROVE  McpIInv'
<1> DEFINE s == [session[p] EXCEPT !.at = 3]
<1>1. /\ session[p] # Idle /\ session[p].op = "call" /\ session[p].at = 2
      /\ Spend(p, r, "mcp_write_tool", Tool)
      /\ session' = [session EXCEPT ![p] = s]
      /\ UNCHANGED <<registry, drawn, vouched, ran, writes>>
  BY DEF PayCall, At, McpIInv, McpTypeOK
<1>2. session[p] \in Session /\ SessionOK(session[p])
  BY <1>1 DEF McpIInv, McpTypeOK
<1>3. s \in Session /\ s.copy = session[p].copy /\ s.op = "call"
  BY <1>1, <1>2 DEF Session
<1> HIDE DEF s
<1>4. /\ GateInv(McpPurposes)'
      /\ Cardinality(WriteSpent') = Cardinality(WriteSpent) + 1
  <2>1. /\ <<"mcp_write_tool", Tool>> \in McpPurposes
        /\ \A t : <<"mcp_write_tool", t>> \in McpPurposes => t = Tool
    BY DEF McpPurposes
  <2>2. GateInv(McpPurposes)'
    BY <1>1, SpendKeepsGate DEF McpIInv
  <2>3. QED
    BY <1>1, <2>1, <2>2, SpendCounts DEF McpIInv, WriteSpent
<1>5. /\ Cardinality(TrustSpent) \in Nat /\ Cardinality(TrustSpent') \in Nat
      /\ Cardinality(TrustSpent) <= Cardinality(TrustSpent')
  BY <1>1, SpendGrows DEF McpIInv, TrustSpent
<1>6. Cardinality(vouched') <= Cardinality(TrustSpent')
  <2>1. IsFiniteSet(1 .. drawn)
    BY FS_Interval DEF McpIInv, McpTypeOK
  <2>2. Cardinality(vouched) \in Nat
    BY <2>1, FS_Subset, FS_CardinalityType DEF McpIInv, McpTypeOK
  <2>3. QED
    BY <1>1, <1>5, <2>2 DEF McpIInv
<1>7. PaidCalls' \subseteq PaidCalls \cup {p}
  BY <1>1 DEF PaidCalls, At, McpIInv, McpTypeOK
<1>10. /\ IsFiniteSet(PaidCalls') /\ Cardinality(PaidCalls') \in Nat
       /\ Cardinality(PaidCalls) \in Nat
       /\ Cardinality(PaidCalls') <= Cardinality(PaidCalls) + 1
  <2>1. IsFiniteSet(PaidCalls)
    BY DEF McpIInv
  <2>2. QED
    BY <2>1, <1>7, OneMore
<1>11. Cardinality(WriteSpent) \in Nat
  BY ConsumedFinite DEF McpIInv, WriteSpent
<1>12. writes' + Cardinality(PaidCalls') <= Cardinality(WriteSpent')
  BY <1>1, <1>4, <1>10, <1>11 DEF McpIInv, McpTypeOK
<1>13. s.copy.gen <= drawn' /\ (s.copy.trusted => s.copy.gen \in vouched') /\ s.copy.trusted
  BY <1>1, <1>2, <1>3 DEF SessionOK
<1>14. /\ registry' \in Record /\ registry'.gen <= drawn'
       /\ registry'.trusted => registry'.gen \in vouched'
       /\ drawn' \in 0 .. MaxRegistrations /\ drawn <= drawn'
       /\ vouched \subseteq vouched' /\ vouched' \subseteq 1 .. drawn'
       /\ ran' \subseteq vouched' /\ writes' \in Nat
  BY <1>1 DEF McpIInv, McpTypeOK
<1>15. QED
  BY <1>1, <1>3, <1>4, <1>6, <1>10, <1>12, <1>13, <1>14, McpMove

LEMMA RunToolKeeps ==
  ASSUME McpIInv, NEW p \in Procs, RunTool(p)
  PROVE  McpIInv'
<1>1. /\ session[p] # Idle /\ session[p].op = "call" /\ session[p].at = 3
      /\ session' = [session EXCEPT ![p] = Idle]
      /\ ran' = ran \cup {session[p].copy.gen}
      /\ writes' = IF session[p].copy.allowed = "write" THEN writes + 1 ELSE writes
      /\ UNCHANGED <<registry, drawn, vouched, vars>>
  BY DEF RunTool, At, Leave
<1>2. session[p] \in Session /\ SessionOK(session[p])
  BY <1>1 DEF McpIInv, McpTypeOK
<1>3. /\ GateInv(McpPurposes)'
      /\ TrustSpent' = TrustSpent /\ WriteSpent' = WriteSpent
  BY <1>1, GateStutters DEF McpIInv, TrustSpent, WriteSpent
<1>4. /\ IsFiniteSet(PaidCalls') /\ Cardinality(PaidCalls') \in Nat
      /\ Cardinality(PaidCalls) \in Nat
      /\ Cardinality(PaidCalls') <= Cardinality(PaidCalls)
      /\ p \in PaidCalls => Cardinality(PaidCalls') = Cardinality(PaidCalls) - 1
  BY <1>1, UnpaidMove
<1>5. session[p].copy.allowed = "write" => p \in PaidCalls
  BY <1>1 DEF PaidCalls, At
<1>6. Cardinality(WriteSpent) \in Nat
  BY ConsumedFinite DEF McpIInv, WriteSpent
<1>7. writes' \in Nat /\ writes' + Cardinality(PaidCalls') <= Cardinality(WriteSpent')
  BY <1>1, <1>3, <1>4, <1>5, <1>6 DEF McpIInv, McpTypeOK
<1>8. ran' \subseteq vouched'
  BY <1>1, <1>2 DEF SessionOK, McpIInv
<1>9. /\ registry' \in Record /\ registry'.gen <= drawn'
      /\ registry'.trusted => registry'.gen \in vouched'
      /\ drawn' \in 0 .. MaxRegistrations /\ drawn <= drawn'
      /\ vouched \subseteq vouched' /\ vouched' \subseteq 1 .. drawn'
      /\ Cardinality(vouched') <= Cardinality(TrustSpent')
  BY <1>1, <1>3 DEF McpIInv, McpTypeOK
<1>10. QED
  BY <1>1, <1>3, <1>4, <1>7, <1>8, <1>9, McpMove

\* A request or a grant is between the human and the queue, and others use
\* it for what is theirs.
LEMMA McpIdleMove ==
  ASSUME McpIInv, GateInv(McpPurposes)', UNCHANGED mcpVars, Aside(McpPurposes)
  PROVE  McpIInv'
<1>1. TrustSpent' = TrustSpent /\ WriteSpent' = WriteSpent
  <2>1. /\ <<"mcp_trust_server", Server>> \in McpPurposes
        /\ <<"mcp_write_tool", Tool>> \in McpPurposes
    BY DEF McpPurposes
  <2>2. \A a, t : <<a, t>> \in McpPurposes => Consumed(a, t)' = Consumed(a, t)
    BY AsideKeeps
  <2>3. QED
    BY <2>1, <2>2 DEF TrustSpent, WriteSpent
<1>2. PaidCalls' = PaidCalls
  BY DEF mcpVars, PaidCalls, At
<1>3. QED
  BY <1>1, <1>2 DEF McpIInv, McpTypeOK, mcpVars, SessionOK

LEMMA McpStep == McpIInv /\ [McpNext]_<<mcpVars, vars>> => McpIInv'
<1> SUFFICES ASSUME McpIInv, [McpNext]_<<mcpVars, vars>> PROVE McpIInv'
  OBVIOUS
<1>0. /\ registry \in Record /\ registry.gen \in 0 .. drawn
      /\ registry.trusted => registry.gen \in vouched
      /\ drawn \in 0 .. MaxRegistrations
      /\ ran \subseteq vouched
      /\ \A p \in Procs : session[p] # Idle => session[p] \in Session /\ SessionOK(session[p])
  BY DEF McpIInv, McpTypeOK, Record
<1>1. ASSUME NEW p \in Procs, SaveRegistry(p) PROVE McpIInv'
  <2>1. session[p] \in Session /\ SessionOK(session[p])
    BY <1>0, <1>1 DEF SaveRegistry, At
  <2>2. /\ registry' = session[p].copy
        /\ session' = [session EXCEPT ![p] = Idle]
        /\ UNCHANGED <<drawn, vouched, ran, writes, vars>>
    BY <1>1 DEF SaveRegistry, Leave
  <2>3. session[p].copy \in Record
    BY <2>1 DEF Session
  <2>4. /\ registry' \in Record /\ registry'.gen <= drawn'
        /\ registry'.trusted => registry'.gen \in vouched
        /\ drawn' \in 0 .. MaxRegistrations /\ drawn <= drawn' /\ ran' \subseteq vouched
        /\ UNCHANGED <<vouched, writes, vars>>
    BY <1>0, <2>1, <2>2, <2>3 DEF SessionOK
  <2>5. QED
    BY <2>2, <2>4, McpQuietMove
<1>2. ASSUME NEW p \in Procs, Register(p) PROVE McpIInv'
  <2> DEFINE s == [op |-> "save", at |-> 1, copy |-> Registered(drawn + 1)]
  <2>1. /\ session' = [session EXCEPT ![p] = s]
        /\ drawn' = drawn + 1 /\ drawn' \in 0 .. MaxRegistrations
        /\ UNCHANGED <<registry, vouched, ran, writes, vars>>
    BY <1>0, <1>2, RegistrationAssumption DEF Register, OpenSession
  <2>2. s \in Session /\ s.copy.gen <= drawn' /\ ~s.copy.trusted /\ s.op = "save"
    BY <2>1 DEF Session, Record, Registered
  <2> HIDE DEF s
  <2>3. registry.gen <= drawn' /\ drawn <= drawn'
    BY <1>0, <2>1
  <2>4. QED
    BY <1>0, <2>1, <2>2, <2>3, McpQuietMove
<1>3. ASSUME NEW p \in Procs, NEW op \in {"trust", "discover", "call"}, OpenSession(p, op, registry),
             op = "trust" => registry.gen # 0,
             op \in {"discover", "call"} => registry.trusted,
             UNCHANGED <<registry, drawn, vouched, ran, writes, vars>>
      PROVE  McpIInv'
  <2> DEFINE s == [op |-> op, at |-> 1, copy |-> registry]
  <2>1. session' = [session EXCEPT ![p] = s]
    BY <1>3 DEF OpenSession
  <2>2. s \in Session /\ s.op = op /\ s.at = 1 /\ s.copy = registry
    BY <1>0 DEF Session
  <2> HIDE DEF s
  <2>3. MayEnter(s)
    BY <1>0, <1>3, <2>2 DEF MayEnter, SessionOK
  <2>4. QED
    BY <1>0, <1>3, <2>1, <2>2, <2>3, McpSessionMove
<1>4. ASSUME NEW p \in Procs, NEW found \in BOOLEAN, ListTools(p, found) PROVE McpIInv'
  <2> DEFINE s == [op |-> "discover", at |-> 2, copy |-> [session[p].copy EXCEPT !.found = found]]
  <2>1. session[p] \in Session /\ SessionOK(session[p]) /\ session[p].op = "discover"
    BY <1>0, <1>4 DEF ListTools, At
  <2>2. /\ session' = [session EXCEPT ![p] = s]
        /\ ran' = ran \cup {session[p].copy.gen}
        /\ UNCHANGED <<registry, drawn, vouched, writes, vars>>
    BY <1>4 DEF ListTools, McpIInv, McpTypeOK
  <2>3. session[p].copy \in Record
    BY <2>1 DEF Session
  <2>4. [session[p].copy EXCEPT !.found = found] \in Record
    BY <2>3 DEF Record
  <2>5. s.copy.gen = session[p].copy.gen /\ s.copy.trusted = session[p].copy.trusted
    BY <2>3 DEF Record
  <2>9. s \in Session /\ s.op = "discover"
    BY <2>4 DEF Session
  <2> HIDE DEF s
  <2>6. ran' \subseteq vouched
    BY <1>0, <2>1, <2>2 DEF SessionOK
  <2>7. MayEnter(s)
    BY <2>1, <2>5, <2>9 DEF MayEnter, SessionOK
  <2>8. QED
    BY <2>2, <2>6, <2>7, <2>9, McpSessionMove
<1>5. ASSUME NEW p \in Procs, StoreTools(p) PROVE McpIInv'
  <2> DEFINE s == [op |-> "save", at |-> 1, copy |-> [registry EXCEPT !.found = session[p].copy.found]]
  <2>1. session[p] \in Session
    BY <1>0, <1>5 DEF StoreTools, At
  <2>2. /\ session' = [session EXCEPT ![p] = s]
        /\ UNCHANGED <<registry, drawn, vouched, ran, writes, vars>>
    BY <1>5 DEF StoreTools, ToSave
  <2>3. s.copy \in Record /\ s.copy.gen = registry.gen /\ s.copy.trusted = registry.trusted
    BY <1>0, <2>1 DEF Session, Record
  <2>4. s \in Session /\ s.op = "save"
    BY <2>3 DEF Session
  <2> HIDE DEF s
  <2>5. MayEnter(s)
    BY <1>0, <2>3, <2>4 DEF MayEnter, SessionOK
  <2>6. QED
    BY <1>0, <2>2, <2>4, <2>5, McpSessionMove
<1>6. ASSUME NEW p \in Procs, NEW mode \in Modes, Allow(p, mode) PROVE McpIInv'
  <2> DEFINE s == [op |-> "save", at |-> 1, copy |-> [registry EXCEPT !.allowed = mode]]
  <2>1. /\ session' = [session EXCEPT ![p] = s]
        /\ UNCHANGED <<registry, drawn, vouched, ran, writes, vars>>
    BY <1>6 DEF Allow, OpenSession
  <2>2. s.copy \in Record /\ s.copy.gen = registry.gen /\ s.copy.trusted = registry.trusted
    BY <1>0 DEF Record
  <2>3. s \in Session /\ s.op = "save"
    BY <2>2 DEF Session
  <2> HIDE DEF s
  <2>4. MayEnter(s)
    BY <1>0, <2>2, <2>3 DEF MayEnter, SessionOK
  <2>5. QED
    BY <1>0, <2>1, <2>3, <2>4, McpSessionMove
<1>7. ASSUME NEW p \in Procs, NEW same \in BOOLEAN, CheckTool(p, same) PROVE McpIInv'
  <2> DEFINE s == IF same
                  THEN [session[p] EXCEPT !.at = IF session[p].copy.allowed = "write" THEN 2 ELSE 3]
                  ELSE Idle
  <2>1. session[p] \in Session /\ SessionOK(session[p]) /\ session[p].op = "call"
    BY <1>0, <1>7 DEF CheckTool, At
  <2>2. /\ session' = [session EXCEPT ![p] = s]
        /\ ran' = ran \cup {session[p].copy.gen}
        /\ UNCHANGED <<registry, drawn, vouched, writes, vars>>
    BY <1>7 DEF CheckTool, Leave, McpIInv, McpTypeOK
  <2>3. /\ s \in Session \cup {Idle}
        /\ s # Idle => /\ s.op = "call" /\ s.copy = session[p].copy
                       /\ s.copy.allowed = "write" => s.at # 3
    BY <2>1 DEF Session
  <2> HIDE DEF s
  <2>4. ran' \subseteq vouched
    BY <1>0, <2>1, <2>2 DEF SessionOK
  <2>5. MayEnter(s)
    BY <2>1, <2>3 DEF MayEnter, SessionOK
  <2>6. QED
    BY <2>2, <2>3, <2>4, <2>5, McpSessionMove
<1>8. ASSUME NEW p \in Procs, LeaveSession(p) PROVE McpIInv'
  <2>1. MayEnter(Idle)
    BY DEF MayEnter
  <2>2. QED
    BY <1>0, <1>8, <2>1, McpSessionMove DEF LeaveSession, Leave
<1>9. ASSUME NEW r \in Requests, NEW x \in McpPurposes, AskFor(r, x[1], x[2]), UNCHANGED mcpVars
      PROVE  McpIInv'
  <2>1. <<x[1], x[2]>> \in McpPurposes
    BY DEF McpPurposes
  <2>2. GateInv(McpPurposes)' /\ Aside(McpPurposes)
    BY <1>9, <2>1, AskKeepsGate DEF McpIInv
  <2>3. QED
    BY <1>9, <2>2, McpIdleMove
<1>10. ASSUME NEW r \in Requests, Approve(r), UNCHANGED mcpVars PROVE McpIInv'
  <2>1. GateInv(McpPurposes)' /\ Aside(McpPurposes)
    BY <1>10, GrantKeepsGate DEF McpIInv
  <2>2. QED
    BY <1>10, <2>1, McpIdleMove
<1>11. CASE UNCHANGED <<mcpVars, vars>>
  BY <1>11, GateStutters, McpIdleMove DEF McpIInv
<1>12. ASSUME NEW p \in Procs, LoadTrust(p) \/ LoadDiscover(p) \/ LoadCall(p) PROVE McpIInv'
  BY <1>3, <1>12 DEF LoadTrust, LoadDiscover, LoadCall
<1>13. QED
  BY <1>1, <1>2, <1>4, <1>5, <1>6, <1>7, <1>8, <1>9, <1>10, <1>11, <1>12,
     PayTrustKeeps, PayCallKeeps, RunToolKeeps DEF McpNext

\* The registry's records and copies keep their types.
THEOREM McpTypeCorrect == McpSpec => []McpTypeOK
<1>1. McpIInv => McpTypeOK
  BY DEF McpIInv
<1>2. QED
  BY <1>1, McpInit_IInv, McpStep, PTL DEF McpSpec

\* Any number of processes may register, trust, discover, allow and call at
\* once, each from a copy as old as it likes: only a registration an approval
\* was spent on is ever started, and no approval serves twice.
THEOREM McpRunsAreVouchedFor == McpSpec => []RunsAreVouchedFor
  BY McpInit_IInv, McpStep, McpIInvImplies, PTL DEF McpSpec

-----------------------------------------------------------------------------
(***************************************************************************)
(* The task queue and the emergency stop.  A resumption that has paid and  *)
(* not yet lifted the stop is counted with those that have.                *)
(***************************************************************************)

ResumeSpent == Consumed("runtime_resume", "guardian-runtime")
Lifting       == {p \in Procs : halting[p] = "lift"}

\* What was swept is in the queue, cancelled.
SweptCancelled == \A t \in swept : task[t] # None /\ task[t].state = "cancelled"

KeysDiffer == \A t, u \in Listed : task[t].key = task[u].key => t = u

LiftsPaid ==
  IsFiniteSet(Lifting) /\ lifts + Cardinality(Lifting) <= Cardinality(ResumeSpent)

RuntimeIInv ==
  /\ GateInv(ResumePurpose)
  /\ RuntimeTypeOK
  /\ SweptCancelled
  /\ stops > 0 /\ lifts = 0 => stopped
  /\ LiftsPaid
  /\ KeysDiffer

LEMMA RuntimeIInvImplies == RuntimeIInv => RuntimeTypeOK /\ StopsHold
<1> SUFFICES ASSUME RuntimeIInv PROVE StopsHold
  BY DEF RuntimeIInv
<1>1. Cardinality(Lifting) \in Nat
  BY FS_CardinalityType DEF RuntimeIInv, LiftsPaid
<1>2. Cardinality(ResumeSpent) \in Nat
  BY ConsumedFinite DEF RuntimeIInv, ResumeSpent
<1>3. lifts <= Cardinality(ResumeSpent)
  BY <1>1, <1>2 DEF RuntimeIInv, RuntimeTypeOK, LiftsPaid
<1>4. QED
  BY <1>3 DEF RuntimeIInv, StopsHold, SweptCancelled, KeysDiffer, ResumeSpent

LEMMA RuntimeInit_IInv == Init /\ RuntimeInit => RuntimeIInv
<1> SUFFICES ASSUME Init, RuntimeInit PROVE RuntimeIInv
  OBVIOUS
<1>1. GateInv(ResumePurpose)
  BY InitGate
<1>2. RuntimeTypeOK
  <2>1. stopped \in BOOLEAN
    BY DEF RuntimeInit
  <2>2. stops \in 0 .. MaxStops /\ lifts \in Nat
    BY StopAssumption DEF RuntimeInit
  <2>3. QED
    BY <2>1, <2>2 DEF RuntimeInit, RuntimeTypeOK
<1>3. Lifting = {}
  BY SentinelAssumption DEF RuntimeInit, Lifting, Halting
<1>4. IsFiniteSet(Lifting) /\ Cardinality(Lifting) = 0
  BY <1>3, FS_EmptySet
<1>5. Cardinality(ResumeSpent) \in Nat
  BY <1>1, ConsumedFinite DEF ResumeSpent
<1>6. LiftsPaid
  BY <1>4, <1>5 DEF RuntimeInit, LiftsPaid
<1>7. QED
  BY <1>1, <1>2, <1>6 DEF RuntimeInit, RuntimeIInv, SweptCancelled, KeysDiffer, Listed

\* A step of the queue leaves the approvals and the flag alone.
LEMMA QueueMove ==
  ASSUME RuntimeIInv, task' \in [Tasks -> TaskEntry \cup {None}], SweptCancelled', KeysDiffer',
         swept' \subseteq Tasks, locked' \subseteq Resources,
         halting' = halting, stopped' = stopped, stops' = stops, lifts' = lifts, vars' = vars
  PROVE  RuntimeIInv'
<1>1. GateInv(ResumePurpose)' /\ ResumeSpent' = ResumeSpent
  BY GateStutters DEF RuntimeIInv, ResumeSpent
<1>2. Lifting' = Lifting
  BY DEF Lifting
<1>3. QED
  BY <1>1, <1>2 DEF RuntimeIInv, RuntimeTypeOK, LiftsPaid

\* Moving entries from some states to another keeps their keys, and those an
\* emergency stop cancelled where they are.
LEMMA MovedKeeps ==
  ASSUME RuntimeIInv, NEW states, NEW state \in DOMAIN Transitions, "cancelled" \notin states
  PROVE  /\ Moved(states, state) \in [Tasks -> TaskEntry \cup {None}]
         /\ \A t \in Tasks : /\ Moved(states, state)[t] # None <=> task[t] # None
                             /\ task[t] # None => Moved(states, state)[t].key = task[t].key
                             /\ t \in InState(states) => Moved(states, state)[t].state = state
                             /\ t \notin InState(states) => Moved(states, state)[t] = task[t]
         /\ \A t \in swept : t \notin InState(states)
<1>1. ASSUME NEW t \in Tasks, t \in InState(states)
      PROVE  /\ task[t] \in TaskEntry /\ task[t] # None
             /\ [task[t] EXCEPT !.state = state] \in TaskEntry
             /\ [task[t] EXCEPT !.state = state].key = task[t].key
             /\ [task[t] EXCEPT !.state = state].state = state
  BY <1>1 DEF InState, Listed, RuntimeIInv, RuntimeTypeOK, TaskEntry
<1>2. \A t \in Tasks : task[t] \in TaskEntry \cup {None}
  BY DEF RuntimeIInv, RuntimeTypeOK
<1>3. \A t \in swept : t \notin InState(states)
  BY DEF RuntimeIInv, SweptCancelled, InState
<1>4. ASSUME NEW t \in Tasks
      PROVE  Moved(states, state)[t] =
               IF t \in InState(states) THEN [task[t] EXCEPT !.state = state] ELSE task[t]
  BY DEF Moved
<1>5. Moved(states, state) \in [Tasks -> TaskEntry \cup {None}]
  BY <1>1, <1>2 DEF Moved
<1>6. QED
  BY <1>1, <1>3, <1>4, <1>5, SentinelAssumption

LEMMA KeysKept ==
  ASSUME KeysDiffer,
         \A t \in Tasks : /\ task'[t] # None <=> task[t] # None
                          /\ task[t] # None => task'[t].key = task[t].key
  PROVE  KeysDiffer'
<1> SUFFICES ASSUME NEW t \in Listed', NEW u \in Listed', task'[t].key = task'[u].key PROVE t = u
  BY DEF KeysDiffer
<1>1. t \in Listed /\ u \in Listed /\ t \in Tasks /\ u \in Tasks
  BY DEF Listed
<1>2. task[t].key = task[u].key
  BY <1>1 DEF Listed
<1>3. QED
  BY <1>1, <1>2 DEF KeysDiffer

\* Everything stoppable is cancelled and what was cancelled before stays so.
LEMMA CancelAllKeeps ==
  ASSUME RuntimeIInv, NEW p \in Procs, CancelAll(p)
  PROVE  RuntimeIInv'
<1>1. /\ halting[p] = "cancel"
      /\ task' = Moved(Stoppable, "cancelled")
      /\ swept' = swept \cup InState(Stoppable)
      /\ halting' = [halting EXCEPT ![p] = Idle]
      /\ UNCHANGED <<locked, stopped, stops, lifts, vars>>
  BY DEF CancelAll
<1>2. /\ task' \in [Tasks -> TaskEntry \cup {None}]
      /\ \A t \in Tasks : /\ task'[t] # None <=> task[t] # None
                          /\ task[t] # None => task'[t].key = task[t].key
                          /\ t \in InState(Stoppable) => task'[t].state = "cancelled"
                          /\ t \notin InState(Stoppable) => task'[t] = task[t]
      /\ \A t \in swept : t \notin InState(Stoppable)
  BY <1>1, MovedKeeps DEF Stoppable, Transitions
<1>3. swept \subseteq Tasks /\ InState(Stoppable) \subseteq Listed /\ Listed \subseteq Tasks
  BY DEF RuntimeIInv, RuntimeTypeOK, InState, Listed
<1>4. SweptCancelled'
  <2> SUFFICES ASSUME NEW t \in swept' PROVE task'[t] # None /\ task'[t].state = "cancelled"
    BY DEF SweptCancelled
  <2>1. CASE t \in swept
    BY <2>1, <1>2, <1>3 DEF RuntimeIInv, SweptCancelled
  <2>2. CASE t \in InState(Stoppable)
    BY <2>2, <1>2, <1>3 DEF Listed
  <2>3. QED
    BY <1>1, <2>1, <2>2
<1>5. KeysDiffer'
  BY <1>2, KeysKept DEF RuntimeIInv
<1>6. GateInv(ResumePurpose)' /\ ResumeSpent' = ResumeSpent
  BY <1>1, GateStutters DEF RuntimeIInv, ResumeSpent
<1>7. Lifting' = Lifting
  BY <1>1, SentinelAssumption DEF RuntimeIInv, RuntimeTypeOK, Lifting, Halting
<1>8. LiftsPaid'
  BY <1>1, <1>6, <1>7 DEF RuntimeIInv, LiftsPaid
<1>9. RuntimeTypeOK'
  BY <1>1, <1>2, <1>3 DEF RuntimeIInv, RuntimeTypeOK
<1>10. QED
  BY <1>1, <1>4, <1>5, <1>6, <1>8, <1>9 DEF RuntimeIInv

\* Whoever lifts the stop has paid, and is no longer among those about to.
LEMMA LiftStopKeeps ==
  ASSUME RuntimeIInv, NEW p \in Procs, LiftStop(p)
  PROVE  RuntimeIInv'
<1>1. /\ halting[p] = "lift"
      /\ stopped' = FALSE
      /\ lifts' = lifts + 1
      /\ halting' = [halting EXCEPT ![p] = Idle]
      /\ UNCHANGED <<task, locked, stops, swept, vars>>
  BY DEF LiftStop
<1>2. GateInv(ResumePurpose)' /\ ResumeSpent' = ResumeSpent
  BY <1>1, GateStutters DEF RuntimeIInv, ResumeSpent
<1>3. Lifting' = Lifting \ {p} /\ p \in Lifting
  BY <1>1, SentinelAssumption DEF RuntimeIInv, RuntimeTypeOK, Lifting, Halting
<1>4. IsFiniteSet(Lifting)
  BY DEF RuntimeIInv, LiftsPaid
<1>5. IsFiniteSet(Lifting') /\ Cardinality(Lifting') = Cardinality(Lifting) - 1
  BY <1>3, <1>4, FS_RemoveElement
<1>6. Cardinality(Lifting) \in Nat
  BY <1>4, FS_CardinalityType
<1>7. lifts \in Nat
  BY DEF RuntimeIInv, RuntimeTypeOK
<1>8. LiftsPaid'
  BY <1>1, <1>2, <1>5, <1>6, <1>7 DEF RuntimeIInv, LiftsPaid
<1>9. stopped' \in BOOLEAN /\ lifts' \in Nat /\ lifts' # 0
  <2>1. stopped' \in BOOLEAN
    BY <1>1
  <2>2. lifts' \in Nat /\ lifts' # 0
    BY <1>1, <1>7
  <2>3. QED
    BY <2>1, <2>2
<1>10. RuntimeTypeOK'
  BY <1>1, <1>9 DEF RuntimeIInv, RuntimeTypeOK
<1>11. SweptCancelled' /\ KeysDiffer'
  BY <1>1 DEF RuntimeIInv, SweptCancelled, KeysDiffer, Listed
<1>12. QED
  BY <1>2, <1>8, <1>9, <1>10, <1>11 DEF RuntimeIInv

LEMMA PayResumeKeeps ==
  ASSUME RuntimeIInv, NEW p \in Procs, NEW r \in Requests, PayResume(p, r)
  PROVE  RuntimeIInv'
<1>1. /\ Spend(p, r, "runtime_resume", "guardian-runtime")
      /\ halting' = [halting EXCEPT ![p] = "lift"]
      /\ UNCHANGED <<task, locked, stopped, stops, lifts, swept>>
  BY DEF PayResume
<1>2. /\ GateInv(ResumePurpose)'
      /\ Cardinality(ResumeSpent') = Cardinality(ResumeSpent) + 1
  <2>1. /\ <<"runtime_resume", "guardian-runtime">> \in ResumePurpose
        /\ \A t : <<"runtime_resume", t>> \in ResumePurpose => t = "guardian-runtime"
    BY DEF ResumePurpose
  <2>2. GateInv(ResumePurpose)'
    BY <1>1, SpendKeepsGate DEF RuntimeIInv
  <2>3. Cardinality(ResumeSpent') = Cardinality(ResumeSpent) + 1
    BY <1>1, <2>1, SpendCounts DEF RuntimeIInv, ResumeSpent
  <2>4. QED
    BY <2>2, <2>3
<1>3. Lifting' \subseteq Lifting \cup {p}
  BY <1>1 DEF RuntimeIInv, RuntimeTypeOK, Lifting
<1>4. IsFiniteSet(Lifting)
  BY DEF RuntimeIInv, LiftsPaid
<1>5. /\ IsFiniteSet(Lifting') /\ Cardinality(Lifting') <= Cardinality(Lifting) + 1
      /\ Cardinality(Lifting) \in Nat /\ Cardinality(Lifting') \in Nat
  BY <1>3, <1>4, OneMore
<1>6. Cardinality(ResumeSpent) \in Nat
  BY ConsumedFinite DEF RuntimeIInv, ResumeSpent
<1>7. LiftsPaid'
  BY <1>1, <1>2, <1>5, <1>6 DEF RuntimeIInv, RuntimeTypeOK, LiftsPaid
<1>8. RuntimeTypeOK'
  BY <1>1 DEF RuntimeIInv, RuntimeTypeOK, Halting
<1>9. SweptCancelled' /\ KeysDiffer'
  BY <1>1 DEF RuntimeIInv, SweptCancelled, KeysDiffer, Listed
<1>10. QED
  BY <1>1, <1>2, <1>7, <1>8, <1>9 DEF RuntimeIInv

\* A process that starts a stop, or dies in one, pays for nothing.
LEMMA HaltMove ==
  ASSUME RuntimeIInv, NEW p \in Procs, NEW h \in {"cancel", Idle},
         halting' = [halting EXCEPT ![p] = h], stopped' \in BOOLEAN, stops' \in 0 .. MaxStops,
         stops' > 0 /\ lifts = 0 => stopped',
         task' = task, locked' = locked, lifts' = lifts, swept' = swept, vars' = vars
  PROVE  RuntimeIInv'
<1>1. GateInv(ResumePurpose)' /\ ResumeSpent' = ResumeSpent
  BY GateStutters DEF RuntimeIInv, ResumeSpent
<1>2. Lifting' \subseteq Lifting
  BY SentinelAssumption DEF RuntimeIInv, RuntimeTypeOK, Lifting, Halting
<1>3. IsFiniteSet(Lifting)
  BY DEF RuntimeIInv, LiftsPaid
<1>4. IsFiniteSet(Lifting') /\ Cardinality(Lifting') <= Cardinality(Lifting)
  BY <1>2, <1>3, FS_Subset
<1>5. Cardinality(Lifting) \in Nat /\ Cardinality(Lifting') \in Nat
  BY <1>3, <1>4, FS_CardinalityType
<1>6. Cardinality(ResumeSpent) \in Nat
  BY ConsumedFinite DEF RuntimeIInv, ResumeSpent
<1>7. LiftsPaid'
  BY <1>1, <1>4, <1>5, <1>6 DEF RuntimeIInv, RuntimeTypeOK, LiftsPaid
<1>8. RuntimeTypeOK'
  BY DEF RuntimeIInv, RuntimeTypeOK, Halting
<1>9. SweptCancelled' /\ KeysDiffer'
  BY DEF RuntimeIInv, SweptCancelled, KeysDiffer, Listed
<1>10. QED
  BY <1>1, <1>7, <1>8, <1>9 DEF RuntimeIInv

\* A step between the human, others and the queue.
LEMMA RuntimeIdleMove ==
  ASSUME RuntimeIInv, GateInv(ResumePurpose)', Aside(ResumePurpose), UNCHANGED runtimeVars
  PROVE  RuntimeIInv'
<1>1. ResumeSpent' = ResumeSpent
  <2>1. <<"runtime_resume", "guardian-runtime">> \in ResumePurpose
    BY DEF ResumePurpose
  <2>2. QED
    BY <2>1, AsideKeeps DEF ResumeSpent
<1>2. Lifting' = Lifting
  BY DEF Lifting, runtimeVars
<1>3. QED
  BY <1>1, <1>2 DEF RuntimeIInv, RuntimeTypeOK, runtimeVars, SweptCancelled, KeysDiffer, Listed,
                    LiftsPaid

LEMMA RuntimeStep == RuntimeIInv /\ [RuntimeNext]_<<runtimeVars, vars>> => RuntimeIInv'
<1> SUFFICES ASSUME RuntimeIInv, [RuntimeNext]_<<runtimeVars, vars>> PROVE RuntimeIInv'
  OBVIOUS
<1>0. /\ task \in [Tasks -> TaskEntry \cup {None}] /\ swept \subseteq Tasks /\ locked \subseteq Resources
      /\ SweptCancelled /\ KeysDiffer
  BY DEF RuntimeIInv, RuntimeTypeOK
<1>1. ASSUME NEW t \in Tasks, NEW k \in TaskKeys, EnqueueTask(t, k) PROVE RuntimeIInv'
  <2>1. /\ task[t] = None
        /\ \A u \in Listed : task[u].key # k
        /\ task' = [task EXCEPT ![t] = [key |-> k, state |-> "queued"]]
        /\ UNCHANGED <<locked, stopped, halting, stops, lifts, swept, vars>>
    BY <1>1 DEF EnqueueTask
  <2>2. [key |-> k, state |-> "queued"] \in TaskEntry
    BY DEF TaskEntry, Transitions
  <2>3. task' \in [Tasks -> TaskEntry \cup {None}]
    BY <1>0, <2>1, <2>2
  <2>4. \A u \in Tasks : task'[u] = IF u = t THEN [key |-> k, state |-> "queued"] ELSE task[u]
    BY <1>0, <2>1
  <2>5. SweptCancelled'
    BY <1>0, <2>1, <2>4 DEF SweptCancelled
  <2>6. KeysDiffer'
    BY <1>0, <2>1, <2>4 DEF KeysDiffer, Listed
  <2>7. QED
    BY <1>0, <2>1, <2>3, <2>5, <2>6, QueueMove
<1>2. ASSUME NEW t \in Tasks, NEW state \in DOMAIN Transitions, UpdateTaskState(t, state)
      PROVE  RuntimeIInv'
  <2>1. /\ task[t] # None /\ state \in Transitions[task[t].state]
        /\ task' = [task EXCEPT ![t] = [task[t] EXCEPT !.state = state]]
        /\ UNCHANGED <<locked, stopped, halting, stops, lifts, swept, vars>>
    BY <1>0, <1>2 DEF UpdateTaskState, Listed
  <2>2. task[t] \in TaskEntry /\ task[t].state # "cancelled"
    BY <1>0, <2>1 DEF Transitions
  <2>3. [task[t] EXCEPT !.state = state] \in TaskEntry /\ [task[t] EXCEPT !.state = state].key = task[t].key
    BY <2>2 DEF TaskEntry
  <2>4. task' \in [Tasks -> TaskEntry \cup {None}]
    BY <1>0, <2>1, <2>3
  <2>5. \A u \in Tasks : task'[u] = IF u = t THEN [task[t] EXCEPT !.state = state] ELSE task[u]
    BY <1>0, <2>1
  <2>6. SweptCancelled'
    BY <1>0, <2>1, <2>2, <2>5 DEF SweptCancelled
  <2>7. KeysDiffer'
    BY <1>0, <2>1, <2>3, <2>5 DEF KeysDiffer, Listed
  <2>8. QED
    BY <1>0, <2>1, <2>4, <2>6, <2>7, QueueMove
<1>3. CASE RecoverTasks
  <2>1. /\ task' = Moved({"running"}, "queued")
        /\ UNCHANGED <<locked, stopped, halting, stops, lifts, swept, vars>>
    BY <1>3 DEF RecoverTasks
  <2>2. /\ task' \in [Tasks -> TaskEntry \cup {None}]
        /\ \A t \in Tasks : /\ task'[t] # None <=> task[t] # None
                            /\ task[t] # None => task'[t].key = task[t].key
                            /\ t \notin InState({"running"}) => task'[t] = task[t]
        /\ \A t \in swept : t \notin InState({"running"})
    <3>1. "queued" \in DOMAIN Transitions /\ "cancelled" \notin {"running"}
      BY DEF Transitions
    <3>2. QED
      BY <2>1, <3>1, MovedKeeps
  <2>3. SweptCancelled'
    <3> SUFFICES ASSUME NEW t \in swept' PROVE task'[t] # None /\ task'[t].state = "cancelled"
      BY DEF SweptCancelled
    <3>1. t \in swept /\ t \in Tasks
      BY <1>0, <2>1
    <3>2. task'[t] = task[t]
      BY <2>2, <3>1
    <3>3. QED
      BY <1>0, <3>1, <3>2 DEF SweptCancelled
  <2>4. KeysDiffer'
    BY <1>0, <2>2, KeysKept
  <2>5. QED
    BY <1>0, <2>1, <2>2, <2>3, <2>4, QueueMove
<1>4. ASSUME NEW n \in Resources, AcquireLock(n) \/ ReleaseLock(n) PROVE RuntimeIInv'
  <2>1. locked' \subseteq Resources /\ UNCHANGED <<task, stopped, halting, stops, lifts, swept, vars>>
    BY <1>0, <1>4 DEF AcquireLock, ReleaseLock
  <2>2. SweptCancelled' /\ KeysDiffer'
    BY <1>0, <2>1 DEF SweptCancelled, KeysDiffer, Listed
  <2>3. QED
    BY <1>0, <2>1, <2>2, QueueMove
<1>5. ASSUME NEW p \in Procs, SetStop(p) PROVE RuntimeIInv'
  <2>1. /\ stops' = stops + 1 /\ stopped' = TRUE /\ halting' = [halting EXCEPT ![p] = "cancel"]
        /\ UNCHANGED <<task, locked, lifts, swept, vars>>
    BY <1>5 DEF SetStop
  <2>2. stopped' \in BOOLEAN /\ stopped'
    BY <2>1
  <2>3. stops' \in 0 .. MaxStops
    BY <1>5, StopAssumption DEF SetStop, RuntimeIInv, RuntimeTypeOK
  <2>4. QED
    BY <2>1, <2>2, <2>3, HaltMove
<1>6. ASSUME NEW p \in Procs, CrashHalting(p) PROVE RuntimeIInv'
  <2>1. /\ halting' = [halting EXCEPT ![p] = Idle]
        /\ UNCHANGED <<task, locked, stopped, stops, lifts, swept, vars>>
    BY <1>6 DEF CrashHalting
  <2>2. stopped' \in BOOLEAN /\ stops' \in 0 .. MaxStops
    BY <2>1 DEF RuntimeIInv, RuntimeTypeOK
  <2>3. stops' > 0 /\ lifts = 0 => stopped'
    BY <2>1 DEF RuntimeIInv
  <2>4. QED
    BY <2>1, <2>2, <2>3, HaltMove
<1>8. ASSUME NEW r \in Requests, AskFor(r, "runtime_resume", "guardian-runtime"), UNCHANGED runtimeVars
      PROVE  RuntimeIInv'
  <2>1. <<"runtime_resume", "guardian-runtime">> \in ResumePurpose
    BY DEF ResumePurpose
  <2>2. QED
    BY <1>8, <2>1, AskKeepsGate, RuntimeIdleMove DEF RuntimeIInv
<1>9. ASSUME NEW r \in Requests, Approve(r), UNCHANGED runtimeVars PROVE RuntimeIInv'
  BY <1>9, GrantKeepsGate, RuntimeIdleMove DEF RuntimeIInv
<1>10. CASE UNCHANGED <<runtimeVars, vars>>
  BY <1>10, GateStutters, RuntimeIdleMove DEF RuntimeIInv
<1>11. QED
  BY <1>1, <1>2, <1>3, <1>4, <1>5, <1>6, <1>8, <1>9, <1>10,
     CancelAllKeeps, LiftStopKeeps, PayResumeKeeps DEF RuntimeNext

\* The queue, the locks and the stop keep their types.
THEOREM RuntimeTypeCorrect == RuntimeSpec => []RuntimeTypeOK
  BY RuntimeInit_IInv, RuntimeStep, RuntimeIInvImplies, PTL DEF RuntimeSpec

\* Whoever races or dies between the two files of a stop or a resumption, a
\* cancelled task stays cancelled, the stop is lifted only on approvals, one
\* for each time, and a key stands for one task.
THEOREM RuntimeStopsHold == RuntimeSpec => []StopsHold
  BY RuntimeInit_IInv, RuntimeStep, RuntimeIInvImplies, PTL DEF RuntimeSpec

-----------------------------------------------------------------------------
(***************************************************************************)
(* Scheduled tasks and reusable lessons.  An approval is consumed before   *)
(* the record it is for is saved, so the invariant follows it through the  *)
(* copies and the calls in between.                                        *)
(***************************************************************************)

JobsAndShared == Jobs \cup Shared

\* What stands for a record is an approval that was consumed, and stands for
\* no other.
ConsentSpent ==
  \A x \in JobsAndShared :
    consent[x] # None => consent[x] \in Requests /\ status[consent[x]] = "consumed"

ConsentDiffers ==
  \A x, y \in JobsAndShared : consent[x] = consent[y] /\ consent[x] # None => x = y

JobsConsented ==
  \A j \in Jobs : consent[j] # None => consent[j] \in Consumed("hermes_schedule", ScheduleTarget)

\* Every task of a version of the schedule has its approval.
Backed(s) == \A j \in Jobs : s[j] # None => consent[j] # None

LibraryConsented ==
  \A x \in Shared : library[x] \in Lessons => consent[x] \in Consumed("learning_export", library[x])

LessonsDiffer ==
  \A x, y \in Shared : library[x] \in Lessons /\ library[x] = library[y] => x = y

\* What a call may rely on: the approval of the task it adds, the approvals of
\* the schedule it saves, an approval of the lesson it exports that stands for
\* nothing yet.
ErrandOK(e) ==
  /\ e.op = "add" => e.on \in Jobs /\ consent[e.on] # None
  /\ e.op = "save" => e.copy \in Schedule /\ Backed(e.copy)
  /\ e.op = "export" =>
       /\ e.on \in Lessons /\ e.by \in Consumed("learning_export", e.on)
       /\ \A x \in JobsAndShared : consent[x] # e.by
  /\ e.op = "delete" => e.on \in Shared

ErrandsOK == \A p \in Procs : errand[p] # Idle => ErrandOK(errand[p])

ExportsDiffer ==
  \A p, q \in Procs :
    OnErrand(p, "export") /\ OnErrand(q, "export") /\ errand[p].by = errand[q].by => p = q

RecordIInv ==
  /\ GateInv(RecordPurposes)
  /\ RecordTypeOK
  /\ ConsentSpent /\ ConsentDiffers
  /\ JobsConsented /\ Backed(schedule)
  /\ LibraryConsented /\ LessonsDiffer
  /\ ErrandsOK /\ ExportsDiffer

LEMMA RecordIInvImplies == RecordIInv => RecordTypeOK /\ RecordsAreConsented
<1> SUFFICES ASSUME RecordIInv PROVE RecordsAreConsented
  BY DEF RecordIInv
<1> DEFINE schedules == {schedule} \cup {errand[p].copy : p \in {q \in Procs : OnErrand(q, "save")}}
           listed    == UNION {InSchedule(s) : s \in schedules}
<1>1. ASSUME NEW j \in listed PROVE j \in Jobs /\ consent[j] # None
  <2>1. PICK s \in schedules : j \in InSchedule(s)
    OBVIOUS
  <2>2. Backed(s)
    BY DEF RecordIInv, ErrandsOK, ErrandOK, OnErrand
  <2>3. QED
    BY <2>1, <2>2 DEF InSchedule, Backed
<1>2. ASSUME NEW x \in Exported
      PROVE  /\ x \in Shared /\ library[x] \in Lessons
             /\ consent[x] \in Consumed("learning_export", library[x]) /\ consent[x] # None
  <2>1. x \in Shared /\ consent[x] \in Consumed("learning_export", library[x]) /\ library[x] \in Lessons
    BY DEF RecordIInv, LibraryConsented, Exported
  <2>2. consent[x] \in Requests
    BY <2>1 DEF Consumed
  <2>3. QED
    BY <2>1, <2>2, RecordAssumption
<1>3. \A j \in listed : consent[j] \in Consumed("hermes_schedule", ScheduleTarget)
  BY <1>1 DEF RecordIInv, JobsConsented
<1>4. \A x, y \in listed \cup Exported : consent[x] = consent[y] => x = y
  BY <1>1, <1>2 DEF RecordIInv, ConsentDiffers, JobsAndShared
<1>5. \A x, y \in Exported : library[x] = library[y] => x = y
  BY <1>2 DEF RecordIInv, LessonsDiffer
<1>6. QED
  BY <1>2, <1>3, <1>4, <1>5 DEF RecordsAreConsented

LEMMA RecordInit_IInv == Init /\ RecordInit => RecordIInv
<1> SUFFICES ASSUME Init, RecordInit PROVE RecordIInv
  OBVIOUS
<1>1. GateInv(RecordPurposes)
  BY InitGate
<1>2. RecordTypeOK
  BY DEF RecordInit, RecordTypeOK, Schedule
<1>3. /\ ConsentSpent /\ ConsentDiffers /\ JobsConsented /\ Backed(schedule)
      /\ \A x \in Shared : library[x] \notin Lessons
      /\ \A p \in Procs : errand[p] = Idle
  BY RecordAssumption
  DEF RecordInit, ConsentSpent, ConsentDiffers, JobsConsented, JobsAndShared, Backed
<1>4. LibraryConsented /\ LessonsDiffer /\ ErrandsOK /\ ExportsDiffer
  BY <1>3 DEF LibraryConsented, LessonsDiffer, ErrandsOK, ExportsDiffer, OnErrand
<1>5. QED
  BY <1>1, <1>2, <1>3, <1>4 DEF RecordIInv

\* Approvals stay consumed, so what a call and the records rely on stays true
\* as long as no approval comes to stand for another record.
LEMMA ErrandStays ==
  ASSUME RecordIInv, NEW e, ErrandOK(e),
         \A a, t : Consumed(a, t) \subseteq Consumed(a, t)',
         consent' = consent
  PROVE  ErrandOK(e)'
  BY DEF ErrandOK, Backed

\* One errand changes, no approval comes to stand for a record, and no lesson
\* enters the library.
LEMMA ErrandMove ==
  ASSUME RecordIInv, GateInv(RecordPurposes)', NEW p \in Procs, NEW e \in Errands \cup {Idle},
         errand' = [errand EXCEPT ![p] = e],
         e # Idle => ErrandOK(e)',
         e # Idle /\ e.op = "export" => \A q \in Procs : OnErrand(q, "export") => errand[q].by # e.by,
         schedule' \in Schedule, Backed(schedule'),
         library' \in [Shared -> Lessons \cup {"hermes", None}],
         \A x \in Shared : library'[x] = library[x] \/ library'[x] \notin Lessons,
         keeper' \in Procs \cup {NoProc},
         consent' = consent,
         \A a, t : Consumed(a, t) \subseteq Consumed(a, t)',
         \A r \in Requests : status[r] = "consumed" => status'[r] = "consumed"
  PROVE  RecordIInv'
<1>1. RecordTypeOK'
  BY DEF RecordIInv, RecordTypeOK
<1>2. ConsentSpent' /\ ConsentDiffers' /\ JobsConsented' /\ Backed(schedule)'
  BY DEF RecordIInv, ConsentSpent, ConsentDiffers, JobsConsented, Backed
<1>3. LibraryConsented'
  <2> SUFFICES ASSUME NEW x \in Shared, library'[x] \in Lessons
               PROVE  consent'[x] \in Consumed("learning_export", library[x])'
    BY DEF LibraryConsented
  <2>1. library'[x] = library[x]
    OBVIOUS
  <2>2. consent[x] \in Consumed("learning_export", library[x])
    BY <2>1 DEF RecordIInv, LibraryConsented
  <2>3. consent[x] \in Consumed("learning_export", library'[x])
    BY <2>1, <2>2
  <2>4. QED
    BY <2>1, <2>2 DEF Consumed
<1>4. LessonsDiffer'
  BY DEF RecordIInv, LessonsDiffer
<1>5. ASSUME NEW q \in Procs PROVE errand'[q] = IF q = p THEN e ELSE errand[q]
  BY DEF RecordIInv, RecordTypeOK
<1>6. ErrandsOK'
  <2> SUFFICES ASSUME NEW q \in Procs, errand'[q] # Idle PROVE ErrandOK(errand[q])'
    BY DEF ErrandsOK
  <2>1. CASE q = p
    <3>1. errand'[q] = e
      BY <1>5, <2>1
    <3>2. QED
      BY <3>1 DEF ErrandOK
  <2>2. CASE q # p
    <3>1. errand'[q] = errand[q] /\ ErrandOK(errand[q])
      BY <1>5, <2>2 DEF RecordIInv, ErrandsOK
    <3>2. QED
      BY <3>1 DEF ErrandOK, Backed
  <2>3. QED
    BY <2>1, <2>2
<1>7. ExportsDiffer'
  BY <1>5 DEF RecordIInv, ExportsDiffer, OnErrand
<1>8. QED
  BY <1>1, <1>2, <1>3, <1>4, <1>6, <1>7 DEF RecordIInv

\* The same when the queue does not change.
LEMMA RecordMove ==
  ASSUME RecordIInv, NEW p \in Procs, NEW e \in Errands \cup {Idle},
         errand' = [errand EXCEPT ![p] = e],
         e # Idle => ErrandOK(e) /\ e.op # "export",
         schedule' \in Schedule, Backed(schedule'),
         library' \in [Shared -> Lessons \cup {"hermes", None}],
         \A x \in Shared : library'[x] = library[x] \/ library'[x] \notin Lessons,
         keeper' \in Procs \cup {NoProc}, consent' = consent, vars' = vars
  PROVE  RecordIInv'
<1>1. GateInv(RecordPurposes)' /\ \A a, t : Consumed(a, t) \subseteq Consumed(a, t)'
  BY GateStutters DEF RecordIInv
<1>2. \A r \in Requests : status[r] = "consumed" => status'[r] = "consumed"
  BY DEF vars
<1>3. e # Idle => ErrandOK(e)'
  BY <1>1, ErrandStays
<1>4. QED
  BY <1>1, <1>2, <1>3, ErrandMove

LEMMA SpendConsumes ==
  ASSUME NEW p \in Procs, NEW r \in Requests, NEW action, NEW target, Spend(p, r, action, target),
         status \in [Requests -> Statuses]
  PROVE  /\ status[r] = "approved" /\ status'[r] = "consumed"
         /\ \A s \in Requests : status[s] = "consumed" => status'[s] = "consumed"
  BY DEF Spend, Consume

\* The approval that is consumed for a new task stands for nothing else.
LEMMA PayScheduleKeeps ==
  ASSUME RecordIInv, NEW p \in Procs, NEW r \in Requests, NEW j \in Jobs, PaySchedule(p, r, j)
  PROVE  RecordIInv'
<1> DEFINE e == [op |-> "add", on |-> j, by |-> r, copy |-> None]
<1>1. /\ errand[p] = Idle /\ consent[j] = None
      /\ Spend(p, r, "hermes_schedule", ScheduleTarget)
      /\ consent' = [consent EXCEPT ![j] = r]
      /\ errand' = [errand EXCEPT ![p] = e]
      /\ UNCHANGED <<schedule, library, keeper>>
  BY DEF PaySchedule, Sent
<1>2. e \in Errands /\ e.op = "add" /\ e.on = j
  BY DEF Errands
<1> HIDE DEF e
<1>3. /\ GateInv(RecordPurposes)'
      /\ \A a, t : Consumed(a, t) \subseteq Consumed(a, t)'
      /\ \A a, t : r \notin Consumed(a, t)
  BY <1>1, SpendKeepsGate DEF RecordIInv
<1>4. r \in Consumed("hermes_schedule", ScheduleTarget)'
  <2>1. /\ <<"hermes_schedule", ScheduleTarget>> \in RecordPurposes
        /\ \A t : <<"hermes_schedule", t>> \in RecordPurposes => t = ScheduleTarget
    BY DEF RecordPurposes
  <2>2. QED
    BY <1>1, <2>1, SpendCounts DEF RecordIInv
<1>5. /\ status[r] = "approved" /\ status'[r] = "consumed"
      /\ \A s \in Requests : status[s] = "consumed" => status'[s] = "consumed"
  BY <1>1, SpendConsumes DEF RecordIInv, GateInv
<1>6. \A x \in JobsAndShared : /\ consent'[x] = IF x = j THEN r ELSE consent[x]
                               /\ consent[x] # r
  BY <1>1, <1>5, RecordAssumption DEF RecordIInv, RecordTypeOK, JobsAndShared, ConsentSpent
<1>7. RecordTypeOK'
  BY <1>1, <1>2 DEF RecordIInv, RecordTypeOK, JobsAndShared
<1>8. j \in JobsAndShared /\ r # None
  BY RecordAssumption DEF JobsAndShared
<1>9. ConsentSpent'
  BY <1>5, <1>6 DEF RecordIInv, ConsentSpent
<1>10. ConsentDiffers'
  BY <1>6 DEF RecordIInv, ConsentDiffers
<1>11. JobsConsented'
  BY <1>3, <1>4, <1>6 DEF RecordIInv, JobsConsented, JobsAndShared
<1>12. Backed(schedule)'
  BY <1>1, <1>6, <1>8 DEF RecordIInv, Backed, JobsAndShared
<1>13. LibraryConsented'
  <2> SUFFICES ASSUME NEW x \in Shared, library'[x] \in Lessons
               PROVE  consent'[x] \in Consumed("learning_export", library[x])'
    BY DEF LibraryConsented
  <2>1. library'[x] = library[x]
    BY <1>1
  <2>2. consent[x] \in Consumed("learning_export", library[x])
    BY <2>1 DEF RecordIInv, LibraryConsented
  <2>3. consent'[x] = consent[x]
    BY <1>6, RecordAssumption DEF JobsAndShared
  <2>4. consent[x] \in Consumed("learning_export", library'[x])
    BY <2>1, <2>2
  <2>5. QED
    BY <2>1, <2>2, <2>3, <1>3 DEF Consumed
<1>14. LessonsDiffer'
  BY <1>1 DEF RecordIInv, LessonsDiffer
<1>15. \A q \in Procs : errand'[q] = IF q = p THEN e ELSE errand[q]
  BY <1>1 DEF RecordIInv, RecordTypeOK
<1>16. ErrandsOK'
  <2> SUFFICES ASSUME NEW q \in Procs, errand'[q] # Idle PROVE ErrandOK(errand[q])'
    BY DEF ErrandsOK
  <2>1. CASE q = p
    <3>1. errand'[q] = e
      BY <1>15, <2>1
    <3>2. QED
      BY <3>1, <1>2, <1>6, <1>8 DEF ErrandOK
  <2>2. CASE q # p
    <3>1. errand'[q] = errand[q] /\ ErrandOK(errand[q])
      BY <1>15, <2>2 DEF RecordIInv, ErrandsOK
    <3>2. errand[q].op = "add" => errand[q].on \in Jobs /\ consent'[errand[q].on] # None
      BY <3>1, <1>6, <1>8 DEF ErrandOK, JobsAndShared
    <3>3. errand[q].op = "save" => errand[q].copy \in Schedule /\ Backed(errand[q].copy)'
      BY <3>1, <1>6, <1>8 DEF ErrandOK, Backed, JobsAndShared
    <3>4. errand[q].op = "export" =>
            /\ errand[q].on \in Lessons
            /\ errand[q].by \in Consumed("learning_export", errand[q].on)
            /\ errand[q].by # r
            /\ \A x \in JobsAndShared : consent'[x] # errand[q].by
      BY <3>1, <1>3, <1>6 DEF ErrandOK
    <3>5. QED
      BY <3>1, <3>2, <3>3, <3>4, <1>3 DEF ErrandOK, Backed
  <2>3. QED
    BY <2>1, <2>2
<1>17. ExportsDiffer'
  BY <1>2, <1>15 DEF RecordIInv, ExportsDiffer, OnErrand
<1>18. QED
  BY <1>3, <1>7, <1>9, <1>10, <1>11, <1>12, <1>13, <1>14, <1>16, <1>17 DEF RecordIInv

LEMMA PayExportKeeps ==
  ASSUME RecordIInv, NEW p \in Procs, NEW r \in Requests, NEW l \in Lessons, PayExport(p, r, l)
  PROVE  RecordIInv'
<1> DEFINE e == [op |-> "export", on |-> l, by |-> r, copy |-> None]
<1>1. /\ Spend(p, r, "learning_export", l)
      /\ errand' = [errand EXCEPT ![p] = e]
      /\ UNCHANGED <<schedule, library, keeper, consent>>
  BY DEF PayExport, Sent
<1>2. e \in Errands /\ e.op = "export" /\ e.on = l /\ e.by = r
  BY DEF Errands
<1> HIDE DEF e
<1>3. /\ GateInv(RecordPurposes)'
      /\ \A a, t : Consumed(a, t) \subseteq Consumed(a, t)'
      /\ \A a, t : r \notin Consumed(a, t)
  BY <1>1, SpendKeepsGate DEF RecordIInv
<1>4. r \in Consumed("learning_export", l)'
  <2>1. /\ <<"learning_export", l>> \in RecordPurposes
        /\ \A t : <<"learning_export", t>> \in RecordPurposes => t \in Lessons
    BY DEF RecordPurposes
  <2>2. QED
    BY <1>1, <2>1, SpendPlain, RecordAssumption DEF RecordIInv
<1>5. /\ status[r] = "approved"
      /\ \A s \in Requests : status[s] = "consumed" => status'[s] = "consumed"
  BY <1>1, SpendConsumes DEF RecordIInv, GateInv
<1>6. \A x \in JobsAndShared : consent'[x] # r
  BY <1>1, <1>5, RecordAssumption DEF RecordIInv, ConsentSpent
<1>7. e # Idle => ErrandOK(e)'
  BY <1>2, <1>4, <1>6 DEF ErrandOK
<1>8. \A q \in Procs : OnErrand(q, "export") => errand[q].by # r
  BY <1>3 DEF RecordIInv, ErrandsOK, ErrandOK, OnErrand
<1>9. /\ schedule' \in Schedule /\ Backed(schedule')
      /\ library' \in [Shared -> Lessons \cup {"hermes", None}]
      /\ \A x \in Shared : library'[x] = library[x] \/ library'[x] \notin Lessons
      /\ keeper' \in Procs \cup {NoProc}
  BY <1>1 DEF RecordIInv, RecordTypeOK
<1>10. QED
  BY <1>1, <1>2, <1>3, <1>5, <1>7, <1>8, <1>9, ErrandMove

LEMMA PayDeleteKeeps ==
  ASSUME RecordIInv, NEW p \in Procs, NEW r \in Requests, NEW x \in Shared, PayDelete(p, r, x)
  PROVE  RecordIInv'
<1> DEFINE e == [op |-> "delete", on |-> x, by |-> r, copy |-> None]
<1>1. /\ Spend(p, r, "learning_delete", x)
      /\ errand' = [errand EXCEPT ![p] = e]
      /\ keeper' = p
      /\ UNCHANGED <<schedule, library, consent>>
  BY DEF PayDelete, Sent
<1>2. e \in Errands /\ e.op = "delete" /\ e.on = x
  BY DEF Errands
<1> HIDE DEF e
<1>3. /\ GateInv(RecordPurposes)'
      /\ \A a, t : Consumed(a, t) \subseteq Consumed(a, t)'
  BY <1>1, SpendKeepsGate DEF RecordIInv
<1>4. \A s \in Requests : status[s] = "consumed" => status'[s] = "consumed"
  BY <1>1, SpendConsumes DEF RecordIInv, GateInv
<1>5. e # Idle => ErrandOK(e)'
  BY <1>2 DEF ErrandOK
<1>6. /\ schedule' \in Schedule /\ Backed(schedule')
      /\ library' \in [Shared -> Lessons \cup {"hermes", None}]
      /\ \A y \in Shared : library'[y] = library[y] \/ library'[y] \notin Lessons
      /\ keeper' \in Procs \cup {NoProc}
  BY <1>1 DEF RecordIInv, RecordTypeOK
<1>7. e # Idle /\ e.op = "export" => \A q \in Procs : OnErrand(q, "export") => errand[q].by # e.by
  BY <1>2
<1>8. QED
  BY <1>1, <1>2, <1>3, <1>4, <1>5, <1>6, <1>7, ErrandMove

\* The lesson goes into a record no approval stands for, and its approval is
\* no other call's.
LEMMA ExportLessonKeeps ==
  ASSUME RecordIInv, NEW p \in Procs, NEW x \in Shared, ExportLesson(p, x)
  PROVE  RecordIInv'
<1> DEFINE l == errand[p].on
           r == errand[p].by
<1>1. /\ OnErrand(p, "export") /\ consent[x] = None
      /\ \A y \in Shared : library[y] # l
      /\ library' = [library EXCEPT ![x] = l]
      /\ consent' = [consent EXCEPT ![x] = r]
      /\ errand' = [errand EXCEPT ![p] = Idle]
      /\ UNCHANGED <<schedule, keeper, vars>>
  BY DEF ExportLesson, Home
<1>2. ErrandOK(errand[p])
  BY <1>1 DEF RecordIInv, ErrandsOK, OnErrand
<1>3. /\ l \in Lessons /\ r \in Consumed("learning_export", l)
      /\ \A y \in JobsAndShared : consent[y] # r
  BY <1>1, <1>2 DEF ErrandOK, OnErrand
<1>4. r \in Requests /\ status[r] = "consumed" /\ r # None
  BY <1>3, RecordAssumption DEF Consumed
<1>5. \A q \in Procs \ {p} : OnErrand(q, "export") => errand[q].by # r
  BY <1>1 DEF RecordIInv, ExportsDiffer
<1> HIDE DEF l, r
<1>6. /\ GateInv(RecordPurposes)' /\ status' = status
      /\ \A a, t : Consumed(a, t)' = Consumed(a, t)
  BY <1>1, GateStutters DEF RecordIInv, vars
<1>7. \A y \in JobsAndShared : consent'[y] = IF y = x THEN r ELSE consent[y]
  BY <1>1 DEF RecordIInv, RecordTypeOK, JobsAndShared
<1>8. \A y \in Shared : library'[y] = IF y = x THEN l ELSE library[y]
  BY <1>1 DEF RecordIInv, RecordTypeOK
<1>9. \A q \in Procs : errand'[q] = IF q = p THEN Idle ELSE errand[q]
  BY <1>1 DEF RecordIInv, RecordTypeOK
<1>10. RecordTypeOK'
  BY <1>1, <1>3, <1>4 DEF RecordIInv, RecordTypeOK
<1>11. x \in JobsAndShared /\ \A j \in Jobs : j \in JobsAndShared /\ consent'[j] = consent[j]
  BY <1>7, RecordAssumption DEF JobsAndShared
<1>12. ConsentSpent'
  BY <1>4, <1>6, <1>7 DEF RecordIInv, ConsentSpent
<1>13. ConsentDiffers'
  BY <1>3, <1>7 DEF RecordIInv, ConsentDiffers
<1>14. JobsConsented' /\ Backed(schedule)'
  BY <1>1, <1>6, <1>11 DEF RecordIInv, JobsConsented, Backed
<1>15. LibraryConsented'
  <2> SUFFICES ASSUME NEW y \in Shared, library'[y] \in Lessons
               PROVE  consent'[y] \in Consumed("learning_export", library[y])'
    BY DEF LibraryConsented
  <2>1. CASE y = x
    <3>1. library'[y] = l /\ consent'[y] = r
      BY <1>7, <1>8, <1>11, <2>1
    <3>2. QED
      BY <3>1, <1>3, <1>6 DEF Consumed
  <2>2. CASE y # x
    <3>1. library'[y] = library[y] /\ consent'[y] = consent[y]
      BY <1>7, <1>8, <2>2 DEF JobsAndShared
    <3>2. consent[y] \in Consumed("learning_export", library[y])
      BY <3>1 DEF RecordIInv, LibraryConsented
    <3>3. QED
      BY <3>1, <3>2, <1>6 DEF Consumed
  <2>3. QED
    BY <2>1, <2>2
<1>16. LessonsDiffer'
  <2>1. \A y \in Shared : library[y] # l
    BY <1>1
  <2>2. QED
    BY <2>1, <1>8 DEF RecordIInv, LessonsDiffer
<1>17. ErrandsOK'
  <2> SUFFICES ASSUME NEW q \in Procs, errand'[q] # Idle PROVE ErrandOK(errand[q])'
    BY DEF ErrandsOK
  <2>1. q # p /\ errand'[q] = errand[q] /\ ErrandOK(errand[q])
    BY <1>9 DEF RecordIInv, ErrandsOK
  <2>2. errand[q].op = "add" => errand[q].on \in Jobs /\ consent'[errand[q].on] # None
    BY <2>1, <1>11 DEF ErrandOK
  <2>3. errand[q].op = "save" => errand[q].copy \in Schedule /\ Backed(errand[q].copy)'
    BY <2>1, <1>11 DEF ErrandOK, Backed
  <2>4. errand[q].op = "export" =>
          /\ errand[q].on \in Lessons
          /\ errand[q].by \in Consumed("learning_export", errand[q].on)
          /\ errand[q].by # r
          /\ \A y \in JobsAndShared : consent'[y] # errand[q].by
    BY <2>1, <1>5, <1>7, <1>9 DEF ErrandOK, OnErrand
  <2>5. QED
    BY <2>1, <2>2, <2>3, <2>4, <1>6 DEF ErrandOK, Backed
<1>18. ExportsDiffer'
  BY <1>9 DEF RecordIInv, ExportsDiffer, OnErrand
<1>19. QED
  BY <1>6, <1>10, <1>12, <1>13, <1>14, <1>15, <1>16, <1>17, <1>18 DEF RecordIInv

\* A step that changes no errand, no consent and no schedule.
LEMMA RecordIdleMove ==
  ASSUME RecordIInv, GateInv(RecordPurposes)', Aside(RecordPurposes),
         library' \in [Shared -> Lessons \cup {"hermes", None}],
         \A x \in Shared : library'[x] = library[x] \/ library'[x] \notin Lessons,
         errand' = errand, consent' = consent, schedule' = schedule, keeper' = keeper
  PROVE  RecordIInv'
<1>0. /\ \A a, t : Consumed(a, t) \subseteq Consumed(a, t)'
      /\ \A r \in Requests : status[r] = "consumed" => status'[r] = "consumed"
  BY DEF Aside
<1>1. RecordTypeOK' /\ ConsentSpent' /\ ConsentDiffers' /\ JobsConsented' /\ Backed(schedule)'
  BY <1>0 DEF RecordIInv, RecordTypeOK, ConsentSpent, ConsentDiffers, JobsConsented, Backed
<1>2. LibraryConsented'
  <2> SUFFICES ASSUME NEW x \in Shared, library'[x] \in Lessons
               PROVE  consent'[x] \in Consumed("learning_export", library[x])'
    BY DEF LibraryConsented
  <2>1. library'[x] = library[x]
    OBVIOUS
  <2>2. consent[x] \in Consumed("learning_export", library[x])
    BY <2>1 DEF RecordIInv, LibraryConsented
  <2>3. consent[x] \in Consumed("learning_export", library'[x])
    BY <2>1, <2>2
  <2>4. QED
    BY <2>1, <2>2, <1>0 DEF Consumed
<1>3. LessonsDiffer' /\ ExportsDiffer'
  BY DEF RecordIInv, LessonsDiffer, ExportsDiffer, OnErrand
<1>4. ErrandsOK'
  <2>1. \A q \in Procs : errand[q] # Idle => ErrandOK(errand[q])'
    BY <1>0, ErrandStays DEF RecordIInv, ErrandsOK
  <2>2. QED
    BY <2>1 DEF ErrandsOK, ErrandOK, Backed
<1>5. QED
  BY <1>1, <1>2, <1>3, <1>4 DEF RecordIInv

LEMMA RecordStep == RecordIInv /\ [RecordNext]_<<recordVars, vars>> => RecordIInv'
<1> SUFFICES ASSUME RecordIInv, [RecordNext]_<<recordVars, vars>> PROVE RecordIInv'
  OBVIOUS
<1>0. /\ schedule \in Schedule /\ Backed(schedule)
      /\ library \in [Shared -> Lessons \cup {"hermes", None}]
      /\ keeper \in Procs \cup {NoProc}
      /\ \A p \in Procs : errand[p] # Idle => errand[p] \in Errands /\ ErrandOK(errand[p])
  BY DEF RecordIInv, RecordTypeOK, ErrandsOK
\* A call that has made a copy it will save.
<1>1. ASSUME NEW p \in Procs, NEW s \in Schedule, Backed(s), ToSaveSchedule(p, s),
             UNCHANGED <<schedule, library, keeper, consent, vars>>
      PROVE  RecordIInv'
  <2> DEFINE e == [op |-> "save", on |-> None, by |-> None, copy |-> s]
  <2>1. errand' = [errand EXCEPT ![p] = e]
    BY <1>1 DEF ToSaveSchedule
  <2>2. e \in Errands /\ ErrandOK(e) /\ e.op # "export"
    BY <1>1 DEF Errands, ErrandOK
  <2> HIDE DEF e
  <2>3. QED
    BY <1>0, <1>1, <2>1, <2>2, RecordMove
<1>2. ASSUME NEW p \in Procs, LoadAdd(p) PROVE RecordIInv'
  <2> DEFINE j == errand[p].on
             s == [schedule EXCEPT ![j] = [enabled |-> TRUE, failures |-> 0]]
  <2>1. OnErrand(p, "add") /\ ToSaveSchedule(p, s) /\ UNCHANGED <<schedule, library, keeper, consent, vars>>
    BY <1>2 DEF LoadAdd
  <2>2. j \in Jobs /\ consent[j] # None
    BY <1>0, <2>1 DEF OnErrand, ErrandOK
  <2>3. [enabled |-> TRUE, failures |-> 0] \in JobEntry
    BY FailureAssumption DEF JobEntry
  <2>4. s \in Schedule
    BY <1>0, <2>2, <2>3 DEF Schedule
  <2>5. Backed(s)
    BY <1>0, <2>2 DEF Backed, Schedule
  <2> HIDE DEF s
  <2>6. QED
    BY <1>1, <2>1, <2>4, <2>5
<1>3. ASSUME NEW p \in Procs, NEW j \in Jobs, LoadUnschedule(p, j) PROVE RecordIInv'
  <2> DEFINE s == [schedule EXCEPT ![j].enabled = FALSE]
  <2>1. /\ schedule[j] # None /\ ToSaveSchedule(p, s)
        /\ UNCHANGED <<schedule, library, keeper, consent, vars>>
    BY <1>3 DEF LoadUnschedule
  <2>2. schedule[j] \in JobEntry
    BY <1>0, <2>1 DEF Schedule
  <2>3. [schedule[j] EXCEPT !.enabled = FALSE] \in JobEntry
    BY <2>2 DEF JobEntry
  <2>4. s = [schedule EXCEPT ![j] = [schedule[j] EXCEPT !.enabled = FALSE]]
    BY <1>0 DEF Schedule
  <2>5. s \in Schedule
    BY <1>0, <2>3, <2>4 DEF Schedule
  <2>6. Backed(s)
    BY <1>0, <2>1, <2>4 DEF Backed, Schedule
  <2> HIDE DEF s
  <2>7. QED
    BY <1>1, <2>1, <2>5, <2>6
<1>4. ASSUME NEW p \in Procs, NEW due \in SUBSET Jobs, LoadDue(p, due) PROVE RecordIInv'
  <2> DEFINE s == [j \in Jobs |-> IF j \in due THEN [schedule[j] EXCEPT !.failures = @ + 1]
                                  ELSE schedule[j]]
  <2>1. /\ \A j \in due : schedule[j] # None /\ schedule[j].enabled /\ schedule[j].failures < MaxFailures
        /\ ToSaveSchedule(p, s)
        /\ UNCHANGED <<schedule, library, keeper, consent, vars>>
    BY <1>4 DEF LoadDue
  <2>2. ASSUME NEW j \in due PROVE [schedule[j] EXCEPT !.failures = @ + 1] \in JobEntry
    <3>1. schedule[j] \in JobEntry /\ schedule[j].failures < MaxFailures
      BY <1>0, <2>1 DEF Schedule
    <3>2. schedule[j].failures \in 0 .. MaxFailures
      BY <3>1 DEF JobEntry
    <3>3. schedule[j].failures + 1 \in 0 .. MaxFailures
      BY <3>1, <3>2, FailureAssumption
    <3>4. QED
      BY <3>1, <3>3 DEF JobEntry
  <2>3. s \in Schedule
    BY <1>0, <2>2 DEF Schedule
  <2>4. Backed(s)
    BY <1>0, <2>1 DEF Backed
  <2> HIDE DEF s
  <2>5. QED
    BY <1>1, <2>1, <2>3, <2>4
<1>5. ASSUME NEW p \in Procs, SaveSchedule(p) PROVE RecordIInv'
  <2>1. /\ OnErrand(p, "save") /\ schedule' = errand[p].copy
        /\ errand' = [errand EXCEPT ![p] = Idle]
        /\ UNCHANGED <<library, keeper, consent, vars>>
    BY <1>5 DEF SaveSchedule, Home
  <2>2. schedule' \in Schedule /\ Backed(schedule')
    BY <1>0, <2>1 DEF OnErrand, ErrandOK
  <2>3. QED
    BY <1>0, <2>1, <2>2, RecordMove
<1>6. ASSUME NEW p \in Procs, DeleteLesson(p) PROVE RecordIInv'
  <2>1. /\ OnErrand(p, "delete")
        /\ library' = [library EXCEPT ![errand[p].on] = None]
        /\ keeper' = NoProc
        /\ errand' = [errand EXCEPT ![p] = Idle]
        /\ UNCHANGED <<schedule, consent, vars>>
    BY <1>6 DEF DeleteLesson, Home
  <2>2. errand[p].on \in Shared
    BY <1>0, <2>1 DEF OnErrand, ErrandOK
  <2>3. /\ library' \in [Shared -> Lessons \cup {"hermes", None}]
        /\ \A x \in Shared : library'[x] = library[x] \/ library'[x] \notin Lessons
    BY <1>0, <2>1, <2>2, RecordAssumption
  <2>4. QED
    BY <1>0, <2>1, <2>3, RecordMove
<1>7. ASSUME NEW p \in Procs, QuitErrand(p) PROVE RecordIInv'
  <2>1. /\ keeper' \in Procs \cup {NoProc}
        /\ errand' = [errand EXCEPT ![p] = Idle]
        /\ UNCHANGED <<schedule, library, consent, vars>>
    BY <1>0, <1>7 DEF QuitErrand, Home
  <2>2. QED
    BY <1>0, <2>1, RecordMove
<1>8. ASSUME NEW x \in Shared, ImportLesson(x) PROVE RecordIInv'
  <2>1. /\ library' = [library EXCEPT ![x] = "hermes"]
        /\ UNCHANGED <<schedule, keeper, errand, consent, vars>>
    BY <1>8 DEF ImportLesson
  <2>2. /\ library' \in [Shared -> Lessons \cup {"hermes", None}]
        /\ \A y \in Shared : library'[y] = library[y] \/ library'[y] \notin Lessons
    BY <1>0, <2>1, RecordAssumption
  <2>3. GateInv(RecordPurposes)' /\ Aside(RecordPurposes)
    BY <2>1, GateStutters DEF RecordIInv
  <2>4. QED
    BY <2>1, <2>2, <2>3, RecordIdleMove
<1>9. ASSUME NEW r \in Requests, NEW x \in RecordPurposes, AskFor(r, x[1], x[2]), UNCHANGED recordVars
      PROVE  RecordIInv'
  <2>1. <<x[1], x[2]>> \in RecordPurposes
    BY DEF RecordPurposes
  <2>2. GateInv(RecordPurposes)' /\ Aside(RecordPurposes)
    BY <1>9, <2>1, AskKeepsGate DEF RecordIInv
  <2>3. QED
    BY <1>0, <1>9, <2>2, RecordIdleMove DEF recordVars
<1>10. ASSUME NEW r \in Requests, Approve(r), UNCHANGED recordVars PROVE RecordIInv'
  <2>1. GateInv(RecordPurposes)' /\ Aside(RecordPurposes)
    BY <1>10, GrantKeepsGate DEF RecordIInv
  <2>2. QED
    BY <1>0, <1>10, <2>1, RecordIdleMove DEF recordVars
<1>11. CASE UNCHANGED <<recordVars, vars>>
  <2>1. GateInv(RecordPurposes)' /\ Aside(RecordPurposes)
    BY <1>11, GateStutters DEF RecordIInv
  <2>2. QED
    BY <1>0, <1>11, <2>1, RecordIdleMove DEF recordVars
<1>12. QED
  BY <1>2, <1>3, <1>4, <1>5, <1>6, <1>7, <1>8, <1>9, <1>10, <1>11,
     PayScheduleKeeps, PayExportKeeps, PayDeleteKeeps, ExportLessonKeeps DEF RecordNext

\* The schedule, the library and the calls on them keep their types.
THEOREM RecordTypeCorrect == RecordSpec => []RecordTypeOK
  BY RecordInit_IInv, RecordStep, RecordIInvImplies, PTL DEF RecordSpec

\* However saves of the schedule overwrite each other and calls die after
\* their approval: every task and every exported lesson has an approval of its
\* own, consumed for it, and no lesson is in the library twice.
THEOREM RecordConsented == RecordSpec => []RecordsAreConsented
  BY RecordInit_IInv, RecordStep, RecordIInvImplies, PTL DEF RecordSpec

-----------------------------------------------------------------------------
(***************************************************************************)
(* The workflow.  A copy a call holds is as good as the file: the stages   *)
(* behind it were earned, whatever was saved meanwhile, because what       *)
(* earns a gate, a spent approval, cannot be undone.                       *)
(***************************************************************************)

\* The number of stages of a profile.
Length == [fast |-> 3, standard |-> 7, high_assurance |-> 8]

FlowOK(f, rec) == rec \in FlowRecord /\ rec.index <= Length[rec.profile] /\ Earned(f, rec)

\* A call was permitted on the copy it holds, and what it paid is spent.
FlowCallOK(d) ==
  /\ d.id \in Flows /\ flow[d.id] # Absent
  /\ FlowOK(d.id, d.copy)
  /\ Permitted(d.copy, d.op)
  /\ d.paid => Stage(d.copy) \in GateStages /\ Spent(ApprovalAction[Stage(d.copy)], d.id)

FlowIInv ==
  /\ GateInv(GatePurposes)
  /\ LifeTypeOK
  /\ \A f \in Flows : Readable(flow[f]) => FlowOK(f, flow[f])
  /\ \A p \in Procs : InFlow(p) => FlowCallOK(doing[p])

\* A profile ends with its only "completed", and no stage comes twice.
LEMMA ProfileStages ==
  ASSUME NEW profile \in DOMAIN PROFILES
  PROVE  /\ Length[profile] \in 3 .. 8
         /\ \A i \in 1 .. Length[profile] :
              PROFILES[profile][i] = "completed" <=> i = Length[profile]
         /\ \A i, j \in 1 .. Length[profile] :
              PROFILES[profile][i] = PROFILES[profile][j] => i = j
<1>1. profile \in {"fast", "standard", "high_assurance"}
  BY DEF PROFILES
<1>2. CASE profile = "fast"
  <2>1. /\ Length[profile] = 3
        /\ PROFILES[profile][1] = "implementation"
        /\ PROFILES[profile][2] = "verification"
        /\ PROFILES[profile][3] = "completed"
    BY <1>2 DEF Length, PROFILES
  <2>2. QED
    BY <2>1
<1>3. CASE profile = "standard"
  <2>1. /\ Length[profile] = 7
        /\ PROFILES[profile][1] = "design_approval"
        /\ PROFILES[profile][2] = "planning"
        /\ PROFILES[profile][3] = "implementation"
        /\ PROFILES[profile][4] = "specification_review"
        /\ PROFILES[profile][5] = "quality_review"
        /\ PROFILES[profile][6] = "verification"
        /\ PROFILES[profile][7] = "completed"
    BY <1>3 DEF Length, PROFILES
  <2>2. QED
    BY <2>1
<1>4. CASE profile = "high_assurance"
  <2>1. /\ Length[profile] = 8
        /\ PROFILES[profile][1] = "design_approval"
        /\ PROFILES[profile][2] = "planning"
        /\ PROFILES[profile][3] = "implementation"
        /\ PROFILES[profile][4] = "specification_review"
        /\ PROFILES[profile][5] = "quality_review"
        /\ PROFILES[profile][6] = "verification"
        /\ PROFILES[profile][7] = "final_approval"
        /\ PROFILES[profile][8] = "completed"
    BY <1>4 DEF Length, PROFILES
  <2>2. QED
    BY <2>1
<1>5. QED
  BY <1>1, <1>2, <1>3, <1>4

\* A new workflow stands at its first stage.
LEMMA NewFlowOK ==
  ASSUME NEW f \in Flows, NEW profile \in DOMAIN PROFILES
  PROVE  NewFlow(profile) \in FlowRecord /\ FlowOK(f, NewFlow(profile))
<1> DEFINE rec == NewFlow(profile)
<1>1. /\ rec.profile = profile /\ rec.index = 1 /\ rec.status = "active"
      /\ rec \in FlowRecord
  BY DEF NewFlow, FlowRecord
<1> HIDE DEF rec
<1>2. 1 <= Length[profile] /\ PROFILES[profile][1] # "completed"
  BY ProfileStages
<1>3. Earned(f, rec)
  BY <1>1, <1>2 DEF Earned, Stage
<1>4. QED
  BY <1>1, <1>2, <1>3 DEF FlowOK, rec

\* What was earned stays earned while approvals stay spent.
LEMMA EarnedStays ==
  ASSUME NEW f, NEW rec, FlowOK(f, rec), \A a, t : Consumed(a, t) \subseteq Consumed(a, t)'
  PROVE  FlowOK(f, rec)'
<1>1. \A a, t : Spent(a, t) => Spent(a, t)'
  BY DEF Spent
<1>2. QED
  BY <1>1 DEF FlowOK, Earned, Stage

\* What a call saves has earned the stages behind it.
LEMMA OutcomeOK ==
  ASSUME NEW f, NEW rec, FlowOK(f, rec), NEW op \in FlowOps, Permitted(rec, op), NEW passed \in BOOLEAN,
         op = "advance" =>
           passed /\ (Stage(rec) \in GateStages => Spent(ApprovalAction[Stage(rec)], f))
  PROVE  /\ FlowOK(f, Outcome(rec, op, passed))
         /\ Outcome(rec, op, passed).profile = rec.profile
<1> DEFINE mark == IF passed THEN "passed" ELSE "failed"
           told == CASE op = "advance" -> rec
                     [] op = "verify"  -> [rec EXCEPT !.verified = mark]
                     [] OTHER          -> [rec EXCEPT !.reviews[op] = mark]
           n    == Length[rec.profile]
           st(i) == PROFILES[rec.profile][i]
<1>1. /\ rec \in FlowRecord /\ rec.index \in 1 .. n /\ rec.profile \in DOMAIN PROFILES /\ n \in 3 .. 8
      /\ Earned(f, rec)
  BY ProfileStages DEF FlowOK, FlowRecord
<1>2. op \in {"advance", "verify"} \cup Review
  BY DEF FlowOps, Review
<1>3. /\ Stage(rec) = st(rec.index) /\ Stage(rec) # "completed"
      /\ op = "advance" => Stage(rec) \notin Review \cup {"verification"}
      /\ op = "verify" => Stage(rec) = "verification"
      /\ op \in Review => Stage(rec) = op
  BY <1>2 DEF Permitted, Stage, Review
<1>4. rec.index < n
  BY <1>1, <1>3, ProfileStages
<1>5. mark \in {"passed", "failed"}
  OBVIOUS
<1>6. /\ told \in FlowRecord /\ told.profile = rec.profile /\ told.index = rec.index
      /\ told.status = rec.status
      /\ op = "verify" => told.verified = mark /\ told.reviews = rec.reviews
      /\ op \in Review => /\ told.reviews[op] = mark /\ told.verified = rec.verified
                          /\ \A s \in Review \ {op} : told.reviews[s] = rec.reviews[s]
      /\ op = "advance" => told = rec
  <2>1. CASE op = "advance"
    BY <2>1, <1>1 DEF Review
  <2>2. CASE op = "verify"
    BY <2>2, <1>1, <1>5 DEF FlowRecord, Review
  <2>3. CASE op \in Review
    <3>1. op # "advance" /\ op # "verify"
      BY <2>3 DEF Review
    <3>2. told = [rec EXCEPT !.reviews = [rec.reviews EXCEPT ![op] = mark]]
      BY <3>1, <1>1 DEF FlowRecord
    <3>3. [rec.reviews EXCEPT ![op] = mark] \in [Review -> {"none", "passed", "failed"}]
      BY <1>1, <1>5 DEF FlowRecord
    <3>4. rec.reviews \in [Review -> {"none", "passed", "failed"}]
      BY <1>1 DEF FlowRecord
    <3> HIDE DEF told, mark
    <3>5. QED
      BY <2>3, <3>1, <3>2, <3>3, <3>4, <1>1 DEF FlowRecord
  <2>4. QED
    BY <1>2, <2>1, <2>2, <2>3
<1>7. Outcome(rec, op, passed) = IF passed THEN MoveNext(told) ELSE [told EXCEPT !.status = "blocked"]
  BY DEF Outcome
<1> DEFINE passedBy(i, r) ==
             CASE st(i) \in GateStages     -> Spent(ApprovalAction[st(i)], f)
               [] st(i) \in Review         -> r.reviews[st(i)] = "passed"
               [] st(i) = "verification"   -> r.verified = "passed"
               [] OTHER                    -> TRUE
<1>8. \A i \in 1 .. rec.index - 1 : i \in 1 .. n /\ st(i) # st(rec.index) /\ passedBy(i, rec)
  <2>1. \A i \in 1 .. rec.index - 1 : i \in 1 .. n /\ st(i) # st(rec.index)
    BY <1>1, ProfileStages
  <2>2. \A i \in 1 .. rec.index - 1 : passedBy(i, rec)
    BY <1>1 DEF Earned
  <2>3. QED
    BY <2>1, <2>2
<1> HIDE DEF told, mark
<1>9. \A i \in 1 .. rec.index - 1 : passedBy(i, told)
  <2> SUFFICES ASSUME NEW i \in 1 .. rec.index - 1 PROVE passedBy(i, told)
    OBVIOUS
  <2>1. st(i) \in Review => told.reviews[st(i)] = rec.reviews[st(i)]
    BY <1>2, <1>3, <1>6, <1>8
  <2>2. st(i) = "verification" => told.verified = rec.verified
    BY <1>2, <1>3, <1>6, <1>8
  <2>3. passedBy(i, rec)
    BY <1>8
  <2>4. QED
    BY <2>1, <2>2, <2>3
<1>10. CASE passed
  <2> DEFINE next == MoveNext(told)
  <2>1. /\ next \in FlowRecord
        /\ next.profile = rec.profile /\ next.index = rec.index + 1
        /\ next.reviews = told.reviews /\ next.verified = told.verified
        /\ next.status = IF st(rec.index + 1) = "completed" THEN "completed" ELSE "active"
    <3> DEFINE c == IF st(rec.index + 1) = "completed" THEN "completed" ELSE "active"
    <3>1. next = [told EXCEPT !.index = rec.index + 1, !.status = c]
      BY <1>6 DEF MoveNext
    <3>2. rec.index + 1 \in 1 .. 8 /\ c \in {"active", "blocked", "completed"}
      BY <1>1, <1>4
    <3> HIDE DEF c, next
    <3>3. QED
      BY <1>6, <3>1, <3>2 DEF FlowRecord, c
  <2>2. mark = "passed"
    BY <1>10 DEF mark
  <2>3. passedBy(rec.index, told)
    <3>1. CASE op = "advance"
      BY <3>1, <1>3
    <3>2. CASE op = "verify"
      BY <3>2, <2>2, <1>3, <1>6 DEF GateStages, ApprovalAction, Review
    <3>3. CASE op \in Review
      <4>1. st(rec.index) = op /\ told.reviews[op] = "passed"
        BY <3>3, <2>2, <1>3, <1>6
      <4>2. op \notin GateStages
        BY <3>3 DEF GateStages, ApprovalAction, Review
      <4>3. QED
        BY <3>3, <4>1, <4>2 DEF Review
    <3>4. QED
      BY <1>2, <3>1, <3>2, <3>3
  <2> HIDE DEF next
  <2>4. \A i \in 1 .. next.index - 1 : passedBy(i, next)
    <3> SUFFICES ASSUME NEW i \in 1 .. next.index - 1 PROVE passedBy(i, next)
      OBVIOUS
    <3>1. i \in 1 .. rec.index - 1 \/ i = rec.index
      BY <1>1, <2>1
    <3>2. passedBy(i, told)
      BY <3>1, <1>9, <2>3
    <3>3. QED
      BY <3>2, <2>1
  <2>5. Earned(f, next)
    BY <2>1, <2>4 DEF Earned, Stage
  <2>6. next.index <= Length[next.profile]
    BY <1>1, <1>4, <2>1
  <2>7. Outcome(rec, op, passed) = next
    BY <1>7, <1>10 DEF next
  <2>8. QED
    BY <2>1, <2>5, <2>6, <2>7 DEF FlowOK
<1>11. CASE ~passed
  <2> DEFINE next == [told EXCEPT !.status = "blocked"]
  <2>1. /\ next \in FlowRecord
        /\ next.profile = rec.profile /\ next.index = rec.index
        /\ next.reviews = told.reviews /\ next.verified = told.verified
        /\ next.status = "blocked"
    BY <1>6 DEF FlowRecord
  <2>2. mark = "failed" /\ op # "advance"
    BY <1>11 DEF mark
  <2> HIDE DEF next
  <2>3. \A i \in 1 .. next.index - 1 : passedBy(i, next)
    BY <1>9, <2>1
  <2>4. \/ Stage(next) \in Review /\ next.reviews[Stage(next)] = "failed"
        \/ Stage(next) = "verification" /\ next.verified = "failed"
    BY <1>2, <1>3, <1>6, <2>1, <2>2 DEF Stage
  <2>5. Stage(next) # "completed"
    BY <1>3, <2>1 DEF Stage
  <2>6. Earned(f, next)
    BY <2>1, <2>3, <2>4, <2>5 DEF Earned, Stage
  <2>7. Outcome(rec, op, passed) = next
    BY <1>7, <1>11 DEF next
  <2>8. QED
    BY <1>1, <1>4, <2>1, <2>6, <2>7 DEF FlowOK
<1>12. QED
  BY <1>10, <1>11

(***************************************************************************)
(* The orchestration.  A confirmed record names a workflow that exists; if *)
(* its request was of high risk, the file of that workflow and every copy  *)
(* of it that may yet be saved are of the high-assurance profile.          *)
(***************************************************************************)

HighFlow(f) ==
  /\ Readable(flow[f]) => flow[f].profile = "high_assurance"
  /\ \A p \in Procs : InFlow(p) /\ doing[p].id = f => doing[p].copy.profile = "high_assurance"

FlowFor(text, f) == f \in Flows /\ flow[f] # Absent /\ (text = "high_risk" => HighFlow(f))

Founded(o, rec) ==
  rec.status # "draft" =>
    /\ o \in required
    /\ rec.write => rec.paths
    /\ FlowFor(rec.text, rec.flow)
    /\ rec.status = "dispatched" => o \in handoff

OrchCallOK(d) ==
  /\ Founded(d.id, d.copy)
  /\ d.op = "confirm" =>
       /\ d.copy.write => d.copy.paths
       /\ d.at # 1 => d.id \in required
       /\ d.at = 3 => FlowFor(d.copy.text, d.made)
  /\ d.op = "dispatch" =>
       /\ d.copy.status = "confirmed"
       /\ d.at = 3 => d.id \in handoff

FlowsGood == \A f \in Flows : Readable(flow[f]) => FlowOK(f, flow[f])
OrchsGood == \A o \in Orchs : Readable(orch[o]) => Founded(o, orch[o])

LifeIInv ==
  /\ FlowIInv
  /\ OrchsGood
  /\ \A p \in Procs : doing[p] # Idle /\ ~InFlow(p) => OrchCallOK(doing[p])
  /\ handoff \subseteq required

\* What a process may be in, by the call it makes.
CallOK(d) ==
  d # Idle => IF d.op \in FlowOps THEN d \in FlowCalls /\ FlowCallOK(d)
                                  ELSE d \in OrchCalls /\ OrchCallOK(d)

LEMMA CallsAreOK == LifeIInv => \A p \in Procs : CallOK(doing[p])
  BY DEF LifeIInv, FlowIInv, LifeTypeOK, CallOK, InFlow, FlowCalls, OrchCalls, FlowOps

LEMMA LifeIInvImplies == LifeIInv => LifeTypeOK /\ GatesEarned /\ HandoffWasConfirmed
<1> SUFFICES ASSUME LifeIInv PROVE GatesEarned /\ HandoffWasConfirmed
  BY DEF LifeIInv, FlowIInv
<1>1. GatesEarned
  BY DEF LifeIInv, FlowIInv, GatesEarned, FlowOK, FlowCallOK
<1>2. ASSUME NEW o, NEW rec, Founded(o, rec) PROVE Confirmed(o, rec)
  <2> SUFFICES ASSUME rec.status # "draft" PROVE Confirmed(o, rec)
    BY DEF Confirmed
  <2>1. /\ o \in required /\ (rec.write => rec.paths)
        /\ rec.flow \in Flows /\ flow[rec.flow] # Absent
        /\ rec.text = "high_risk" => HighFlow(rec.flow)
        /\ rec.status = "dispatched" => o \in handoff
    BY <1>2 DEF Founded, FlowFor
  <2>2. rec.flow # Absent
    BY <2>1, LifeAssumption
  <2>3. QED
    BY <2>1, <2>2 DEF Confirmed, HighFlow
<1>3. HandoffWasConfirmed
  BY <1>2 DEF LifeIInv, OrchsGood, OrchCallOK, HandoffWasConfirmed
<1>4. QED
  BY <1>1, <1>3

LEMMA LifeInit_IInv == Init /\ LifeInit => LifeIInv
<1> SUFFICES ASSUME Init, LifeInit PROVE LifeIInv
  OBVIOUS
<1>1. GateInv(GatePurposes)
  BY InitGate
<1>2. LifeTypeOK
  BY DEF LifeInit, LifeTypeOK
<1>3. /\ \A f \in Flows : ~Readable(flow[f])
      /\ \A o \in Orchs : ~Readable(orch[o])
      /\ \A p \in Procs : doing[p] = Idle
      /\ handoff = {}
  BY DEF LifeInit, Readable
<1>4. QED
  BY <1>1, <1>2, <1>3 DEF LifeIInv, FlowIInv, OrchsGood, InFlow

\* What holds of records and calls goes on holding while approvals stay
\* spent, files do not vanish and workflows of high risk stay so.
LEMMA FoundedStays ==
  ASSUME required \subseteq required', handoff \subseteq handoff',
         \A f \in Flows : flow[f] # Absent => flow'[f] # Absent,
         \A f \in Flows : flow[f] # Absent /\ HighFlow(f) => HighFlow(f)',
         NEW o, NEW rec, Founded(o, rec)
  PROVE  Founded(o, rec)'
  BY DEF Founded, FlowFor

LEMMA CallStays ==
  ASSUME required \subseteq required', handoff \subseteq handoff',
         \A f \in Flows : flow[f] # Absent => flow'[f] # Absent,
         \A f \in Flows : flow[f] # Absent /\ HighFlow(f) => HighFlow(f)',
         \A a, t : Consumed(a, t) \subseteq Consumed(a, t)',
         NEW d, CallOK(d)
  PROVE  CallOK(d)'
<1> SUFFICES ASSUME d # Idle PROVE CallOK(d)'
  BY DEF CallOK
<1>1. CASE d.op \in FlowOps
  <2>1. d \in FlowCalls /\ FlowCallOK(d)
    BY <1>1 DEF CallOK
  <2>2. FlowOK(d.id, d.copy)'
    BY <2>1, EarnedStays DEF FlowCallOK
  <2>3. \A a, t : Spent(a, t) => Spent(a, t)'
    BY DEF Spent
  <2>4. FlowCallOK(d)'
    BY <2>1, <2>2, <2>3 DEF FlowCallOK
  <2>5. QED
    BY <1>1, <2>1, <2>4 DEF CallOK
<1>2. CASE d.op \notin FlowOps
  <2>1. d \in OrchCalls /\ OrchCallOK(d)
    BY <1>2 DEF CallOK
  <2>2. Founded(d.id, d.copy)'
    BY <2>1, FoundedStays DEF OrchCallOK
  <2>3. \A text, f : FlowFor(text, f) => FlowFor(text, f)'
    BY DEF FlowFor
  <2>4. OrchCallOK(d)'
    BY <2>1, <2>2, <2>3 DEF OrchCallOK
  <2>5. QED
    BY <1>2, <2>1, <2>4 DEF CallOK
<1>3. QED
  BY <1>1, <1>2


\* What no step takes back: requirements, documents, files, spent approvals,
\* and that a workflow is of high risk.
Grows ==
  /\ required \subseteq required' /\ handoff \subseteq handoff'
  /\ \A f \in Flows : flow[f] # Absent => flow'[f] # Absent
  /\ \A f \in Flows : flow[f] # Absent /\ HighFlow(f) => HighFlow(f)'
  /\ \A a, t : Consumed(a, t) \subseteq Consumed(a, t)'

\* What a step has to establish: only the calls it changes need a new look.
LEMMA LifeMove ==
  ASSUME LifeIInv, Grows, GateInv(GatePurposes)',
         flow' \in [Flows -> FlowRecord \cup {Absent, Torn}],
         orch' \in [Orchs -> OrchRecord \cup {Absent, Torn}],
         required' \subseteq Orchs, handoff' \subseteq required',
         FlowsGood', OrchsGood',
         NEW D, doing' = D, D = [p \in Procs |-> D[p]],
         \A p \in Procs : D[p] = doing[p] \/ CallOK(D[p])'
  PROVE  LifeIInv'
<1>1. ASSUME NEW p \in Procs PROVE CallOK(D[p])'
  <2>1. CASE D[p] = doing[p]
    <3>1. CallOK(D[p])
      BY <2>1, CallsAreOK
    <3>2. QED
      BY <3>1, CallStays DEF Grows
  <2>2. QED
    BY <2>1
<1>2. \A p \in Procs : D[p] \in FlowCalls \cup OrchCalls \cup {Idle}
  BY <1>1 DEF CallOK
<1>3. LifeTypeOK'
  BY <1>2 DEF LifeTypeOK
<1>4. \A p \in Procs : InFlow(p)' => FlowCallOK(D[p])'
  BY <1>1 DEF CallOK, InFlow
<1>5. \A p \in Procs : D[p] # Idle /\ ~InFlow(p)' => OrchCallOK(D[p])'
  BY <1>1 DEF CallOK, InFlow
<1>6. FlowIInv'
  BY <1>3, <1>4 DEF FlowIInv, FlowsGood
<1>7. QED
  BY <1>5, <1>6 DEF LifeIInv

\* A step that writes no workflow and no orchestration.
LEMMA LifeCallMove ==
  ASSUME LifeIInv, UNCHANGED <<flow, orch>>, GateInv(GatePurposes)',
         \A a, t : Consumed(a, t) \subseteq Consumed(a, t)',
         required \subseteq required', handoff \subseteq handoff',
         required' \subseteq Orchs, handoff' \subseteq required',
         NEW p \in Procs, NEW d, doing' = [doing EXCEPT ![p] = d],
         \A f \in Flows : HighFlow(f) /\ d # Idle /\ d.op \in FlowOps /\ d.id = f
                            => d.copy.profile = "high_assurance",
         CallOK(d) \/ CallOK(d)'
  PROVE  LifeIInv'
<1>1. LifeTypeOK /\ FlowsGood /\ OrchsGood
  BY DEF LifeIInv, FlowIInv, FlowsGood
<1>2. /\ doing' = [q \in Procs |-> doing'[q]] /\ doing'[p] = d
      /\ \A q \in Procs : q # p => doing'[q] = doing[q]
  BY <1>1 DEF LifeTypeOK
<1>3. ASSUME NEW f \in Flows, HighFlow(f) PROVE HighFlow(f)'
  <2>1. Readable(flow'[f]) => flow'[f].profile = "high_assurance"
    BY <1>3 DEF HighFlow
  <2>2. ASSUME NEW q \in Procs, InFlow(q)', doing'[q].id = f
        PROVE  doing'[q].copy.profile = "high_assurance"
    <3>1. CASE q = p
      BY <1>2, <1>3, <2>2, <3>1 DEF InFlow
    <3>2. CASE q # p
      BY <1>2, <1>3, <2>2, <3>2 DEF InFlow, HighFlow
    <3>3. QED
      BY <3>1, <3>2
  <2>3. QED
    BY <2>1, <2>2 DEF HighFlow, Readable
<1>4. Grows
  BY <1>3 DEF Grows
<1>5. FlowsGood'
  <2> SUFFICES ASSUME NEW f \in Flows, Readable(flow[f]) PROVE FlowOK(f, flow[f])'
    BY DEF FlowsGood, Readable
  <2>1. PICK rec : rec = flow[f]
    OBVIOUS
  <2>2. FlowOK(f, rec)'
    BY <1>1, <2>1, EarnedStays DEF FlowsGood
  <2>3. QED
    BY <2>1, <2>2
<1>6. OrchsGood'
  <2> SUFFICES ASSUME NEW o \in Orchs, Readable(orch[o]) PROVE Founded(o, orch[o])'
    BY DEF OrchsGood, Readable
  <2>1. PICK rec : rec = orch[o]
    OBVIOUS
  <2>2. Founded(o, rec)'
    BY <1>1, <1>4, <2>1, FoundedStays DEF OrchsGood, Grows
  <2>3. QED
    BY <2>1, <2>2
<1>7. flow' \in [Flows -> FlowRecord \cup {Absent, Torn}]
      /\ orch' \in [Orchs -> OrchRecord \cup {Absent, Torn}]
  BY <1>1 DEF LifeTypeOK
<1>8. PICK D : D = doing'
  OBVIOUS
<1>9. \A q \in Procs : D[q] = doing[q] \/ CallOK(D[q])'
  <2>1. CallOK(d)'
    BY <1>4, CallStays DEF Grows
  <2>2. QED
    BY <1>2, <1>8, <2>1
<1>10. QED
  BY <1>2, <1>4, <1>5, <1>6, <1>7, <1>8, <1>9, LifeMove

\* A step that writes one workflow: what it writes was earned, and is of high
\* risk where the file it replaces was.
LEMMA LifeFileMove ==
  ASSUME LifeIInv, UNCHANGED <<orch, required, handoff>>, UNCHANGED vars,
         NEW g \in Flows, NEW rec \in FlowRecord \cup {Torn}, flow' = [flow EXCEPT ![g] = rec],
         Readable(rec) => FlowOK(g, rec),
         Readable(rec) /\ flow[g] # Absent /\ HighFlow(g) => rec.profile = "high_assurance",
         NEW D, doing' = D, D = [p \in Procs |-> D[p]],
         \A p \in Procs : \/ D[p] = doing[p]
                          \/ (D[p] # Idle => D[p].op \notin FlowOps) /\ CallOK(D[p])'
  PROVE  LifeIInv'
<1>1. LifeTypeOK /\ FlowsGood /\ OrchsGood /\ GateInv(GatePurposes)
      /\ handoff \subseteq required
  BY DEF LifeIInv, FlowIInv, FlowsGood
<1>2. /\ flow'[g] = rec
      /\ \A f \in Flows : f # g => flow'[f] = flow[f]
      /\ flow' \in [Flows -> FlowRecord \cup {Absent, Torn}]
  BY <1>1 DEF LifeTypeOK
<1>3. GateInv(GatePurposes)' /\ \A a, t : Consumed(a, t)' = Consumed(a, t)
  BY <1>1, GateStutters
<1>4. rec # Absent
  BY LifeAssumption
<1>5. ASSUME NEW f \in Flows, flow[f] # Absent, HighFlow(f) PROVE HighFlow(f)'
  <2>1. Readable(flow'[f]) => flow'[f].profile = "high_assurance"
    BY <1>2, <1>5 DEF HighFlow
  <2>2. ASSUME NEW q \in Procs, D[q] # Idle /\ D[q].op \in FlowOps, D[q].id = f
        PROVE  D[q].copy.profile = "high_assurance"
    BY <1>5, <2>2 DEF InFlow, HighFlow
  <2>3. QED
    BY <2>1, <2>2 DEF HighFlow, Readable, InFlow
<1>6. Grows
  BY <1>2, <1>3, <1>4, <1>5 DEF Grows
<1>7. FlowsGood'
  <2> SUFFICES ASSUME NEW f \in Flows, Readable(flow'[f]) PROVE FlowOK(f, flow[f])'
    BY DEF FlowsGood, Readable
  <2>1. PICK file : file = flow'[f]
    OBVIOUS
  <2>2. FlowOK(f, file)
    BY <1>1, <1>2, <2>1 DEF FlowsGood
  <2>3. FlowOK(f, file)'
    BY <1>3, <2>2, EarnedStays
  <2>4. QED
    BY <2>1, <2>3
<1>8. OrchsGood'
  <2> SUFFICES ASSUME NEW o \in Orchs, Readable(orch[o]) PROVE Founded(o, orch[o])'
    BY DEF OrchsGood, Readable
  <2>1. PICK file : file = orch[o]
    OBVIOUS
  <2>2. Founded(o, file)'
    BY <1>1, <1>6, <2>1, FoundedStays DEF OrchsGood, Grows
  <2>3. QED
    BY <2>1, <2>2
<1>9. /\ orch' \in [Orchs -> OrchRecord \cup {Absent, Torn}]
      /\ required' \subseteq Orchs /\ handoff' \subseteq required'
  BY <1>1 DEF LifeTypeOK
<1>10. QED
  BY <1>2, <1>3, <1>6, <1>7, <1>8, <1>9, LifeMove


\* A step of one call that leaves the queue and the files alone.
LEMMA LifeQuietMove ==
  ASSUME LifeIInv, UNCHANGED <<flow, orch, required, handoff>>, UNCHANGED vars,
         NEW p \in Procs, NEW d, doing' = [doing EXCEPT ![p] = d],
         \A f \in Flows : HighFlow(f) /\ d # Idle /\ d.op \in FlowOps /\ d.id = f
                            => d.copy.profile = "high_assurance",
         CallOK(d)
  PROVE  LifeIInv'
<1>1. /\ GateInv(GatePurposes)' /\ \A a, t : Consumed(a, t)' = Consumed(a, t)
      /\ required \subseteq Orchs /\ handoff \subseteq required
  BY GateStutters DEF LifeIInv, FlowIInv, LifeTypeOK
<1>2. QED
  BY <1>1, LifeCallMove

LEMMA StartWorkflowKeeps ==
  ASSUME LifeIInv, NEW f \in Flows, NEW text \in Texts, NEW risk \in Risks, StartWorkflow(f, text, risk)
  PROVE  LifeIInv'
<1> DEFINE rec == NewFlow(AssessProfile(text, risk))
<1>1. AssessProfile(text, risk) \in DOMAIN PROFILES
  BY DEF AssessProfile, PROFILES
<1>2. rec \in FlowRecord /\ FlowOK(f, rec)
  BY <1>1, NewFlowOK
<1>3. flow[f] = Absent /\ flow' = [flow EXCEPT ![f] = rec]
      /\ UNCHANGED <<orch, required, handoff, doing>> /\ UNCHANGED vars
  BY DEF StartWorkflow
<1> HIDE DEF rec
<1>4. doing = [q \in Procs |-> doing[q]]
  BY DEF LifeIInv, FlowIInv, LifeTypeOK
<1>5. PICK D : D = doing'
  OBVIOUS
<1>6. QED
  BY <1>2, <1>3, <1>4, <1>5, LifeFileMove

LEMMA LoadFlowKeeps ==
  ASSUME LifeIInv, NEW p \in Procs, NEW f \in Flows, NEW op \in FlowOps, LoadFlow(p, f, op)
  PROVE  LifeIInv'
<1> DEFINE d == [op |-> op, id |-> f, copy |-> flow[f], paid |-> FALSE]
<1>1. /\ Readable(flow[f]) /\ Permitted(flow[f], op)
      /\ doing' = [doing EXCEPT ![p] = d]
      /\ UNCHANGED <<flow, orch, required, handoff>> /\ UNCHANGED vars
  BY DEF LoadFlow
<1>2. d.op = op /\ d.id = f /\ d.copy = flow[f] /\ d.paid = FALSE
  OBVIOUS
<1>3. FlowOK(f, flow[f])
  BY <1>1 DEF LifeIInv, FlowIInv
<1>4. d \in FlowCalls
  BY <1>3 DEF FlowOK, FlowCalls
<1> HIDE DEF d
<1>5. FlowCallOK(d)
  BY <1>1, <1>2, <1>3 DEF FlowCallOK, Readable
<1>6. CallOK(d)
  BY <1>2, <1>4, <1>5 DEF CallOK
<1>7. \A g \in Flows : HighFlow(g) /\ d # Idle /\ d.op \in FlowOps /\ d.id = g
                         => d.copy.profile = "high_assurance"
  BY <1>1, <1>2 DEF HighFlow
<1>8. QED
  BY <1>1, <1>6, <1>7, LifeQuietMove

\* The call whose approval is spent stands, from now on, behind its gate.
LEMMA PayGateKeeps ==
  ASSUME LifeIInv, NEW p \in Procs, NEW r \in Requests, PayGate(p, r)
  PROVE  LifeIInv'
<1> DEFINE action == ApprovalAction[Stage(doing[p].copy)]
<1>1. /\ InFlow(p) /\ doing[p].op = "advance"
      /\ Stage(doing[p].copy) \in GateStages
      /\ Spend(p, r, action, doing[p].id)
      /\ doing' = [doing EXCEPT ![p].paid = TRUE]
      /\ UNCHANGED <<flow, orch, required, handoff>>
  BY DEF PayGate
<1>2. /\ GateInv(GatePurposes) /\ LifeTypeOK
      /\ doing[p] \in FlowCalls /\ FlowCallOK(doing[p]) /\ doing[p] # Idle
      /\ handoff \subseteq required /\ required \subseteq Orchs
  BY <1>1, CallsAreOK DEF CallOK, InFlow, LifeIInv, FlowIInv, LifeTypeOK
<1>3. /\ GateInv(GatePurposes)'
      /\ \A a, t : Consumed(a, t) \subseteq Consumed(a, t)'
  BY <1>1, <1>2, SpendKeepsGate
<1>4. PICK d : d = [doing[p] EXCEPT !.paid = TRUE]
  OBVIOUS
<1>5. /\ doing' = [doing EXCEPT ![p] = d]
      /\ d \in FlowCalls /\ d.op = doing[p].op /\ d.id = doing[p].id /\ d.copy = doing[p].copy
  BY <1>1, <1>2, <1>4 DEF FlowCalls, LifeTypeOK
<1>6. Spent(ApprovalAction[Stage(d.copy)], d.id)'
  <2>1. PICK a, t : a = action /\ t = doing[p].id
    OBVIOUS
  <2>2. PlainTargets(Flows) /\ t \in Flows
    BY <1>2, <2>1, LifeAssumption DEF FlowCallOK
  <2>3. <<a, t>> \in GatePurposes /\ \A u : <<a, u>> \in GatePurposes => u \in Flows
    BY <1>1, <2>1, <2>2 DEF GatePurposes
  <2>4. r \in Consumed(a, t)'
    BY <1>1, <1>2, <2>1, <2>2, <2>3, SpendPlain
  <2>5. a = ApprovalAction[Stage(d.copy)] /\ t = d.id
    BY <1>5, <2>1
  <2>6. QED
    BY <2>4, <2>5 DEF Spent, Stage
<1>7. FlowOK(d.id, d.copy)'
  BY <1>2, <1>3, <1>5, EarnedStays DEF FlowCallOK
<1>8. CallOK(d)'
  <2>1. d.id \in Flows /\ flow'[d.id] # Absent /\ Permitted(d.copy, d.op)
        /\ Stage(d.copy) \in GateStages
    BY <1>1, <1>2, <1>5 DEF FlowCallOK
  <2>2. FlowCallOK(d)'
    BY <1>6, <1>7, <2>1 DEF FlowCallOK
  <2>3. d.op \in FlowOps
    BY <1>1, <1>5 DEF FlowOps
  <2>4. QED
    BY <1>5, <2>2, <2>3 DEF CallOK
<1>9. \A f \in Flows : HighFlow(f) /\ d # Idle /\ d.op \in FlowOps /\ d.id = f
                         => d.copy.profile = "high_assurance"
  BY <1>1, <1>5 DEF HighFlow
<1>10. QED
  BY <1>1, <1>2, <1>3, <1>5, <1>8, <1>9, LifeCallMove

\* What is saved was earned, by the copy, by the approval the call has paid,
\* or by its review or command; and it is of the profile of the copy.
LEMMA SaveFlowKeeps ==
  ASSUME LifeIInv, NEW p \in Procs, NEW passed \in BOOLEAN, SaveFlow(p, passed)
  PROVE  LifeIInv'
<1> DEFINE f   == doing[p].id
           rec == Outcome(doing[p].copy, doing[p].op, passed)
<1>1. /\ InFlow(p)
      /\ doing[p].op = "advance" =>
           passed /\ (Stage(doing[p].copy) \in GateStages => doing[p].paid)
      /\ flow' = [flow EXCEPT ![f] = rec]
      /\ doing' = [doing EXCEPT ![p] = Idle]
      /\ UNCHANGED <<orch, required, handoff>> /\ UNCHANGED vars
  BY DEF SaveFlow
<1>2. FlowCallOK(doing[p]) /\ doing[p].op \in FlowOps /\ doing[p] # Idle
  BY <1>1 DEF LifeIInv, FlowIInv, InFlow
<1>3. FlowOK(f, rec) /\ rec.profile = doing[p].copy.profile /\ f \in Flows
  <2>1. /\ FlowOK(f, doing[p].copy) /\ Permitted(doing[p].copy, doing[p].op) /\ f \in Flows
        /\ doing[p].paid => Spent(ApprovalAction[Stage(doing[p].copy)], f)
    BY <1>2 DEF FlowCallOK
  <2>2. QED
    BY <1>1, <1>2, <2>1, OutcomeOK
<1> HIDE DEF f, rec
<1>4. HighFlow(f) => rec.profile = "high_assurance"
  BY <1>1, <1>2, <1>3 DEF HighFlow, f
<1>5. PICK D : D = doing'
  OBVIOUS
<1>6. /\ D = [q \in Procs |-> D[q]]
      /\ \A q \in Procs : D[q] = doing[q] \/ D[q] = Idle
  BY <1>1, <1>5 DEF LifeIInv, FlowIInv, LifeTypeOK
<1>7. CallOK(Idle)'
  BY DEF CallOK
<1>8. \A q \in Procs : \/ D[q] = doing[q]
                       \/ (D[q] # Idle => D[q].op \notin FlowOps) /\ CallOK(D[q])'
  BY <1>6, <1>7
<1>9. rec \in FlowRecord
  BY <1>3 DEF FlowOK
<1>10. QED
  BY <1>1, <1>3, <1>4, <1>5, <1>6, <1>8, <1>9, LifeFileMove



\* A step that writes one orchestration: what it writes is founded.
LEMMA OrchFileMove ==
  ASSUME LifeIInv, UNCHANGED <<flow, required, handoff>>, UNCHANGED vars,
         NEW o \in Orchs, NEW rec \in OrchRecord \cup {Torn}, orch' = [orch EXCEPT ![o] = rec],
         Readable(rec) => Founded(o, rec),
         doing' = [p \in Procs |-> doing'[p]],
         \A p \in Procs : doing'[p] = doing[p] \/ doing'[p] = Idle
  PROVE  LifeIInv'
<1>1. LifeTypeOK /\ FlowsGood /\ OrchsGood /\ GateInv(GatePurposes)
      /\ handoff \subseteq required
  BY DEF LifeIInv, FlowIInv, FlowsGood
<1>2. /\ orch'[o] = rec
      /\ \A q \in Orchs : q # o => orch'[q] = orch[q]
      /\ orch' \in [Orchs -> OrchRecord \cup {Absent, Torn}]
  BY <1>1 DEF LifeTypeOK
<1>3. GateInv(GatePurposes)' /\ \A a, t : Consumed(a, t)' = Consumed(a, t)
  BY <1>1, GateStutters
<1>4. \A q \in Procs : InFlow(q)' => InFlow(q) /\ doing'[q] = doing[q]
  BY DEF InFlow
<1>5. \A f \in Flows : HighFlow(f) => HighFlow(f)'
  BY <1>4 DEF HighFlow, Readable
<1>6. Grows
  BY <1>3, <1>5 DEF Grows
<1>7. FlowsGood'
  <2> SUFFICES ASSUME NEW f \in Flows, Readable(flow[f]) PROVE FlowOK(f, flow[f])'
    BY DEF FlowsGood, Readable
  <2>1. PICK file : file = flow[f]
    OBVIOUS
  <2>2. FlowOK(f, file)'
    BY <1>1, <1>3, <2>1, EarnedStays DEF FlowsGood
  <2>3. QED
    BY <2>1, <2>2
<1>8. OrchsGood'
  <2> SUFFICES ASSUME NEW q \in Orchs, Readable(orch'[q]) PROVE Founded(q, orch[q])'
    BY DEF OrchsGood, Readable
  <2>1. PICK file : file = orch'[q]
    OBVIOUS
  <2>2. Founded(q, file)
    BY <1>1, <1>2, <2>1 DEF OrchsGood
  <2>3. Founded(q, file)'
    BY <1>6, <2>2, FoundedStays DEF Grows
  <2>4. QED
    BY <2>1, <2>3
<1>9. flow' \in [Flows -> FlowRecord \cup {Absent, Torn}]
      /\ required' \subseteq Orchs /\ handoff' \subseteq required'
  BY <1>1 DEF LifeTypeOK
<1>10. PICK D : D = doing'
  OBVIOUS
<1>11. CallOK(Idle)'
  BY DEF CallOK
<1>12. D = [p \in Procs |-> D[p]] /\ \A p \in Procs : D[p] = doing[p] \/ CallOK(D[p])'
  BY <1>10, <1>11
<1>13. QED
  BY <1>2, <1>3, <1>6, <1>7, <1>8, <1>9, <1>10, <1>12, LifeMove

\* A call that ends with its save.
LEMMA OrchIdleMove ==
  ASSUME LifeIInv, UNCHANGED <<flow, required, handoff>>, UNCHANGED vars,
         NEW o \in Orchs, NEW rec \in OrchRecord \cup {Torn}, orch' = [orch EXCEPT ![o] = rec],
         Readable(rec) => Founded(o, rec),
         NEW p \in Procs, doing' = [doing EXCEPT ![p] = Idle]
  PROVE  LifeIInv'
<1>1. /\ doing' = [q \in Procs |-> doing'[q]]
      /\ \A q \in Procs : doing'[q] = doing[q] \/ doing'[q] = Idle
  BY DEF LifeIInv, FlowIInv, LifeTypeOK
<1>2. QED
  BY <1>1, OrchFileMove

\* A new draft is not confirmed, and replaces no record.
LEMMA OrchestrateStartKeeps ==
  ASSUME LifeIInv, NEW o \in Orchs, NEW text \in Texts, NEW write \in BOOLEAN, NEW paths \in BOOLEAN,
         OrchestrateStart(o, text, write, paths)
  PROVE  LifeIInv'
<1> DEFINE rec == [status |-> "draft", text |-> text, write |-> write, paths |-> paths, flow |-> Absent]
<1>1. /\ orch' = [orch EXCEPT ![o] = rec]
      /\ UNCHANGED <<flow, required, handoff, doing>> /\ UNCHANGED vars
  BY DEF OrchestrateStart
<1>2. rec \in OrchRecord /\ rec.status = "draft"
  BY DEF OrchRecord
<1> HIDE DEF rec
<1>3. Founded(o, rec)
  BY <1>2 DEF Founded
<1>4. doing' = [p \in Procs |-> doing'[p]] /\ \A p \in Procs : doing'[p] = doing[p]
  BY <1>1 DEF LifeIInv, FlowIInv, LifeTypeOK
<1>5. QED
  BY <1>1, <1>2, <1>3, <1>4, OrchFileMove

LEMMA LoadConfirmKeeps ==
  ASSUME LifeIInv, NEW p \in Procs, NEW o \in Orchs, LoadConfirm(p, o)
  PROVE  LifeIInv'
<1> DEFINE d == [op |-> "confirm", id |-> o, copy |-> orch[o], at |-> 1, made |-> Absent]
<1>1. /\ Readable(orch[o]) /\ (orch[o].write => orch[o].paths)
      /\ doing' = [doing EXCEPT ![p] = d]
      /\ UNCHANGED <<flow, orch, required, handoff>> /\ UNCHANGED vars
  BY DEF LoadConfirm
<1>2. d.op = "confirm" /\ d.id = o /\ d.copy = orch[o] /\ d.at = 1
  OBVIOUS
<1>3. Founded(o, orch[o]) /\ orch[o] \in OrchRecord
  BY <1>1 DEF LifeIInv, FlowIInv, OrchsGood, LifeTypeOK, Readable
<1>4. d \in OrchCalls
  BY <1>3 DEF OrchCalls
<1> HIDE DEF d
<1>5. OrchCallOK(d)
  BY <1>1, <1>2, <1>3 DEF OrchCallOK
<1>6. d.op \notin FlowOps
  BY <1>2 DEF FlowOps
<1>7. CallOK(d)
  BY <1>4, <1>5, <1>6 DEF CallOK
<1>8. QED
  BY <1>1, <1>6, <1>7, LifeQuietMove

LEMMA LoadDispatchKeeps ==
  ASSUME LifeIInv, NEW p \in Procs, NEW o \in Orchs, LoadDispatch(p, o)
  PROVE  LifeIInv'
<1> DEFINE d == [op |-> "dispatch", id |-> o, copy |-> orch[o], at |-> 1, made |-> Absent]
<1>1. /\ Readable(orch[o]) /\ orch[o].status = "confirmed"
      /\ doing' = [doing EXCEPT ![p] = d]
      /\ UNCHANGED <<flow, orch, required, handoff>> /\ UNCHANGED vars
  BY DEF LoadDispatch
<1>2. d.op = "dispatch" /\ d.id = o /\ d.copy = orch[o] /\ d.at = 1
  OBVIOUS
<1>3. Founded(o, orch[o]) /\ orch[o] \in OrchRecord
  BY <1>1 DEF LifeIInv, FlowIInv, OrchsGood, LifeTypeOK, Readable
<1>4. d \in OrchCalls
  BY <1>3 DEF OrchCalls
<1> HIDE DEF d
<1>5. OrchCallOK(d)
  BY <1>1, <1>2, <1>3 DEF OrchCallOK
<1>6. d.op \notin FlowOps
  BY <1>2 DEF FlowOps
<1>7. CallOK(d)
  BY <1>4, <1>5, <1>6 DEF CallOK
<1>8. QED
  BY <1>1, <1>6, <1>7, LifeQuietMove

LEMMA RecordRequirementKeeps ==
  ASSUME LifeIInv, NEW p \in Procs, RecordRequirement(p)
  PROVE  LifeIInv'
<1>1. /\ doing[p] # Idle /\ doing[p].op = "confirm" /\ doing[p].at = 1
      /\ required' = required \cup {doing[p].id}
      /\ doing' = [doing EXCEPT ![p].at = 2]
      /\ UNCHANGED <<flow, orch, handoff>> /\ UNCHANGED vars
  BY DEF RecordRequirement, InOrch
<1>2. /\ doing[p] \in OrchCalls /\ OrchCallOK(doing[p])
      /\ LifeTypeOK /\ GateInv(GatePurposes) /\ handoff \subseteq required
  BY <1>1, CallsAreOK DEF CallOK, FlowOps, LifeIInv, FlowIInv
<1>3. PICK d : d = [doing[p] EXCEPT !.at = 2]
  OBVIOUS
<1>4. /\ doing' = [doing EXCEPT ![p] = d]
      /\ d \in OrchCalls /\ d.op = "confirm" /\ d.at = 2
      /\ d.id = doing[p].id /\ d.copy = doing[p].copy
  BY <1>1, <1>2, <1>3 DEF OrchCalls, LifeTypeOK
<1>5. d.id \in required' /\ required' \subseteq Orchs /\ required \subseteq required'
  BY <1>1, <1>2, <1>4 DEF LifeTypeOK, OrchCalls
<1>6. /\ Founded(d.id, d.copy)
      /\ d.copy.write => d.copy.paths
  BY <1>1, <1>2, <1>4 DEF OrchCallOK
<1>7. \A f \in Flows : HighFlow(f) => HighFlow(f)'
  <2>1. ASSUME NEW q \in Procs, InFlow(q)' PROVE InFlow(q) /\ doing'[q] = doing[q]
    <3>1. q # p
      BY <1>2, <1>4, <2>1 DEF InFlow, FlowOps, LifeTypeOK
    <3>2. QED
      BY <1>2, <1>4, <2>1, <3>1 DEF InFlow, LifeTypeOK
  <2>2. QED
    BY <1>1, <2>1 DEF HighFlow, Readable
<1>8. Founded(d.id, d.copy)'
  BY <1>1, <1>5, <1>6, <1>7, FoundedStays
<1>9. OrchCallOK(d)'
  BY <1>4, <1>5, <1>6, <1>8 DEF OrchCallOK
<1>10. d.op \notin FlowOps
  BY <1>4 DEF FlowOps
<1>11. CallOK(d)'
  BY <1>4, <1>9, <1>10 DEF CallOK
<1>12. GateInv(GatePurposes)' /\ \A a, t : Consumed(a, t)' = Consumed(a, t)
  BY <1>1, <1>2, GateStutters
<1>13. handoff' \subseteq required'
  BY <1>1, <1>2, <1>5
<1>14. QED
  BY <1>1, <1>4, <1>5, <1>10, <1>11, <1>12, <1>13, LifeCallMove

\* The workflow of a confirmation is of high risk if its request is.
LEMMA ConfirmStartsKeeps ==
  ASSUME LifeIInv, NEW p \in Procs, NEW f \in Flows, ConfirmStartsWorkflow(p, f)
  PROVE  LifeIInv'
<1> DEFINE text    == doing[p].copy.text
           profile == AssessProfile(text, ProfileToRisk(AssessProfile(text, "auto")))
           rec     == NewFlow(profile)
<1>1. /\ doing[p] # Idle /\ doing[p].op = "confirm" /\ doing[p].at = 2
      /\ flow[f] = Absent
      /\ flow' = [flow EXCEPT ![f] = rec]
      /\ doing' = [doing EXCEPT ![p].at = 3, ![p].made = f]
      /\ UNCHANGED <<orch, required, handoff>> /\ UNCHANGED vars
  BY DEF ConfirmStartsWorkflow, InOrch
<1>2. doing[p] \in OrchCalls /\ OrchCallOK(doing[p]) /\ LifeTypeOK
  BY <1>1, CallsAreOK DEF CallOK, FlowOps, LifeIInv, FlowIInv
<1>3. /\ profile \in DOMAIN PROFILES
      /\ text = "high_risk" => profile = "high_assurance"
  BY DEF AssessProfile, PROFILES
<1>4. rec \in FlowRecord /\ FlowOK(f, rec) /\ rec.profile = profile
  BY <1>3, NewFlowOK DEF NewFlow
<1> HIDE DEF rec, profile
<1>5. PICK d : d = [doing[p] EXCEPT !.at = 3, !.made = f]
  OBVIOUS
<1>6. /\ doing' = [doing EXCEPT ![p] = d]
      /\ d \in OrchCalls /\ d.op = "confirm" /\ d.at = 3 /\ d.made = f
      /\ d.id = doing[p].id /\ d.copy = doing[p].copy
  <2>1. doing' = [doing EXCEPT ![p] = d]
    BY <1>1, <1>2, <1>5 DEF LifeTypeOK
  <2>2. PICK c \in OrchCalls : c = doing[p]
    BY <1>2
  <2>3. d = [[c EXCEPT !.at = 3] EXCEPT !.made = f]
    BY <1>5, <2>2
  <2>4. PICK e : e = [c EXCEPT !.at = 3]
    OBVIOUS
  <2>5. e \in OrchCalls /\ e.op = c.op /\ e.id = c.id /\ e.copy = c.copy /\ e.at = 3
    BY <2>2, <2>4 DEF OrchCalls
  <2>6. /\ d \in OrchCalls /\ d.op = e.op /\ d.id = e.id /\ d.copy = e.copy
        /\ d.at = e.at /\ d.made = f
    BY <2>3, <2>4, <2>5 DEF OrchCalls
  <2>7. QED
    BY <1>1, <2>1, <2>2, <2>5, <2>6
<1>7. PICK D : D = doing'
  OBVIOUS
<1>8. /\ D = [q \in Procs |-> D[q]] /\ D[p] = d
      /\ \A q \in Procs : q # p => D[q] = doing[q]
  BY <1>2, <1>6, <1>7 DEF LifeTypeOK
<1>9. d.op \notin FlowOps
  BY <1>6 DEF FlowOps
<1>10. /\ flow'[f] = rec
       /\ \A g \in Flows : g # f => flow'[g] = flow[g]
       /\ rec # Absent
  BY <1>1, <1>2, <1>4, LifeAssumption DEF LifeTypeOK
<1>11. \A g \in Flows : flow[g] # Absent => flow'[g] # Absent
  BY <1>1, <1>10
<1>12. ASSUME NEW q \in Procs, InFlow(q)'
       PROVE  InFlow(q) /\ doing'[q] = doing[q] /\ doing[q].id # f
  <2>1. q # p
    BY <1>7, <1>8, <1>9, <1>12 DEF InFlow
  <2>2. doing'[q] = doing[q] /\ InFlow(q)
    BY <1>7, <1>8, <1>12, <2>1 DEF InFlow
  <2>3. flow[doing[q].id] # Absent
    BY <2>2 DEF LifeIInv, FlowIInv, FlowCallOK
  <2>4. QED
    BY <1>1, <2>2, <2>3
<1>13. \A g \in Flows : flow[g] # Absent /\ HighFlow(g) => HighFlow(g)'
  BY <1>1, <1>10, <1>12 DEF HighFlow, Readable
<1>14. d.copy.text = "high_risk" => HighFlow(f)'
  BY <1>3, <1>4, <1>6, <1>10, <1>12 DEF HighFlow, Readable
<1>15. Founded(d.id, d.copy)'
  <2>1. Founded(d.id, d.copy)
    BY <1>2, <1>6 DEF OrchCallOK
  <2>2. required \subseteq required' /\ handoff \subseteq handoff'
    BY <1>1
  <2>3. QED
    BY <1>11, <1>13, <2>1, <2>2, FoundedStays
<1>16. FlowFor(d.copy.text, d.made)'
  BY <1>6, <1>10, <1>14 DEF FlowFor
<1>17. OrchCallOK(d)'
  <2>1. (d.copy.write => d.copy.paths) /\ d.id \in required'
    BY <1>1, <1>2, <1>6 DEF OrchCallOK
  <2>2. QED
    BY <1>6, <1>15, <1>16, <2>1 DEF OrchCallOK
<1>18. CallOK(d)'
  BY <1>6, <1>9, <1>17 DEF CallOK
<1>19. \A q \in Procs : \/ D[q] = doing[q]
                        \/ (D[q] # Idle => D[q].op \notin FlowOps) /\ CallOK(D[q])'
  BY <1>8, <1>9, <1>18
<1>20. Readable(rec) => FlowOK(f, rec)
  BY <1>4
<1>21. flow' = [flow EXCEPT ![f] = rec] /\ flow[f] = Absent
  BY <1>1
<1>22. UNCHANGED <<orch, required, handoff>> /\ UNCHANGED vars /\ doing' = D
       /\ D = [q \in Procs |-> D[q]] /\ rec \in FlowRecord
  BY <1>1, <1>4, <1>7, <1>8
<1>23. QED
  BY <1>19, <1>20, <1>21, <1>22, LifeFileMove

LEMMA WriteHandoffKeeps ==
  ASSUME LifeIInv, NEW p \in Procs, WriteHandoff(p)
  PROVE  LifeIInv'
<1>1. /\ doing[p] # Idle /\ doing[p].op = "dispatch" /\ doing[p].at = 1
      /\ handoff' = handoff \cup {doing[p].id}
      /\ doing' = [doing EXCEPT ![p].at = 3]
      /\ UNCHANGED <<flow, orch, required>> /\ UNCHANGED vars
  BY DEF WriteHandoff, InOrch
<1>2. /\ doing[p] \in OrchCalls /\ OrchCallOK(doing[p])
      /\ LifeTypeOK /\ GateInv(GatePurposes) /\ handoff \subseteq required
  BY <1>1, CallsAreOK DEF CallOK, FlowOps, LifeIInv, FlowIInv
<1>3. PICK d : d = [doing[p] EXCEPT !.at = 3]
  OBVIOUS
<1>4. /\ doing' = [doing EXCEPT ![p] = d]
      /\ d \in OrchCalls /\ d.op = "dispatch" /\ d.at = 3
      /\ d.id = doing[p].id /\ d.copy = doing[p].copy
  BY <1>1, <1>2, <1>3 DEF OrchCalls, LifeTypeOK
<1>5. /\ Founded(d.id, d.copy) /\ d.copy.status = "confirmed"
      /\ d.id \in required
  BY <1>1, <1>2, <1>4 DEF OrchCallOK, Founded
<1>6. d.id \in handoff' /\ handoff \subseteq handoff' /\ handoff' \subseteq required'
      /\ required' \subseteq Orchs
  BY <1>1, <1>2, <1>4, <1>5 DEF LifeTypeOK
<1>7. \A f \in Flows : HighFlow(f) => HighFlow(f)'
  <2>1. ASSUME NEW q \in Procs, InFlow(q)' PROVE InFlow(q) /\ doing'[q] = doing[q]
    <3>1. q # p
      BY <1>2, <1>4, <2>1 DEF InFlow, FlowOps, LifeTypeOK
    <3>2. QED
      BY <1>2, <1>4, <2>1, <3>1 DEF InFlow, LifeTypeOK
  <2>2. QED
    BY <1>1, <2>1 DEF HighFlow, Readable
<1>8. Founded(d.id, d.copy)'
  BY <1>1, <1>5, <1>6, <1>7, FoundedStays
<1>9. OrchCallOK(d)'
  BY <1>4, <1>5, <1>6, <1>8 DEF OrchCallOK
<1>10. d.op \notin FlowOps
  BY <1>4 DEF FlowOps
<1>11. CallOK(d)'
  BY <1>4, <1>9, <1>10 DEF CallOK
<1>12. GateInv(GatePurposes)' /\ \A a, t : Consumed(a, t)' = Consumed(a, t)
  BY <1>1, <1>2, GateStutters
<1>13. QED
  BY <1>1, <1>4, <1>6, <1>10, <1>11, <1>12, LifeCallMove

\* What a confirmation or a dispatch saves is founded on what it has done.
LEMMA SaveOrchKeeps ==
  ASSUME LifeIInv, NEW p \in Procs, SaveOrch(p)
  PROVE  LifeIInv'
<1> DEFINE o    == doing[p].id
           copy == doing[p].copy
           rec  == IF doing[p].op = "confirm"
                   THEN [copy EXCEPT !.status = "confirmed", !.flow = doing[p].made]
                   ELSE [copy EXCEPT !.status = "dispatched"]
<1>1. /\ doing[p] # Idle /\ ~InFlow(p) /\ doing[p].at = 3
      /\ orch' = [orch EXCEPT ![o] = rec]
      /\ doing' = [doing EXCEPT ![p] = Idle]
      /\ UNCHANGED <<flow, required, handoff>> /\ UNCHANGED vars
  BY DEF SaveOrch
<1>2. doing[p] \in OrchCalls /\ OrchCallOK(doing[p]) /\ LifeTypeOK
  BY <1>1, CallsAreOK DEF CallOK, InFlow, LifeIInv, FlowIInv
<1>3. o \in Orchs /\ copy \in OrchRecord /\ doing[p].op \in {"confirm", "dispatch"}
      /\ doing[p].made \in Flows \cup {Absent}
  BY <1>2 DEF OrchCalls
<1>4. CASE doing[p].op = "confirm"
  <2>1. /\ rec \in OrchRecord /\ rec.status = "confirmed" /\ rec.flow = doing[p].made
        /\ rec.text = copy.text /\ rec.write = copy.write /\ rec.paths = copy.paths
    BY <1>3, <1>4 DEF OrchRecord
  <2>2. /\ o \in required /\ (copy.write => copy.paths)
        /\ FlowFor(copy.text, doing[p].made)
    BY <1>1, <1>2, <1>4 DEF OrchCallOK
  <2> HIDE DEF o, copy, rec
  <2>3. rec \in OrchRecord /\ Founded(o, rec)
    BY <2>1, <2>2 DEF Founded
  <2>4. QED
    BY <1>1, <1>2, <1>3, <2>3, OrchIdleMove DEF o
<1>5. CASE doing[p].op = "dispatch"
  <2>1. /\ rec \in OrchRecord /\ rec.status = "dispatched" /\ rec.flow = copy.flow
        /\ rec.text = copy.text /\ rec.write = copy.write /\ rec.paths = copy.paths
    BY <1>3, <1>5 DEF OrchRecord
  <2>2. /\ o \in required /\ (copy.write => copy.paths)
        /\ FlowFor(copy.text, copy.flow) /\ o \in handoff
    BY <1>1, <1>2, <1>5 DEF OrchCallOK, Founded
  <2> HIDE DEF o, copy, rec
  <2>3. rec \in OrchRecord /\ Founded(o, rec)
    BY <2>1, <2>2 DEF Founded
  <2>4. QED
    BY <1>1, <1>2, <1>3, <2>3, OrchIdleMove DEF o
<1>6. QED
  BY <1>3, <1>4, <1>5

LEMMA AbandonKeeps ==
  ASSUME LifeIInv, NEW p \in Procs, Abandon(p)
  PROVE  LifeIInv'
<1>1. doing' = [doing EXCEPT ![p] = Idle]
      /\ UNCHANGED <<flow, orch, required, handoff>> /\ UNCHANGED vars
  BY DEF Abandon
<1>2. CallOK(Idle)
  BY DEF CallOK
<1>3. PICK d : d = Idle
  OBVIOUS
<1>4. QED
  BY <1>1, <1>2, <1>3, LifeQuietMove

\* A torn file is read by nobody.
LEMMA TearFileKeeps ==
  ASSUME LifeIInv, NEW p \in Procs, TearFile(p)
  PROVE  LifeIInv'
<1>1. ~Readable(Torn)
  BY DEF Readable
<1>2. doing[p] # Idle /\ doing' = [doing EXCEPT ![p] = Idle]
      /\ UNCHANGED <<required, handoff>> /\ UNCHANGED vars
  BY DEF TearFile
<1>3. CASE InFlow(p)
  <2>1. flow' = [flow EXCEPT ![doing[p].id] = Torn] /\ UNCHANGED orch
    BY <1>3 DEF TearFile
  <2>2. doing[p].id \in Flows
    BY <1>3 DEF LifeIInv, FlowIInv, FlowCallOK
  <2>3. PICK D : D = doing'
    OBVIOUS
  <2>4. /\ D = [q \in Procs |-> D[q]]
        /\ \A q \in Procs : D[q] = doing[q] \/ D[q] = Idle
    BY <1>2, <2>3 DEF LifeIInv, FlowIInv, LifeTypeOK
  <2>5. CallOK(Idle)'
    BY DEF CallOK
  <2>6. \A q \in Procs : \/ D[q] = doing[q]
                         \/ (D[q] # Idle => D[q].op \notin FlowOps) /\ CallOK(D[q])'
    BY <2>4, <2>5
  <2>7. QED
    BY <1>1, <1>2, <2>1, <2>2, <2>3, <2>4, <2>6, LifeFileMove
<1>4. CASE ~InFlow(p)
  <2>1. orch' = [orch EXCEPT ![doing[p].id] = Torn] /\ UNCHANGED flow
    BY <1>4 DEF TearFile
  <2>2. doing[p].id \in Orchs
    BY <1>2, <1>4, CallsAreOK DEF CallOK, InFlow, OrchCalls
  <2>3. QED
    BY <1>1, <1>2, <2>1, <2>2, OrchIdleMove
<1>5. QED
  BY <1>3, <1>4

\* Every step of the workflow and of the orchestration.
\* A step between the human, others and the queue.
LEMMA LifeIdleMove ==
  ASSUME LifeIInv, UNCHANGED lifeVars, GateInv(GatePurposes)', Aside(GatePurposes)
  PROVE  LifeIInv'
<1>0. /\ LifeTypeOK /\ GateInv(GatePurposes)
      /\ \A a, t : Consumed(a, t) \subseteq Consumed(a, t)'
  BY DEF LifeIInv, FlowIInv, Aside
<1>1. UNCHANGED <<flow, orch, required, handoff, doing>>
  BY DEF lifeVars
<1>2. LifeTypeOK' /\ handoff' \subseteq required'
  BY <1>0, <1>1 DEF LifeTypeOK, LifeIInv
<1>3. \A q \in Procs : InFlow(q)' = InFlow(q)
  BY <1>1 DEF InFlow
<1>4. \A f \in Flows : HighFlow(f)' = HighFlow(f)
  BY <1>1, <1>3 DEF HighFlow, Readable
<1>5. Grows
  BY <1>0, <1>1, <1>4 DEF Grows
<1>6. PICK D : D = doing'
  OBVIOUS
<1>7. D = [q \in Procs |-> D[q]] /\ \A q \in Procs : D[q] = doing[q]
  BY <1>0, <1>1, <1>6 DEF LifeTypeOK
<1>8. FlowsGood'
  <2> SUFFICES ASSUME NEW f \in Flows, Readable(flow[f]) PROVE FlowOK(f, flow[f])'
    BY <1>1 DEF FlowsGood, Readable
  <2>1. PICK file : file = flow[f]
    OBVIOUS
  <2>2. FlowOK(f, file)'
    BY <1>0, <2>1, EarnedStays DEF LifeIInv, FlowIInv
  <2>3. QED
    BY <1>1, <2>1, <2>2
<1>9. OrchsGood'
  <2> SUFFICES ASSUME NEW o \in Orchs, Readable(orch[o]) PROVE Founded(o, orch[o])'
    BY <1>1 DEF OrchsGood, Readable
  <2>1. PICK file : file = orch[o]
    OBVIOUS
  <2>2. Founded(o, file)'
    BY <1>5, <2>1, FoundedStays DEF LifeIInv, OrchsGood, Grows
  <2>3. QED
    BY <1>1, <2>1, <2>2
<1>10. QED
  BY <1>2, <1>5, <1>6, <1>7, <1>8, <1>9, LifeMove DEF LifeTypeOK

LEMMA LifeStep ==
  LifeIInv /\ [WorkflowNext \/ OrchestrationNext]_<<lifeVars, vars>> => LifeIInv'
<1> SUFFICES ASSUME LifeIInv, [WorkflowNext \/ OrchestrationNext]_<<lifeVars, vars>>
             PROVE  LifeIInv'
  OBVIOUS
<1>0. LifeTypeOK /\ GateInv(GatePurposes)
  BY DEF LifeIInv, FlowIInv
<1>2. ASSUME NEW r \in Requests, NEW f \in Flows, NEW s \in GateStages, AskGate(r, f, s)
      PROVE  LifeIInv'
  <2>1. /\ AskFor(r, ApprovalAction[s], f) /\ UNCHANGED lifeVars
        /\ <<ApprovalAction[s], f>> \in GatePurposes
    BY <1>2 DEF AskGate, GatePurposes
  <2>2. QED
    BY <1>0, <2>1, AskKeepsGate, LifeIdleMove
<1>3. ASSUME NEW r \in Requests, GrantGate(r) PROVE LifeIInv'
  BY <1>0, <1>3, GrantKeepsGate, LifeIdleMove DEF GrantGate
<1>4. ASSUME UNCHANGED <<lifeVars, vars>> PROVE LifeIInv'
  <2>1. UNCHANGED lifeVars /\ UNCHANGED vars
    BY <1>4
  <2>2. QED
    BY <1>0, <2>1, GateStutters, LifeIdleMove
<1>5. ASSUME WorkflowNext PROVE LifeIInv'
  BY <1>2, <1>3, <1>5, StartWorkflowKeeps, LoadFlowKeeps, PayGateKeeps, SaveFlowKeeps,
     AbandonKeeps, TearFileKeeps DEF WorkflowNext
<1>6. ASSUME OrchestrationNext PROVE LifeIInv'
  BY <1>6, OrchestrateStartKeeps, LoadConfirmKeeps, LoadDispatchKeeps, RecordRequirementKeeps,
     WriteHandoffKeeps, SaveOrchKeeps, ConfirmStartsKeeps, AbandonKeeps, TearFileKeeps
     DEF OrchestrationNext
<1>7. QED
  BY <1>4, <1>5, <1>6

\* Workflows, orchestrations and the calls on them keep their types.
THEOREM LifeTypeCorrect == LifeSpec => []LifeTypeOK
  BY LifeInit_IInv, LifeStep, LifeIInvImplies, PTL DEF LifeSpec

\* However calls overlap and crash, no workflow stands behind a gate that was
\* not passed for it: its approvals spent, both reviews passed, a successful
\* verification (advance_workflow, record_workflow_review, verify_workflow).
THEOREM LifeGatesEarned == LifeSpec => []GatesEarned
  BY LifeInit_IInv, LifeStep, LifeIInvImplies, PTL DEF LifeSpec

\* A handoff document exists only for an orchestration that was confirmed,
\* with its requirement recorded and a workflow of its risk
\* (orchestrate_confirm, orchestrate_dispatch).
THEOREM LifeHandoffWasConfirmed == LifeSpec => []HandoffWasConfirmed
  BY LifeInit_IInv, LifeStep, LifeIInvImplies, PTL DEF LifeSpec

-----------------------------------------------------------------------------
(***************************************************************************)
(* The skill library.  What is known of a call is what it found when it    *)
(* loaded or paid, and nothing another call does changes that.  As long as *)
(* no call has acted on another skill than it had loaded, a draft says the *)
(* truth of its own vetting: an external one was accepted, and the verdict *)
(* a draft carries is about its text or about one the user has edited      *)
(* since.                                                                  *)
(***************************************************************************)

AcceptSpent  == Spent("skill_import_accept", SkillName)
PromoteSpent == Spent("skill_generated_promote", SkillName)

DraftOK(s) ==
  /\ s.meta.reviewed => AcceptSpent
  /\ s.meta.ext => AcceptSpent /\ s.meta.hash \notin Critical
  /\ s.meta.semantic = "passed" => s.text = s.meta.judged \/ s.byHand

SkillJobOK(j) ==
  /\ j.op = "accept" => j.text = j.meta.hash /\ j.text \notin Critical
  /\ j.op = "accept" /\ j.at # 1 => AcceptSpent
  /\ j.op = "revise" => j.meta.semantic = "failed" /\ (j.at # 1 => j.meta.version < MaxVersion)
  /\ j.op = "promote" => MayPromote(j) /\ (j.at # 1 /\ j.meta.gen => PromoteSpent)

UnjudgedQuarantine == Present("quarantine") => place["quarantine"].meta.semantic # "passed"

DraftTrue   == mixed \/ (Present("drafts") => DraftOK(Draft))

SkillIInv ==
  /\ GateInv(SkillPurposes)
  /\ SkillTypeOK
  /\ UnjudgedQuarantine /\ DraftTrue /\ TrustedIsVetted
  /\ \A p \in Procs : job[p] # Idle => SkillJobOK(job[p])

LEMMA SkillInit_IInv == Init /\ SkillInit => SkillIInv
<1> SUFFICES ASSUME Init, SkillInit PROVE SkillIInv
  OBVIOUS
<1>1. GateInv(SkillPurposes)
  BY InitGate
<1>2. /\ SkillTypeOK
      /\ \A d \in Places : ~Present(d)
      /\ \A p \in Procs : job[p] = Idle
  BY DEF SkillInit, SkillTypeOK, Present
<1>3. UnjudgedQuarantine /\ DraftTrue /\ TrustedIsVetted
  BY <1>2 DEF UnjudgedQuarantine, DraftTrue, TrustedIsVetted, Places
<1>4. QED
  BY <1>1, <1>2, <1>3 DEF SkillIInv

\* What was spent stays spent.
LEMMA SpentStays ==
  ASSUME \A a, t : Consumed(a, t) \subseteq Consumed(a, t)'
  PROVE  (AcceptSpent => AcceptSpent') /\ (PromoteSpent => PromoteSpent')
  BY DEF AcceptSpent, PromoteSpent, Spent

\* A directory changes.
LEMMA PlaceMoves ==
  ASSUME SkillTypeOK, NEW d \in Places, NEW s \in Skill \cup {Nothing, Broken},
         place' = [place EXCEPT ![d] = s]
  PROVE  /\ place' \in [Places -> Skill \cup {Nothing, Broken}]
         /\ place'[d] = s
         /\ \A e \in Places : e # d => place'[e] = place[e]
  BY DEF SkillTypeOK

\* The metadata of the draft changes.
LEMMA MetaMoves ==
  ASSUME SkillTypeOK, Present("drafts"), NEW m \in Meta,
         place' = [place EXCEPT !["drafts"].meta = m]
  PROVE  /\ place' \in [Places -> Skill \cup {Nothing, Broken}]
         /\ place'["drafts"] \in Skill
         /\ place'["drafts"].meta = m /\ place'["drafts"].text = Draft.text
         /\ place'["drafts"].byHand = Draft.byHand
         /\ place'["quarantine"] = place["quarantine"] /\ place'["trusted"] = place["trusted"]
<1>1. "drafts" \in Places /\ "quarantine" \in Places /\ "trusted" \in Places
  BY DEF Places
<1>2. PICK s \in Skill : s = Draft
  BY <1>1 DEF SkillTypeOK, Present, Draft
<1>3. PICK e : e = [s EXCEPT !.meta = m]
  OBVIOUS
<1>4. e \in Skill /\ e.meta = m /\ e.text = s.text /\ e.byHand = s.byHand
  BY <1>3 DEF Skill
<1>5. place' = [place EXCEPT !["drafts"] = e]
  BY <1>1, <1>2, <1>3 DEF SkillTypeOK, Draft
<1>6. QED
  BY <1>1, <1>2, <1>4, <1>5, PlaceMoves

\* A step of a call, or one that begins: the call is j afterwards.  The
\* others are where they were.
LEMMA SkillMove ==
  ASSUME SkillIInv, GateInv(SkillPurposes)', NEW p \in Procs,
         NEW j \in SkillJobs \cup {Idle}, job' = [job EXCEPT ![p] = j],
         place' \in [Places -> Skill \cup {Nothing, Broken}], mixed' \in BOOLEAN,
         AcceptSpent => AcceptSpent', PromoteSpent => PromoteSpent',
         UnjudgedQuarantine', DraftTrue', TrustedIsVetted',
         j # Idle => SkillJobOK(j)'
  PROVE  SkillIInv'
<1>1. SkillTypeOK
  BY DEF SkillIInv
<1>2. /\ job' \in [Procs -> SkillJobs \cup {Idle}] /\ job'[p] = j
      /\ \A q \in Procs : q # p => job'[q] = job[q]
  BY <1>1 DEF SkillTypeOK
<1>3. SkillTypeOK'
  BY <1>2 DEF SkillTypeOK
<1>4. ASSUME NEW q \in Procs, job'[q] # Idle PROVE SkillJobOK(job[q])'
  <2>1. CASE q = p
    BY <1>2, <1>4, <2>1 DEF SkillJobOK, MayPromote
  <2>2. CASE q # p
    <3>1. job'[q] = job[q] /\ SkillJobOK(job[q])
      BY <1>2, <1>4, <2>2 DEF SkillIInv
    <3>2. QED
      BY <3>1 DEF SkillJobOK, MayPromote
  <2>3. QED
    BY <2>1, <2>2
<1>5. QED
  BY <1>3, <1>4 DEF SkillIInv

\* A step of the queue alone, which spends nothing.
LEMMA SkillIdleMove ==
  ASSUME SkillIInv, GateInv(SkillPurposes)', UNCHANGED skillVars, Aside(SkillPurposes)
  PROVE  SkillIInv'
<1>0. /\ Consumed("skill_import_accept", SkillName)' = Consumed("skill_import_accept", SkillName)
      /\ Consumed("skill_generated_promote", SkillName)'
           = Consumed("skill_generated_promote", SkillName)
  <2>1. /\ <<"skill_import_accept", SkillName>> \in SkillPurposes
        /\ <<"skill_generated_promote", SkillName>> \in SkillPurposes
    BY DEF SkillPurposes, SkillActions
  <2>2. QED
    BY <2>1, AsideKeeps
<1>1. /\ UNCHANGED <<place, job, mixed>>
      /\ AcceptSpent' = AcceptSpent /\ PromoteSpent' = PromoteSpent
  BY <1>0 DEF skillVars, AcceptSpent, PromoteSpent, Spent
<1>2. SkillTypeOK' /\ UnjudgedQuarantine'
  BY <1>1 DEF SkillIInv, SkillTypeOK, UnjudgedQuarantine, Present
<1>3. DraftTrue'
  BY <1>1 DEF SkillIInv, DraftTrue, DraftOK, Present, Draft
<1>4. TrustedIsVetted'
  BY <1>1 DEF SkillIInv, TrustedIsVetted, Vetted, Present, AcceptSpent, PromoteSpent
<1>5. ASSUME NEW q \in Procs, job'[q] # Idle PROVE SkillJobOK(job[q])'
  BY <1>1, <1>5 DEF SkillIInv, SkillJobOK, MayPromote
<1>6. QED
  BY <1>2, <1>3, <1>4, <1>5 DEF SkillIInv

\* A new skill, plain or fetched.
LEMMA NewSkillOK ==
  ASSUME NEW t \in SkillTexts, NEW m \in {PlainMeta, [PlainMeta EXCEPT !.ext = TRUE, !.hash = t]}
  PROVE  /\ NewSkill(t, m) \in Skill /\ NewSkill(t, m).meta = m /\ NewSkill(t, m).text = t
         /\ m \in Meta /\ m.reviewed = FALSE /\ m.semantic = "none"
         /\ m = PlainMeta => m.ext = FALSE
<1>1. /\ PlainMeta \in Meta /\ PlainMeta.ext = FALSE /\ PlainMeta.reviewed = FALSE
      /\ PlainMeta.semantic = "none"
  BY SkillAssumption DEF PlainMeta, Meta, Verdict
<1>2. PICK u : u = [PlainMeta EXCEPT !.ext = TRUE]
  OBVIOUS
<1>3. PICK v : v = [u EXCEPT !.hash = t]
  OBVIOUS
<1>4. u \in Meta /\ u.reviewed = FALSE /\ u.semantic = "none"
  BY <1>1, <1>2 DEF Meta
<1>5. v \in Meta /\ v.reviewed = FALSE /\ v.semantic = "none"
  BY <1>3, <1>4 DEF Meta
<1>6. [PlainMeta EXCEPT !.ext = TRUE, !.hash = t] = v
  BY <1>2, <1>3, Zenon
<1>7. m \in Meta /\ m.reviewed = FALSE /\ m.semantic = "none" /\ (m = PlainMeta => m.ext = FALSE)
  BY <1>1, <1>5, <1>6
<1>8. QED
  BY <1>7 DEF NewSkill, Skill

\* A call begins with what it loaded.
LEMMA BeginsJob ==
  ASSUME SkillTypeOK, NEW p \in Procs, NEW op \in {"generate", "accept", "evaluate", "semantic", "revise", "promote"},
         NEW s \in Skill, Begin(p, op, s)
  PROVE  \E j \in SkillJobs : /\ job' = [job EXCEPT ![p] = j]
                              /\ j.op = op /\ j.at = 1 /\ j.meta = s.meta /\ j.text = s.text
<1>1. PICK j : j = [op |-> op, at |-> 1, meta |-> s.meta, text |-> s.text]
  OBVIOUS
<1>2. j \in SkillJobs /\ j.op = op /\ j.at = 1 /\ j.meta = s.meta /\ j.text = s.text
  BY <1>1 DEF SkillJobs, Skill
<1>3. job' = [job EXCEPT ![p] = j]
  BY <1>1 DEF Begin
<1>4. QED
  BY <1>2, <1>3

\* A call goes on.
LEMMA StepsJob ==
  ASSUME SkillTypeOK, NEW p \in Procs, job[p] # Idle, NEW n \in {2, 3}, job[p].at = n - 1,
         Step(p) \/ (job' = [job EXCEPT ![p].at = n])
  PROVE  \E j \in SkillJobs : /\ job' = [job EXCEPT ![p] = j] /\ j.at = n
                              /\ j.op = job[p].op /\ j.meta = job[p].meta /\ j.text = job[p].text
<1>1. PICK i \in SkillJobs : i = job[p]
  BY DEF SkillTypeOK
<1>2. PICK j : j = [i EXCEPT !.at = n]
  OBVIOUS
<1>3. j \in SkillJobs /\ j.at = n /\ j.op = i.op /\ j.meta = i.meta /\ j.text = i.text
  BY <1>2 DEF SkillJobs
<1>4. job' = [job EXCEPT ![p] = j]
  BY <1>1, <1>2 DEF Step, SkillTypeOK
<1>5. QED
  BY <1>1, <1>3, <1>4

\* Nothing but the call changes.
LEMMA SkillJobMove ==
  ASSUME SkillIInv, NEW p \in Procs,
         NEW j \in SkillJobs \cup {Idle}, job' = [job EXCEPT ![p] = j],
         UNCHANGED <<place, mixed, vars>>, j # Idle => SkillJobOK(j)
  PROVE  SkillIInv'
<1>1. /\ GateInv(SkillPurposes)' /\ place' = place /\ mixed' = mixed
      /\ AcceptSpent' = AcceptSpent /\ PromoteSpent' = PromoteSpent
  BY GateStutters DEF SkillIInv, AcceptSpent, PromoteSpent, Spent
<1>2. /\ place' \in [Places -> Skill \cup {Nothing, Broken}] /\ mixed' \in BOOLEAN
      /\ UnjudgedQuarantine'
  BY <1>1 DEF SkillIInv, SkillTypeOK, UnjudgedQuarantine, Present
<1>3. DraftTrue'
  BY <1>1 DEF SkillIInv, DraftTrue, DraftOK, Present, Draft
<1>4. TrustedIsVetted'
  BY <1>1 DEF SkillIInv, TrustedIsVetted, Vetted, Present, AcceptSpent, PromoteSpent
<1>5. j # Idle => SkillJobOK(j)'
  BY <1>1 DEF SkillJobOK, MayPromote
<1>6. QED
  BY <1>1, <1>2, <1>3, <1>4, <1>5, SkillMove

\* An approval of a skill's is spent, for the skill.
LEMMA SkillSpends ==
  ASSUME SkillIInv, NEW p \in Procs, NEW r \in Requests,
         NEW action \in SkillActions, Spend(p, r, action, SkillName)
  PROVE  Spent(action, SkillName)'
<1>1. /\ <<action, SkillName>> \in SkillPurposes
      /\ \A t : <<action, t>> \in SkillPurposes => t = SkillName
  BY DEF SkillPurposes
<1>2. r \in Consumed(action, SkillName)'
  BY <1>1, SpendCounts DEF SkillIInv
<1>3. QED
  BY <1>2 DEF Spent

\* A step that spends an approval, and moves the call on.
LEMMA SkillPayMove ==
  ASSUME SkillIInv, NEW p \in Procs, NEW r \in Requests,
         NEW action \in SkillActions, Spend(p, r, action, SkillName),
         place' = place, mixed' = mixed,
         NEW j \in SkillJobs, job' = [job EXCEPT ![p] = j], SkillJobOK(j)'
  PROVE  SkillIInv'
<1>1. /\ GateInv(SkillPurposes)'
      /\ \A a, t : Consumed(a, t) \subseteq Consumed(a, t)'
  BY SpendKeepsGate DEF SkillIInv
<1>2. (AcceptSpent => AcceptSpent') /\ (PromoteSpent => PromoteSpent')
  BY <1>1, SpentStays
<1>3. /\ place' \in [Places -> Skill \cup {Nothing, Broken}] /\ mixed' \in BOOLEAN
      /\ UnjudgedQuarantine'
  BY DEF SkillIInv, SkillTypeOK, UnjudgedQuarantine, Present
<1>4. DraftTrue'
  BY <1>2 DEF SkillIInv, DraftTrue, DraftOK, Present, Draft
<1>5. TrustedIsVetted'
  BY <1>2 DEF SkillIInv, TrustedIsVetted, Vetted, Present, AcceptSpent, PromoteSpent
<1>6. QED
  BY <1>1, <1>2, <1>3, <1>4, <1>5, SkillMove

\* A step that leaves the queue and the trusted library alone.
LEMMA SkillDraftMove ==
  ASSUME SkillIInv, NEW p \in Procs,
         NEW j \in SkillJobs \cup {Idle}, job' = [job EXCEPT ![p] = j], UNCHANGED vars,
         place' \in [Places -> Skill \cup {Nothing, Broken}], place'["trusted"] = place["trusted"],
         mixed' \in BOOLEAN, mixed => mixed',
         UnjudgedQuarantine', ~mixed' /\ Present("drafts")' => DraftOK(place'["drafts"]),
         j # Idle => SkillJobOK(j)'
  PROVE  SkillIInv'
<1>1. /\ GateInv(SkillPurposes)'
      /\ AcceptSpent' = AcceptSpent /\ PromoteSpent' = PromoteSpent
  BY GateStutters DEF SkillIInv, AcceptSpent, PromoteSpent, Spent
<1>2. DraftTrue'
  BY <1>1 DEF DraftTrue, DraftOK, Draft
<1>3. TrustedIsVetted'
  BY <1>1 DEF SkillIInv, TrustedIsVetted, Vetted, Present, AcceptSpent, PromoteSpent
<1>4. QED
  BY <1>1, <1>2, <1>3, SkillMove

\* Acting on another skill than the one loaded is remembered.
LEMMA ActsOnMixes ==
  ASSUME SkillTypeOK, NEW p \in Procs, NEW d \in Places, ActsOn(p, d)
  PROVE  /\ mixed' \in BOOLEAN /\ (mixed => mixed')
         /\ ~mixed' => /\ ~mixed
                       /\ place[d].meta = job[p].meta /\ place[d].text = job[p].text
<1>1. CASE place[d].meta # job[p].meta \/ place[d].text # job[p].text
  BY <1>1 DEF ActsOn
<1>2. CASE place[d].meta = job[p].meta /\ place[d].text = job[p].text
  <2>1. mixed' = mixed
    BY <1>2 DEF ActsOn, SkillTypeOK
  <2>2. QED
    BY <1>2, <2>1 DEF SkillTypeOK
<1>3. QED
  BY <1>1, <1>2

\* Steps of a call that change no file: it loads, checks, or is given up.
LEMMA SkillLoads ==
  ASSUME SkillIInv, NEW p \in Procs,
         \/ AcceptCheck(p) \/ EvaluateLoad(p) \/ SemanticLoad(p) \/ ReviseLoad(p)
         \/ PromoteCheck(p) \/ AbandonJob(p)
  PROVE  SkillIInv'
<1>1. SkillTypeOK
  BY DEF SkillIInv
<1>2. CASE AbandonJob(p)
  BY <1>2, SkillJobMove DEF AbandonJob, End
<1>3. ASSUME AcceptCheck(p) PROVE SkillIInv'
  <2>1. PICK s \in Skill : s = place["quarantine"]
    BY <1>1, <1>3 DEF AcceptCheck, SkillTypeOK, Present, Places
  <2>2. PICK j \in SkillJobs : /\ job' = [job EXCEPT ![p] = j] /\ j.op = "accept" /\ j.at = 1
                               /\ j.meta = s.meta /\ j.text = s.text
    BY <1>1, <1>3, <2>1, BeginsJob DEF AcceptCheck
  <2>3. SkillJobOK(j)
    BY <1>3, <2>1, <2>2 DEF AcceptCheck, SkillJobOK
  <2>4. QED
    BY <1>3, <2>2, <2>3, SkillJobMove DEF AcceptCheck
<1>4. ASSUME NEW op \in {"evaluate", "semantic", "revise", "promote"}, Present("drafts"),
             Begin(p, op, Draft), UNCHANGED <<place, mixed, vars>>,
             op = "revise" => Draft.meta.semantic = "failed",
             op = "promote" => MayPromote(Draft)
      PROVE  SkillIInv'
  <2>1. PICK s \in Skill : s = Draft
    BY <1>1, <1>4 DEF SkillTypeOK, Present, Places, Draft
  <2>2. PICK j \in SkillJobs : /\ job' = [job EXCEPT ![p] = j] /\ j.op = op /\ j.at = 1
                               /\ j.meta = s.meta /\ j.text = s.text
    BY <1>1, <1>4, <2>1, BeginsJob
  <2>3. SkillJobOK(j)
    BY <1>4, <2>1, <2>2 DEF SkillJobOK, MayPromote
  <2>4. QED
    BY <1>4, <2>2, <2>3, SkillJobMove
<1>5. QED
  BY <1>2, <1>3, <1>4 DEF EvaluateLoad, SemanticLoad, ReviseLoad, PromoteCheck

\* The approvals.
LEMMA SkillPays ==
  ASSUME SkillIInv, NEW p \in Procs, NEW r \in Requests, AcceptPay(p, r) \/ PromotePay(p, r)
  PROVE  SkillIInv'
<1>1. SkillTypeOK /\ job[p] # Idle /\ job[p].at = 1 /\ SkillJobOK(job[p]) /\ Step(p)
      /\ place' = place /\ mixed' = mixed
  BY DEF SkillIInv, AcceptPay, PromotePay, In
<1>2. PICK n \in {2, 3} : n = 2
  OBVIOUS
<1>3. PICK j \in SkillJobs : /\ job' = [job EXCEPT ![p] = j] /\ j.at = 2
                             /\ j.op = job[p].op /\ j.meta = job[p].meta /\ j.text = job[p].text
  BY <1>1, <1>2, StepsJob
<1>4. CASE AcceptPay(p, r)
  <2>1. job[p].op = "accept" /\ Spend(p, r, "skill_import_accept", SkillName)
    BY <1>4 DEF AcceptPay, In
  <2>2. AcceptSpent'
    BY <2>1, SkillSpends DEF SkillActions, AcceptSpent
  <2>3. SkillJobOK(j)'
    BY <1>1, <1>3, <2>1, <2>2 DEF SkillJobOK
  <2>4. QED
    BY <1>1, <1>3, <2>1, <2>3, SkillPayMove DEF SkillActions
<1>5. CASE PromotePay(p, r)
  <2>1. job[p].op = "promote" /\ Spend(p, r, "skill_generated_promote", SkillName)
    BY <1>5 DEF PromotePay, In
  <2>2. PromoteSpent'
    BY <2>1, SkillSpends DEF SkillActions, PromoteSpent
  <2>3. SkillJobOK(j)'
    BY <1>1, <1>3, <2>1, <2>2 DEF SkillJobOK, MayPromote
  <2>4. QED
    BY <1>1, <1>3, <2>1, <2>3, SkillPayMove DEF SkillActions
<1>6. QED
  BY <1>4, <1>5

\* What a call writes into the metadata of the draft it loaded.
LEMMA SkillMetaSaves ==
  ASSUME SkillIInv, NEW p \in Procs,
         \/ MarkGenerated(p) \/ AcceptMark(p) \/ EvaluateSave(p)
         \/ (\E passed \in BOOLEAN : SemanticSave(p, passed)) \/ ReviseSave(p)
  PROVE  SkillIInv'
<1>1. SkillTypeOK /\ DraftTrue
  BY DEF SkillIInv
<1>2. /\ job[p] # Idle /\ SkillJobOK(job[p]) /\ Present("drafts")
      /\ job' = [job EXCEPT ![p] = Idle] /\ UNCHANGED vars /\ ActsOn(p, "drafts")
  BY DEF SkillIInv, MarkGenerated, AcceptMark, EvaluateSave, SemanticSave, ReviseSave, In, End
<1>3. PICK i \in SkillJobs : i = job[p]
  BY <1>1, <1>2 DEF SkillTypeOK
<1>4. PICK s \in Skill : s = Draft
  BY <1>1, <1>2 DEF SkillTypeOK, Present, Places, Draft
<1>5. /\ mixed' \in BOOLEAN /\ (mixed => mixed')
      /\ ~mixed' => DraftOK(s) /\ s.meta = i.meta /\ s.text = i.text
  BY <1>1, <1>2, <1>3, <1>4, ActsOnMixes DEF DraftTrue, Places, Draft
<1>6. s.meta \in Meta /\ i.meta \in Meta /\ i.text \in SkillTexts
  BY DEF Skill, SkillJobs
<1>7. ASSUME NEW m \in Meta, place' = [place EXCEPT !["drafts"].meta = m],
             ~mixed' => /\ m.reviewed => AcceptSpent
                        /\ m.ext => AcceptSpent /\ m.hash \notin Critical
                        /\ m.semantic = "passed" => s.text = m.judged \/ s.byHand
      PROVE  SkillIInv'
  <2>1. /\ place' \in [Places -> Skill \cup {Nothing, Broken}]
        /\ place'["drafts"].meta = m /\ place'["drafts"].text = Draft.text
        /\ place'["drafts"].byHand = Draft.byHand
        /\ place'["quarantine"] = place["quarantine"] /\ place'["trusted"] = place["trusted"]
    BY <1>1, <1>2, <1>7, MetaMoves
  <2>2. ~mixed' => DraftOK(place'["drafts"])
    BY <1>4, <1>7, <2>1 DEF DraftOK
  <2>3. UnjudgedQuarantine'
    BY <2>1 DEF SkillIInv, UnjudgedQuarantine, Present
  <2>4. QED
    BY <1>2, <1>5, <2>1, <2>2, <2>3, SkillDraftMove
<1>8. CASE MarkGenerated(p)
  <2>1. PICK m : m = [s.meta EXCEPT !.gen = TRUE]
    OBVIOUS
  <2>2. m \in Meta /\ m.reviewed = s.meta.reviewed /\ m.ext = s.meta.ext /\ m.hash = s.meta.hash
        /\ m.semantic = s.meta.semantic /\ m.judged = s.meta.judged
    BY <1>6, <2>1 DEF Meta
  <2>3. place' = [place EXCEPT !["drafts"].meta = m]
    BY <1>1, <1>4, <1>8, <2>1 DEF MarkGenerated, SkillTypeOK, Places, Draft
  <2>4. QED
    BY <1>5, <1>7, <2>2, <2>3 DEF DraftOK
<1>9. CASE AcceptMark(p)
  <2>1. PICK m : m = [s.meta EXCEPT !.reviewed = TRUE]
    OBVIOUS
  <2>2. m \in Meta /\ m.ext = s.meta.ext /\ m.hash = s.meta.hash
        /\ m.semantic = s.meta.semantic /\ m.judged = s.meta.judged
    BY <1>6, <2>1 DEF Meta
  <2>3. place' = [place EXCEPT !["drafts"].meta = m]
    BY <1>1, <1>4, <1>9, <2>1 DEF AcceptMark, SkillTypeOK, Places, Draft
  <2>4. AcceptSpent
    BY <1>2, <1>9 DEF AcceptMark, In, SkillJobOK
  <2>5. QED
    BY <1>5, <1>7, <2>2, <2>3, <2>4 DEF DraftOK
<1>10. CASE EvaluateSave(p)
  <2>1. PICK v \in Verdict : v = (IF i.text \in Critical \cup Warned THEN "failed" ELSE "passed")
    BY DEF Verdict
  <2>2. PICK m : m = [i.meta EXCEPT !.static = v]
    OBVIOUS
  <2>3. m \in Meta /\ m.reviewed = i.meta.reviewed /\ m.ext = i.meta.ext /\ m.hash = i.meta.hash
        /\ m.semantic = i.meta.semantic /\ m.judged = i.meta.judged
    BY <1>6, <2>2 DEF Meta
  <2>4. place' = [place EXCEPT !["drafts"].meta = m]
    BY <1>3, <1>10, <2>1, <2>2 DEF EvaluateSave
  <2>5. QED
    BY <1>5, <1>7, <2>3, <2>4 DEF DraftOK
<1>11. ASSUME NEW passed \in BOOLEAN, SemanticSave(p, passed) PROVE SkillIInv'
  <2>1. PICK v \in Verdict : v = (IF passed THEN "passed" ELSE "failed")
    BY DEF Verdict
  <2>2. PICK m1 : m1 = [i.meta EXCEPT !.semantic = v]
    OBVIOUS
  <2>3. PICK m : m = [m1 EXCEPT !.judged = i.text]
    OBVIOUS
  <2>4. m1 \in Meta /\ m1.reviewed = i.meta.reviewed /\ m1.ext = i.meta.ext /\ m1.hash = i.meta.hash
    BY <1>6, <2>2 DEF Meta
  <2>5. m \in Meta /\ m.reviewed = i.meta.reviewed /\ m.ext = i.meta.ext /\ m.hash = i.meta.hash
        /\ m.judged = i.text
    BY <1>6, <2>3, <2>4 DEF Meta
  <2>6. m = [i.meta EXCEPT !.semantic = IF passed THEN "passed" ELSE "failed", !.judged = i.text]
    BY <2>1, <2>2, <2>3, Zenon
  <2>7. place' = [place EXCEPT !["drafts"].meta = m]
    BY <1>3, <1>11, <2>6, Zenon DEF SemanticSave
  <2>8. QED
    BY <1>5, <1>7, <2>5, <2>7 DEF DraftOK
<1>12. CASE ReviseSave(p)
  <2>1. i.op = "revise" /\ i.at = 2 /\ i.meta.version < MaxVersion
    BY <1>2, <1>3, <1>12 DEF ReviseSave, In, SkillJobOK
  <2>2. PICK n : n = i.meta.version + 1
    OBVIOUS
  <2>3. n \in 0 .. MaxVersion
    BY <1>6, <2>1, <2>2, SkillAssumption DEF Meta
  <2>4. PICK m1 : m1 = [i.meta EXCEPT !.version = n]
    OBVIOUS
  <2>5. PICK m2 : m2 = [m1 EXCEPT !.static = "none"]
    OBVIOUS
  <2>6. PICK m : m = [m2 EXCEPT !.semantic = "none"]
    OBVIOUS
  <2>7. m1 \in Meta /\ m1.reviewed = i.meta.reviewed /\ m1.ext = i.meta.ext /\ m1.hash = i.meta.hash
    BY <1>6, <2>3, <2>4 DEF Meta
  <2>8. m2 \in Meta /\ m2.reviewed = i.meta.reviewed /\ m2.ext = i.meta.ext /\ m2.hash = i.meta.hash
    BY <2>5, <2>7 DEF Meta, Verdict
  <2>9. m \in Meta /\ m.reviewed = i.meta.reviewed /\ m.ext = i.meta.ext /\ m.hash = i.meta.hash
        /\ m.semantic = "none"
    BY <2>6, <2>8 DEF Meta, Verdict
  <2>10. m = [i.meta EXCEPT !.version = @ + 1, !.static = "none", !.semantic = "none"]
    BY <2>2, <2>4, <2>5, <2>6, Zenon
  <2>11. place' = [place EXCEPT !["drafts"].meta = m]
    BY <1>3, <1>12, <2>10, Zenon DEF ReviseSave
  <2>12. QED
    BY <1>5, <1>7, <2>9, <2>11 DEF DraftOK
<1>13. QED
  BY <1>8, <1>9, <1>10, <1>11, <1>12

\* A new skill in the quarantine or among the drafts, or an edit.
LEMMA SkillNewcomer ==
  ASSUME SkillIInv, UNCHANGED <<job, mixed, vars>>, NEW d \in {"quarantine", "drafts"}, NEW s \in Skill,
         place' = [place EXCEPT ![d] = s],
         d = "quarantine" => s.meta.semantic # "passed",
         ~mixed /\ d = "drafts" => DraftOK(s)
  PROVE  SkillIInv'
<1>1. SkillTypeOK /\ d \in Places
  BY DEF SkillIInv, Places
<1>2. /\ place' \in [Places -> Skill \cup {Nothing, Broken}] /\ place'[d] = s
      /\ \A e \in Places : e # d => place'[e] = place[e]
  BY <1>1, PlaceMoves
<1>3. /\ GateInv(SkillPurposes)' /\ mixed' = mixed /\ job' = job
      /\ AcceptSpent' = AcceptSpent /\ PromoteSpent' = PromoteSpent
  BY GateStutters DEF SkillIInv, AcceptSpent, PromoteSpent, Spent
<1>4. SkillTypeOK'
  BY <1>1, <1>2, <1>3 DEF SkillTypeOK
<1>5. UnjudgedQuarantine'
  BY <1>2 DEF SkillIInv, UnjudgedQuarantine, Present, Places
<1>6. DraftTrue'
  BY <1>2, <1>3 DEF SkillIInv, DraftTrue, DraftOK, Present, Draft, Places
<1>7. TrustedIsVetted'
  BY <1>2, <1>3 DEF SkillIInv, TrustedIsVetted, Vetted, Present, Places, AcceptSpent, PromoteSpent
<1>8. ASSUME NEW q \in Procs, job'[q] # Idle PROVE SkillJobOK(job[q])'
  BY <1>3, <1>8 DEF SkillIInv, SkillJobOK, MayPromote
<1>9. QED
  BY <1>3, <1>4, <1>5, <1>6, <1>7, <1>8 DEF SkillIInv

LEMMA SkillNewSteps ==
  ASSUME SkillIInv, NEW t \in SkillTexts,
         CreateDraft(t) \/ Quarantine(t) \/ (\E d \in Places : EditByHand(d, t))
  PROVE  SkillIInv'
<1>1. SkillTypeOK
  BY DEF SkillIInv
<1>2. CASE CreateDraft(t)
  <2>1. PICK s : s = NewSkill(t, PlainMeta)
    OBVIOUS
  <2>2. /\ s \in Skill /\ s.meta.reviewed = FALSE /\ s.meta.ext = FALSE /\ s.meta.semantic = "none"
    BY <2>1, NewSkillOK
  <2>3. PICK d \in {"quarantine", "drafts"} : d = "drafts"
    OBVIOUS
  <2>4. place' = [place EXCEPT ![d] = s] /\ UNCHANGED <<job, mixed, vars>>
    BY <1>2, <2>1, <2>3 DEF CreateDraft
  <2>5. QED
    BY <2>2, <2>3, <2>4, SkillNewcomer DEF DraftOK
<1>3. CASE Quarantine(t)
  <2>1. PICK s : s = NewSkill(t, [PlainMeta EXCEPT !.ext = TRUE, !.hash = t])
    OBVIOUS
  <2>2. s \in Skill /\ s.meta.semantic = "none"
    BY <2>1, NewSkillOK
  <2>3. PICK d \in {"quarantine", "drafts"} : d = "quarantine"
    OBVIOUS
  <2>4. place' = [place EXCEPT ![d] = s] /\ UNCHANGED <<job, mixed, vars>>
    BY <1>3, <2>1, <2>3 DEF Quarantine
  <2>5. QED
    BY <2>2, <2>3, <2>4, SkillNewcomer
<1>4. ASSUME NEW d \in {"quarantine", "drafts"}, EditByHand(d, t) PROVE SkillIInv'
  <2>1. PICK s \in Skill : s = place[d] /\ Present(d)
    BY <1>1, <1>4 DEF EditByHand, SkillTypeOK, Present, Places
  <2>2. PICK u : u = [s EXCEPT !.text = t]
    OBVIOUS
  <2>3. PICK v : v = [u EXCEPT !.byHand = TRUE]
    OBVIOUS
  <2>4. u \in Skill /\ u.meta = s.meta
    BY <2>2 DEF Skill
  <2>5. v \in Skill /\ v.meta = s.meta /\ v.byHand
    BY <2>3, <2>4 DEF Skill
  <2>6. place' = [place EXCEPT ![d] = v]
    <3>1. [place EXCEPT ![d].text = t][d] = u
      BY <1>1, <2>1, <2>2 DEF SkillTypeOK, Places
    <3>2. QED
      BY <1>1, <1>4, <2>3, <3>1 DEF EditByHand, SkillTypeOK, Places
  <2>7. /\ d = "quarantine" => v.meta.semantic # "passed"
        /\ ~mixed /\ d = "drafts" => DraftOK(v)
    BY <2>1, <2>5 DEF SkillIInv, UnjudgedQuarantine, DraftTrue, DraftOK, Draft
  <2>8. UNCHANGED <<job, mixed, vars>>
    BY <1>4 DEF EditByHand
  <2>9. QED
    BY <2>5, <2>6, <2>7, <2>8, SkillNewcomer
<1>5. QED
  BY <1>2, <1>3, <1>4 DEF EditByHand, Places

LEMMA GenerateDraftKeeps ==
  ASSUME SkillIInv, NEW p \in Procs, NEW t \in SkillTexts, GenerateDraft(p, t)
  PROVE  SkillIInv'
<1>1. SkillTypeOK
  BY DEF SkillIInv
<1>2. PICK s : s = NewSkill(t, PlainMeta)
  OBVIOUS
<1>3. /\ s \in Skill /\ s.meta.reviewed = FALSE /\ s.meta.ext = FALSE /\ s.meta.semantic = "none"
  BY <1>2, NewSkillOK
<1>4. PICK d \in Places : d = "drafts"
  BY DEF Places
<1>5. place' = [place EXCEPT ![d] = s] /\ UNCHANGED <<mixed, vars>> /\ Begin(p, "generate", s)
  BY <1>2, <1>4 DEF GenerateDraft
<1>6. PICK j \in SkillJobs : job' = [job EXCEPT ![p] = j] /\ j.op = "generate"
  BY <1>1, <1>3, <1>5, BeginsJob
<1>7. /\ place' \in [Places -> Skill \cup {Nothing, Broken}] /\ place'["drafts"] = s
      /\ place'["quarantine"] = place["quarantine"] /\ place'["trusted"] = place["trusted"]
  BY <1>1, <1>3, <1>4, <1>5, PlaceMoves DEF Places
<1>8. DraftOK(s) /\ SkillJobOK(j)' /\ UnjudgedQuarantine'
  BY <1>3, <1>6, <1>7 DEF DraftOK, SkillJobOK, SkillIInv, UnjudgedQuarantine, Present
<1>9. mixed' \in BOOLEAN /\ (mixed => mixed')
  BY <1>1, <1>5 DEF SkillTypeOK
<1>10. QED
  BY <1>5, <1>6, <1>7, <1>8, <1>9, SkillDraftMove

\* An accepted skill leaves the quarantine as it was checked.
LEMMA AcceptMoveKeeps ==
  ASSUME SkillIInv, NEW p \in Procs, AcceptMove(p)
  PROVE  SkillIInv'
<1>1. SkillTypeOK
  BY DEF SkillIInv
<1>2. /\ job[p] # Idle /\ job[p].op = "accept" /\ job[p].at = 2 /\ SkillJobOK(job[p])
      /\ Present("quarantine") /\ Step(p) /\ UNCHANGED vars /\ ActsOn(p, "quarantine")
      /\ place' = [place EXCEPT !["drafts"] = place["quarantine"], !["quarantine"] = Nothing]
  BY DEF SkillIInv, AcceptMove, In
<1>3. PICK s \in Skill : s = place["quarantine"]
  BY <1>1, <1>2 DEF SkillTypeOK, Present, Places
<1>4. /\ place' \in [Places -> Skill \cup {Nothing, Broken}] /\ place'["drafts"] = s
      /\ place'["quarantine"] = Nothing /\ place'["trusted"] = place["trusted"]
  BY <1>1, <1>2, <1>3 DEF SkillTypeOK, Places
<1>5. /\ mixed' \in BOOLEAN /\ (mixed => mixed')
      /\ AcceptSpent /\ s.meta.semantic # "passed"
      /\ ~mixed' => s.text = s.meta.hash /\ s.text \notin Critical
  BY <1>1, <1>2, <1>3, ActsOnMixes DEF SkillIInv, SkillJobOK, UnjudgedQuarantine, Places
<1>6. (~mixed' => DraftOK(s)) /\ UnjudgedQuarantine'
  BY <1>4, <1>5 DEF DraftOK, UnjudgedQuarantine, Present
<1>7. PICK n \in {2, 3} : n = 3
  OBVIOUS
<1>8. PICK j \in SkillJobs : /\ job' = [job EXCEPT ![p] = j] /\ j.at = 3 /\ j.op = "accept"
                             /\ j.meta = job[p].meta /\ j.text = job[p].text
  BY <1>1, <1>2, <1>7, StepsJob
<1>9. AcceptSpent'
  <2>1. \A a, t : Consumed(a, t)' = Consumed(a, t)
    BY <1>2, GateStutters DEF SkillIInv
  <2>2. QED
    BY <1>5, <2>1 DEF AcceptSpent, Spent
<1>10. SkillJobOK(j)'
  BY <1>2, <1>8, <1>9 DEF SkillJobOK
<1>11. QED
  BY <1>2, <1>4, <1>5, <1>6, <1>8, <1>10, SkillDraftMove

\* A revision replaces the text of a draft whose verdict is "failed".
LEMMA ReviseTextKeeps ==
  ASSUME SkillIInv, NEW p \in Procs, NEW t \in SkillTexts, ReviseText(p, t)
  PROVE  SkillIInv'
<1>1. SkillTypeOK
  BY DEF SkillIInv
<1>2. /\ job[p] # Idle /\ job[p].op = "revise" /\ job[p].at = 1 /\ SkillJobOK(job[p])
      /\ Present("drafts") /\ UNCHANGED vars /\ job[p].meta.version < MaxVersion
      /\ ActsOn(p, "drafts") /\ job' = [job EXCEPT ![p] = [@ EXCEPT !.at = 2, !.text = t]]
      /\ place' = [place EXCEPT !["drafts"].text = t, !["drafts"].byHand = FALSE,
                                !["drafts"].archives = @ \cup {job[p].meta.version}]
  BY DEF SkillIInv, ReviseText, In
<1>3. PICK s \in Skill : s = place["drafts"]
  BY <1>1, <1>2 DEF SkillTypeOK, Present, Places
<1>4. PICK n \in 0 .. MaxVersion : n = job[p].meta.version
  BY <1>1, <1>2 DEF SkillTypeOK, SkillJobs, Meta
<1>5. PICK u : u = [s EXCEPT !.text = t]
  OBVIOUS
<1>6. PICK v : v = [u EXCEPT !.byHand = FALSE]
  OBVIOUS
<1>7. PICK w : w = [v EXCEPT !.archives = @ \cup {n}]
  OBVIOUS
<1>8. w \in Skill /\ w.meta = s.meta
  <2>1. u \in Skill /\ u.meta = s.meta
    BY <1>5 DEF Skill
  <2>2. v \in Skill /\ v.meta = s.meta
    BY <1>6, <2>1 DEF Skill
  <2>3. QED
    BY <1>7, <2>2 DEF Skill
<1>9. place' = [place EXCEPT !["drafts"] = w]
  <2>1. [place EXCEPT !["drafts"].text = t]["drafts"] = u
    BY <1>1, <1>3, <1>5 DEF SkillTypeOK, Places
  <2>2. [place EXCEPT !["drafts"].text = t, !["drafts"].byHand = FALSE]["drafts"] = v
    BY <1>1, <1>6, <2>1 DEF SkillTypeOK, Places
  <2>3. place' = [place EXCEPT !["drafts"].text = t, !["drafts"].byHand = FALSE,
                               !["drafts"].archives = @ \cup {n}]
    BY <1>2, <1>4, Zenon
  <2>4. PICK f : f = [place EXCEPT !["drafts"].text = t, !["drafts"].byHand = FALSE]
    OBVIOUS
  <2>5. place' = [f EXCEPT !["drafts"].archives = @ \cup {n}]
    BY <2>3, <2>4, Zenon
  <2>6. DOMAIN f = Places /\ f["drafts"] = v /\ \A d \in Places : d # "drafts" => f[d] = place[d]
    BY <1>1, <2>2, <2>4 DEF SkillTypeOK
  <2>7. place' = [f EXCEPT !["drafts"] = w]
    BY <1>7, <2>5, <2>6, Zenon
  <2>8. QED
    BY <1>1, <2>4, <2>6, <2>7 DEF SkillTypeOK
<1>10. /\ place' \in [Places -> Skill \cup {Nothing, Broken}] /\ place'["drafts"] = w
       /\ place'["quarantine"] = place["quarantine"] /\ place'["trusted"] = place["trusted"]
  BY <1>1, <1>8, <1>9, PlaceMoves DEF Places
<1>11. /\ mixed' \in BOOLEAN /\ (mixed => mixed')
       /\ ~mixed' => s.meta.semantic = "failed" /\ DraftOK(s)
  BY <1>1, <1>2, <1>3, ActsOnMixes DEF SkillIInv, SkillJobOK, DraftTrue, Draft, Places
<1>12. (~mixed' => DraftOK(w)) /\ UnjudgedQuarantine'
  BY <1>8, <1>10, <1>11 DEF DraftOK, SkillIInv, UnjudgedQuarantine, Present
<1>13. PICK i \in SkillJobs : i = job[p]
  BY <1>1, <1>2 DEF SkillTypeOK
<1>14. PICK k : k = [i EXCEPT !.at = 2]
  OBVIOUS
<1>15. PICK j : j = [k EXCEPT !.text = t]
  OBVIOUS
<1>16. k \in SkillJobs /\ k.at = 2 /\ k.op = i.op /\ k.meta = i.meta
  BY <1>14 DEF SkillJobs
<1>17. j \in SkillJobs /\ j.at = 2 /\ j.op = i.op /\ j.meta = i.meta
  BY <1>15, <1>16 DEF SkillJobs
<1>18. job' = [job EXCEPT ![p] = j]
  <2>1. j = [i EXCEPT !.at = 2, !.text = t]
    BY <1>14, <1>15, Zenon
  <2>2. QED
    BY <1>1, <1>2, <1>13, <2>1, Zenon DEF SkillTypeOK
<1>19. SkillJobOK(j)'
  BY <1>2, <1>13, <1>17 DEF SkillJobOK
<1>20. QED
  BY <1>2, <1>10, <1>11, <1>12, <1>17, <1>18, <1>19, SkillDraftMove

\* The old trusted skill is removed, or the promotion ends there.
LEMMA ClearTrustedKeeps ==
  ASSUME SkillIInv, NEW p \in Procs, ClearTrusted(p)
  PROVE  SkillIInv'
<1>1. SkillTypeOK /\ TrustedIsVetted
  BY DEF SkillIInv
<1>2. /\ job[p] # Idle /\ job[p].op = "promote" /\ SkillJobOK(job[p]) /\ UNCHANGED <<mixed, vars>>
      /\ job[p].meta.gen => job[p].at = 2
      /\ ~job[p].meta.gen => job[p].at = 1
  BY DEF SkillIInv, ClearTrusted, In
<1>3. /\ GateInv(SkillPurposes)'
      /\ AcceptSpent' = AcceptSpent /\ PromoteSpent' = PromoteSpent
  BY <1>2, GateStutters DEF SkillIInv, AcceptSpent, PromoteSpent, Spent
<1>4. /\ place' \in [Places -> Skill \cup {Nothing, Broken}]
      /\ place'["trusted"] \in {place["trusted"], Nothing, Broken}
      /\ place'["drafts"] = place["drafts"] /\ place'["quarantine"] = place["quarantine"]
  BY <1>1 DEF ClearTrusted, SkillTypeOK, Places
<1>5. UnjudgedQuarantine' /\ DraftTrue'
  BY <1>2, <1>3, <1>4 DEF SkillIInv, UnjudgedQuarantine, DraftTrue, DraftOK, Present, Draft
<1>6. TrustedIsVetted' /\ mixed' \in BOOLEAN
  BY <1>1, <1>2, <1>3, <1>4 DEF TrustedIsVetted, Vetted, Present, AcceptSpent, PromoteSpent, SkillTypeOK
<1>7. CASE job' = [job EXCEPT ![p] = Idle]
  BY <1>2, <1>3, <1>4, <1>5, <1>6, <1>7, SkillMove
<1>8. CASE job' = [job EXCEPT ![p].at = 3]
  <2>1. PICK i \in SkillJobs : i = job[p]
    BY <1>1, <1>2 DEF SkillTypeOK
  <2>2. PICK j : j = [i EXCEPT !.at = 3]
    OBVIOUS
  <2>3. j \in SkillJobs /\ j.at = 3 /\ j.op = "promote" /\ j.meta = i.meta /\ j.text = i.text
    BY <1>2, <2>1, <2>2 DEF SkillJobs
  <2>4. job' = [job EXCEPT ![p] = j]
    BY <1>1, <1>8, <2>1, <2>2 DEF SkillTypeOK
  <2>5. SkillJobOK(j)'
    BY <1>2, <1>3, <2>1, <2>3 DEF SkillJobOK, MayPromote
  <2>6. QED
    BY <1>2, <1>3, <1>4, <1>5, <1>6, <2>3, <2>4, <2>5, SkillMove
<1>9. QED
  BY <1>7, <1>8 DEF ClearTrusted, End

\* What becomes trusted is the draft that was checked.
LEMMA MoveToTrustedKeeps ==
  ASSUME SkillIInv, NEW p \in Procs, MoveToTrusted(p)
  PROVE  SkillIInv'
<1>1. SkillTypeOK /\ DraftTrue
  BY DEF SkillIInv
<1>2. /\ job[p] # Idle /\ job[p].op = "promote" /\ job[p].at = 3 /\ SkillJobOK(job[p]) /\ UNCHANGED vars
      /\ Present("drafts") /\ ActsOn(p, "drafts") /\ job' = [job EXCEPT ![p] = Idle]
      /\ place' = [place EXCEPT !["trusted"] = place["drafts"], !["drafts"] = Nothing]
  BY DEF SkillIInv, MoveToTrusted, In, End
<1>3. /\ GateInv(SkillPurposes)'
      /\ AcceptSpent' = AcceptSpent /\ PromoteSpent' = PromoteSpent
  BY <1>2, GateStutters DEF SkillIInv, AcceptSpent, PromoteSpent, Spent
<1>4. PICK s \in Skill : s = place["drafts"]
  BY <1>1, <1>2 DEF SkillTypeOK, Present, Places
<1>5. /\ place' \in [Places -> Skill \cup {Nothing, Broken}] /\ place'["trusted"] = s
      /\ place'["drafts"] = Nothing /\ place'["quarantine"] = place["quarantine"]
  BY <1>1, <1>2, <1>4 DEF SkillTypeOK, Places
<1>6. UnjudgedQuarantine' /\ DraftTrue'
  BY <1>5 DEF SkillIInv, UnjudgedQuarantine, DraftTrue, Present
<1>7. /\ mixed' \in BOOLEAN
      /\ ~mixed' => DraftOK(s) /\ MayPromote(s) /\ (s.meta.gen => PromoteSpent)
  BY <1>1, <1>2, <1>4, ActsOnMixes DEF DraftTrue, SkillJobOK, MayPromote, Draft, Places
<1>8. TrustedIsVetted'
  BY <1>3, <1>5, <1>7 DEF TrustedIsVetted, Vetted, DraftOK, MayPromote, AcceptSpent, PromoteSpent
<1>9. QED
  BY <1>2, <1>3, <1>5, <1>6, <1>7, <1>8, SkillMove

LEMMA SkillStep ==
  ASSUME SkillIInv, [SkillNext]_<<skillVars, vars>> PROVE SkillIInv'
<1>1. CASE UNCHANGED <<skillVars, vars>>
  BY <1>1, SkillIdleMove, GateStutters DEF SkillIInv
<1>2. ASSUME NEW r \in Requests, NEW a \in SkillActions, AskFor(r, a, SkillName), UNCHANGED skillVars
      PROVE  SkillIInv'
  <2>1. <<a, SkillName>> \in SkillPurposes
    BY DEF SkillPurposes
  <2>2. GateInv(SkillPurposes)' /\ Aside(SkillPurposes)
    BY <1>2, <2>1, AskKeepsGate DEF SkillIInv
  <2>3. QED
    BY <1>2, <2>2, SkillIdleMove
<1>3. ASSUME NEW r \in Requests, Approve(r), UNCHANGED skillVars PROVE SkillIInv'
  <2>1. GateInv(SkillPurposes)' /\ Aside(SkillPurposes)
    BY <1>3, GrantKeepsGate DEF SkillIInv
  <2>2. QED
    BY <1>3, <2>1, SkillIdleMove
<1>4. QED
  BY <1>1, <1>2, <1>3, SkillLoads, SkillPays, SkillMetaSaves, SkillNewSteps, GenerateDraftKeeps,
     AcceptMoveKeeps, ReviseTextKeeps, ClearTrustedKeeps, MoveToTrustedKeeps DEF SkillNext

LEMMA SkillInvariant == SkillSpec => []SkillIInv
<1>1. SkillIInv /\ [SkillNext]_<<skillVars, vars>> => SkillIInv'
  BY SkillStep
<1>2. QED
  BY <1>1, SkillInit_IInv, PTL DEF SkillSpec

\* The skill library keeps its types, however its calls overlap
\* (skills.py, external_skills.py).
THEOREM SkillTypeCorrect == SkillSpec => []SkillTypeOK
<1>1. SkillIInv => SkillTypeOK
  BY DEF SkillIInv
<1>2. QED
  BY <1>1, SkillInvariant, PTL

\* Through crashes, edits by hand and calls that overlap, the trusted
\* library holds nothing that was not vetted as its metadata says, until a
\* call acts on another skill than the one it had loaded (promote_skill,
\* accept_quarantined_skill).
THEOREM SkillTrustedIsVetted == SkillSpec => []TrustedIsVetted
<1>1. SkillIInv => TrustedIsVetted
  BY DEF SkillIInv
<1>2. QED
  BY <1>1, SkillInvariant, PTL

-----------------------------------------------------------------------------
(***************************************************************************)
(* All the clients at once.  Each uses the queue for actions of its own,   *)
(* so to each of them the others are users who leave its approvals aside,  *)
(* and the invariant of each is kept by the steps of all.                  *)
(***************************************************************************)

\* A step that uses the queue, if at all, for the actions of these purposes.
OwnCalls(purposes) ==
  QueueCalls({c \in Scopes : c.action \in ActionsOf(purposes)}) \/ UNCHANGED vars

\* A step that uses the queue, if at all, for other actions than these.
OthersCalls(purposes) ==
  \/ \E scopes \in SUBSET Scopes :
       (\A c \in scopes : c.action \notin ActionsOf(purposes)) /\ QueueCalls(scopes)
  \/ UNCHANGED vars

LEMMA OthersStandAside ==
  ASSUME NEW purposes, GateInv(purposes), OthersCalls(purposes)
  PROVE  GateInv(purposes)' /\ Aside(purposes)
<1>1. CASE UNCHANGED vars
  BY <1>1, GateStutters
<1>2. ASSUME NEW scopes \in SUBSET Scopes, \A c \in scopes : c.action \notin ActionsOf(purposes),
             QueueCalls(scopes)
      PROVE  GateInv(purposes)' /\ Aside(purposes)
  BY <1>2, OthersKeepGate
<1>3. QED
  BY <1>1, <1>2 DEF OthersCalls

\* No two clients share an action.
LEMMA ActionsDiffer ==
  /\ ActionsOf(GatePurposes) \subseteq {"workflow_design_approval", "workflow_final_approval"}
  /\ ActionsOf(SkillPurposes) \subseteq {"skill_import_accept", "skill_generated_promote"}
  /\ ActionsOf(McpPurposes) \subseteq {"mcp_trust_server", "mcp_write_tool"}
  /\ ActionsOf(ResumePurpose) \subseteq {"runtime_resume"}
  /\ ActionsOf(RecordPurposes) \subseteq {"hermes_schedule", "learning_export", "learning_delete"}
<1>1. ASSUME NEW x \in GatePurposes
      PROVE  x[1] \in {"workflow_design_approval", "workflow_final_approval"}
  BY DEF GatePurposes, GateStages, ApprovalAction
<1>2. ASSUME NEW x \in SkillPurposes
      PROVE  x[1] \in {"skill_import_accept", "skill_generated_promote"}
  BY DEF SkillPurposes, SkillActions
<1>3. ASSUME NEW x \in McpPurposes PROVE x[1] \in {"mcp_trust_server", "mcp_write_tool"}
  BY DEF McpPurposes
<1>4. ASSUME NEW x \in ResumePurpose PROVE x[1] \in {"runtime_resume"}
  BY DEF ResumePurpose
<1>5. ASSUME NEW x \in RecordPurposes
      PROVE  x[1] \in {"hermes_schedule", "learning_export", "learning_delete"}
  BY DEF RecordPurposes
<1>6. QED
  BY <1>1, <1>2, <1>3, <1>4, <1>5 DEF ActionsOf

\* Who uses the queue for his own actions is aside of whoever has others.
LEMMA OwnIsOther ==
  ASSUME NEW mine, NEW yours, ActionsOf(mine) \cap ActionsOf(yours) = {}, OwnCalls(mine)
  PROVE  OthersCalls(yours)
<1>1. PICK scopes \in SUBSET Scopes : scopes = {c \in Scopes : c.action \in ActionsOf(mine)}
  OBVIOUS
<1>2. \A c \in scopes : c.action \notin ActionsOf(yours)
  BY <1>1
<1>3. QED
  BY <1>1, <1>2 DEF OwnCalls, OthersCalls

LEMMA OwnIsStep == ASSUME NEW purposes, OwnCalls(purposes) PROVE [Next]_vars
  BY DEF OwnCalls, QueueCalls, Next

LEMMA OtherIsStep == ASSUME NEW purposes, OthersCalls(purposes) PROVE [Next]_vars
  BY DEF OthersCalls, QueueCalls, Next

\* A client's three ways to use the queue.
LEMMA AskIsOwn ==
  ASSUME NEW purposes, purposes \subseteq ClientPurposes, NEW r \in Requests,
         NEW action, NEW target, <<action, target>> \in purposes, AskFor(r, action, target)
  PROVE  OwnCalls(purposes)
<1>1. PICK q : q = [ClientScope(action, target) EXCEPT !.user = DefaultUser]
  OBVIOUS
<1>2. q \in Scopes
  <2>1. PICK x \in ClientPurposes : x = <<action, target>>
    OBVIOUS
  <2>2. [ClientScope(x[1], x[2]) EXCEPT !.user = DefaultUser] \in Scopes
    BY ClientAssumption
  <2>3. x[1] = action /\ x[2] = target
    BY <2>1
  <2>4. QED
    BY <1>1, <2>2, <2>3
<1>3. q.action = action
  BY <1>1 DEF ClientScope
<1>4. RequestApproval(r, q, NoExpiry)
  BY <1>1 DEF AskFor
<1>5. NoExpiry \in Expiries
  BY TimeAssumption DEF Expiries, NoExpiry
<1>6. action \in ActionsOf(purposes)
  BY OwnAction
<1>7. q \in {c \in Scopes : c.action \in ActionsOf(purposes)}
  BY <1>2, <1>3, <1>6
<1>8. QED
  BY <1>4, <1>5, <1>7 DEF OwnCalls, QueueCalls

LEMMA GrantIsOwn == ASSUME NEW purposes, NEW r \in Requests, Approve(r) PROVE OwnCalls(purposes)
  BY DEF OwnCalls, QueueCalls

LEMMA SpendIsOwn ==
  ASSUME NEW purposes, purposes \subseteq ClientPurposes, NEW p \in Procs, NEW r \in Requests,
         NEW action, NEW target, <<action, target>> \in purposes, Spend(p, r, action, target)
  PROVE  OwnCalls(purposes)
<1>1. PICK q : q = ClientScope(action, target)
  OBVIOUS
<1>2. q = [ClientScope(action, target) EXCEPT !.user = None]
  BY <1>1 DEF ClientScope
<1>3. q \in Scopes
  <2>1. PICK x \in ClientPurposes : x = <<action, target>>
    OBVIOUS
  <2>2. [ClientScope(x[1], x[2]) EXCEPT !.user = None] \in Scopes
    BY ClientAssumption
  <2>3. x[1] = action /\ x[2] = target
    BY <2>1
  <2>4. QED
    BY <1>2, <2>2, <2>3
<1>4. q.action = action
  BY <1>1 DEF ClientScope
<1>5. Consume(p, r, q)
  BY <1>1 DEF Spend
<1>6. action \in ActionsOf(purposes)
  BY OwnAction
<1>7. q \in {c \in Scopes : c.action \in ActionsOf(purposes)}
  BY <1>3, <1>4, <1>6
<1>8. QED
  BY <1>5, <1>7 DEF OwnCalls, QueueCalls

\* What each client does with the queue.
LEMMA McpOwn == ASSUME McpNext PROVE OwnCalls(McpPurposes)
<1>0. McpPurposes \subseteq ClientPurposes
  BY DEF ClientPurposes
<1>1. ASSUME NEW p \in Procs, NEW r \in Requests, PayTrust(p, r) \/ PayCall(p, r)
      PROVE  OwnCalls(McpPurposes)
  <2>1. \/ Spend(p, r, "mcp_trust_server", Server)
        \/ Spend(p, r, "mcp_write_tool", Tool)
    BY <1>1 DEF PayTrust, PayCall
  <2>2. /\ <<"mcp_trust_server", Server>> \in McpPurposes
        /\ <<"mcp_write_tool", Tool>> \in McpPurposes
    BY DEF McpPurposes
  <2>3. QED
    BY <1>0, <2>1, <2>2, SpendIsOwn
<1>2. ASSUME NEW r \in Requests, NEW x \in McpPurposes, AskFor(r, x[1], x[2])
      PROVE  OwnCalls(McpPurposes)
  <2>1. <<x[1], x[2]>> \in McpPurposes
    BY DEF McpPurposes
  <2>2. QED
    BY <1>0, <1>2, <2>1, AskIsOwn
<1>3. ASSUME NEW p \in Procs,
             \/ SaveRegistry(p) \/ Register(p) \/ LoadTrust(p) \/ LoadDiscover(p)
             \/ StoreTools(p) \/ LoadCall(p) \/ RunTool(p) \/ LeaveSession(p)
      PROVE  UNCHANGED vars
  BY <1>3 DEF SaveRegistry, Register, LoadTrust, LoadDiscover, StoreTools, LoadCall, RunTool,
              LeaveSession
<1>4. ASSUME NEW p \in Procs, NEW yes \in BOOLEAN, ListTools(p, yes) \/ CheckTool(p, yes)
      PROVE  UNCHANGED vars
  BY <1>4 DEF ListTools, CheckTool
<1>5. ASSUME NEW p \in Procs, NEW mode \in Modes, Allow(p, mode) PROVE UNCHANGED vars
  BY <1>5 DEF Allow
<1>6. QED
  BY <1>1, <1>2, <1>3, <1>4, <1>5, GrantIsOwn DEF McpNext, OwnCalls

LEMMA RuntimeOwn == ASSUME RuntimeNext PROVE OwnCalls(ResumePurpose)
<1>0. /\ ResumePurpose \subseteq ClientPurposes
      /\ <<"runtime_resume", "guardian-runtime">> \in ResumePurpose
  BY DEF ClientPurposes, ResumePurpose
<1>1. ASSUME NEW p \in Procs, NEW r \in Requests, PayResume(p, r) PROVE OwnCalls(ResumePurpose)
  <2>1. Spend(p, r, "runtime_resume", "guardian-runtime")
    BY <1>1 DEF PayResume
  <2>2. QED
    BY <1>0, <2>1, SpendIsOwn
<1>2. ASSUME NEW r \in Requests, AskFor(r, "runtime_resume", "guardian-runtime")
      PROVE  OwnCalls(ResumePurpose)
  BY <1>0, <1>2, AskIsOwn
<1>3. ASSUME NEW p \in Procs, SetStop(p) \/ CancelAll(p) \/ LiftStop(p) \/ CrashHalting(p)
      PROVE  UNCHANGED vars
  BY <1>3 DEF SetStop, CancelAll, LiftStop, CrashHalting
<1>4. ASSUME NEW t \in Tasks, NEW k \in TaskKeys, EnqueueTask(t, k) PROVE UNCHANGED vars
  BY <1>4 DEF EnqueueTask
<1>5. ASSUME NEW t \in Tasks, NEW state \in DOMAIN Transitions, UpdateTaskState(t, state)
      PROVE  UNCHANGED vars
  BY <1>5 DEF UpdateTaskState
<1>6. ASSUME NEW n \in Resources, AcquireLock(n) \/ ReleaseLock(n) PROVE UNCHANGED vars
  BY <1>6 DEF AcquireLock, ReleaseLock
<1>7. RecoverTasks => UNCHANGED vars
  BY DEF RecoverTasks
<1>8. QED
  BY <1>1, <1>2, <1>3, <1>4, <1>5, <1>6, <1>7, GrantIsOwn DEF RuntimeNext, OwnCalls

LEMMA RecordOwn == ASSUME RecordNext PROVE OwnCalls(RecordPurposes)
<1>0. RecordPurposes \subseteq ClientPurposes
  BY DEF ClientPurposes
<1>1. ASSUME NEW p \in Procs, NEW r \in Requests, NEW j \in Jobs, PaySchedule(p, r, j)
      PROVE  OwnCalls(RecordPurposes)
  <2>1. Spend(p, r, "hermes_schedule", ScheduleTarget)
    BY <1>1 DEF PaySchedule
  <2>2. <<"hermes_schedule", ScheduleTarget>> \in RecordPurposes
    BY DEF RecordPurposes
  <2>3. QED
    BY <1>0, <2>1, <2>2, SpendIsOwn
<1>2. ASSUME NEW p \in Procs, NEW r \in Requests, NEW l \in Lessons, PayExport(p, r, l)
      PROVE  OwnCalls(RecordPurposes)
  <2>1. Spend(p, r, "learning_export", l)
    BY <1>2 DEF PayExport
  <2>2. <<"learning_export", l>> \in RecordPurposes
    BY DEF RecordPurposes
  <2>3. QED
    BY <1>0, <2>1, <2>2, SpendIsOwn
<1>3. ASSUME NEW p \in Procs, NEW r \in Requests, NEW x \in Shared, PayDelete(p, r, x)
      PROVE  OwnCalls(RecordPurposes)
  <2>1. Spend(p, r, "learning_delete", x)
    BY <1>3 DEF PayDelete
  <2>2. <<"learning_delete", x>> \in RecordPurposes
    BY DEF RecordPurposes
  <2>3. QED
    BY <1>0, <2>1, <2>2, SpendIsOwn
<1>4. ASSUME NEW r \in Requests, NEW x \in RecordPurposes, AskFor(r, x[1], x[2])
      PROVE  OwnCalls(RecordPurposes)
  <2>1. <<x[1], x[2]>> \in RecordPurposes
    BY DEF RecordPurposes
  <2>2. QED
    BY <1>0, <1>4, <2>1, AskIsOwn
<1>5. ASSUME NEW p \in Procs, LoadAdd(p) \/ SaveSchedule(p) \/ DeleteLesson(p) \/ QuitErrand(p)
      PROVE  UNCHANGED vars
  BY <1>5 DEF LoadAdd, SaveSchedule, DeleteLesson, QuitErrand
<1>6. ASSUME NEW p \in Procs, NEW j \in Jobs, LoadUnschedule(p, j) PROVE UNCHANGED vars
  BY <1>6 DEF LoadUnschedule
<1>7. ASSUME NEW p \in Procs, NEW due \in SUBSET Jobs, LoadDue(p, due) PROVE UNCHANGED vars
  BY <1>7 DEF LoadDue
<1>8. ASSUME NEW p \in Procs, NEW x \in Shared, ExportLesson(p, x) PROVE UNCHANGED vars
  BY <1>8 DEF ExportLesson
<1>9. ASSUME NEW x \in Shared, ImportLesson(x) PROVE UNCHANGED vars
  BY <1>9 DEF ImportLesson
<1>10. QED
  BY <1>1, <1>2, <1>3, <1>4, <1>5, <1>6, <1>7, <1>8, <1>9, GrantIsOwn DEF RecordNext, OwnCalls

LEMMA SkillOwn == ASSUME SkillNext PROVE OwnCalls(SkillPurposes)
<1>0. SkillPurposes \subseteq ClientPurposes /\ \A a \in SkillActions : <<a, SkillName>> \in SkillPurposes
  BY DEF ClientPurposes, SkillPurposes
<1>1. ASSUME NEW p \in Procs, NEW r \in Requests, AcceptPay(p, r) \/ PromotePay(p, r)
      PROVE  OwnCalls(SkillPurposes)
  <2>1. \E a \in SkillActions : Spend(p, r, a, SkillName)
    BY <1>1 DEF AcceptPay, PromotePay, SkillActions
  <2>2. QED
    BY <1>0, <2>1, SpendIsOwn
<1>2. ASSUME NEW r \in Requests, NEW a \in SkillActions, AskFor(r, a, SkillName)
      PROVE  OwnCalls(SkillPurposes)
  BY <1>0, <1>2, AskIsOwn
<1>3. ASSUME NEW p \in Procs,
             \/ MarkGenerated(p) \/ AcceptCheck(p) \/ AcceptMove(p) \/ AcceptMark(p)
             \/ EvaluateLoad(p) \/ EvaluateSave(p) \/ SemanticLoad(p)
      PROVE  UNCHANGED vars
  BY <1>3 DEF MarkGenerated, AcceptCheck, AcceptMove, AcceptMark, EvaluateLoad, EvaluateSave,
              SemanticLoad
<1>4. ASSUME NEW p \in Procs,
             \/ ReviseLoad(p) \/ ReviseSave(p)
             \/ PromoteCheck(p) \/ ClearTrusted(p) \/ MoveToTrusted(p) \/ AbandonJob(p)
      PROVE  UNCHANGED vars
  BY <1>4 DEF ReviseLoad, ReviseSave, PromoteCheck, ClearTrusted, MoveToTrusted, AbandonJob
<1>5. ASSUME NEW p \in Procs, NEW t \in SkillTexts, GenerateDraft(p, t) \/ ReviseText(p, t)
      PROVE  UNCHANGED vars
  BY <1>5 DEF GenerateDraft, ReviseText
<1>6. ASSUME NEW t \in SkillTexts, CreateDraft(t) \/ Quarantine(t) PROVE UNCHANGED vars
  BY <1>6 DEF CreateDraft, Quarantine
<1>7. ASSUME NEW d \in Places, NEW t \in SkillTexts, EditByHand(d, t) PROVE UNCHANGED vars
  BY <1>7 DEF EditByHand
<1>8. ASSUME NEW p \in Procs, NEW passed \in BOOLEAN, SemanticSave(p, passed) PROVE UNCHANGED vars
  BY <1>8 DEF SemanticSave
<1>9. QED
  BY <1>1, <1>2, <1>3, <1>4, <1>5, <1>6, <1>7, <1>8, GrantIsOwn DEF SkillNext, OwnCalls

\* A gate is paid for the workflow of the call, which is one.
LEMMA LifeOwn ==
  ASSUME LifeIInv, WorkflowNext \/ OrchestrationNext PROVE OwnCalls(GatePurposes)
<1>0. /\ GatePurposes \subseteq ClientPurposes
      /\ \A s \in GateStages, f \in Flows : <<ApprovalAction[s], f>> \in GatePurposes
  BY DEF ClientPurposes, GatePurposes
<1>1. ASSUME NEW p \in Procs, NEW r \in Requests, PayGate(p, r) PROVE OwnCalls(GatePurposes)
  <2>1. /\ InFlow(p)
        /\ Stage(doing[p].copy) \in GateStages
        /\ Spend(p, r, ApprovalAction[Stage(doing[p].copy)], doing[p].id)
    BY <1>1 DEF PayGate
  <2>2. doing[p].id \in Flows
    BY <2>1 DEF LifeIInv, FlowIInv, FlowCallOK
  <2>3. PICK a, t : a = ApprovalAction[Stage(doing[p].copy)] /\ t = doing[p].id
    OBVIOUS
  <2>4. <<a, t>> \in GatePurposes
    BY <1>0, <2>1, <2>2, <2>3
  <2>5. QED
    BY <1>0, <2>1, <2>3, <2>4, SpendIsOwn
<1>2. ASSUME NEW r \in Requests, NEW f \in Flows, NEW s \in GateStages, AskGate(r, f, s)
      PROVE  OwnCalls(GatePurposes)
  <2>1. AskFor(r, ApprovalAction[s], f) /\ <<ApprovalAction[s], f>> \in GatePurposes
    BY <1>0, <1>2 DEF AskGate
  <2>2. QED
    BY <1>0, <2>1, AskIsOwn
<1>3. ASSUME NEW r \in Requests, GrantGate(r) PROVE OwnCalls(GatePurposes)
  BY <1>3, GrantIsOwn DEF GrantGate
<1>4. ASSUME NEW f \in Flows, NEW text \in Texts, NEW risk \in Risks, StartWorkflow(f, text, risk)
      PROVE  UNCHANGED vars
  BY <1>4 DEF StartWorkflow
<1>5. ASSUME NEW p \in Procs, NEW f \in Flows, NEW op \in FlowOps, LoadFlow(p, f, op)
      PROVE  UNCHANGED vars
  BY <1>5 DEF LoadFlow
<1>6. ASSUME NEW p \in Procs, NEW passed \in BOOLEAN, SaveFlow(p, passed) PROVE UNCHANGED vars
  BY <1>6 DEF SaveFlow
<1>7. ASSUME NEW p \in Procs, Abandon(p) \/ TearFile(p) PROVE UNCHANGED vars
  BY <1>7 DEF Abandon, TearFile
<1>8. ASSUME NEW o \in Orchs, NEW text \in Texts, NEW write \in BOOLEAN, NEW paths \in BOOLEAN,
             OrchestrateStart(o, text, write, paths)
      PROVE  UNCHANGED vars
  BY <1>8 DEF OrchestrateStart
<1>9. ASSUME NEW p \in Procs, NEW o \in Orchs, LoadConfirm(p, o) \/ LoadDispatch(p, o)
      PROVE  UNCHANGED vars
  BY <1>9 DEF LoadConfirm, LoadDispatch
<1>10. ASSUME NEW p \in Procs, RecordRequirement(p) \/ WriteHandoff(p) \/ SaveOrch(p)
       PROVE  UNCHANGED vars
  BY <1>10 DEF RecordRequirement, WriteHandoff, SaveOrch
<1>11. ASSUME NEW p \in Procs, NEW f \in Flows, ConfirmStartsWorkflow(p, f) PROVE UNCHANGED vars
  BY <1>11 DEF ConfirmStartsWorkflow
<1>12. CASE WorkflowNext
  BY <1>1, <1>2, <1>3, <1>4, <1>5, <1>6, <1>7, <1>12 DEF WorkflowNext, OwnCalls
<1>13. CASE OrchestrationNext
  BY <1>7, <1>8, <1>9, <1>10, <1>11, <1>13 DEF OrchestrationNext, OwnCalls
<1>14. QED
  BY <1>12, <1>13

\* The purposes of two clients have no action in common, nor have those of a
\* client and what the others ask for.
LEMMA NobodyMeets ==
  /\ ActionsOf(McpPurposes) \cap ActionsOf(ResumePurpose) = {}
  /\ ActionsOf(McpPurposes) \cap ActionsOf(RecordPurposes) = {}
  /\ ActionsOf(McpPurposes) \cap ActionsOf(GatePurposes) = {}
  /\ ActionsOf(McpPurposes) \cap ActionsOf(SkillPurposes) = {}
  /\ ActionsOf(ResumePurpose) \cap ActionsOf(RecordPurposes) = {}
  /\ ActionsOf(ResumePurpose) \cap ActionsOf(GatePurposes) = {}
  /\ ActionsOf(ResumePurpose) \cap ActionsOf(SkillPurposes) = {}
  /\ ActionsOf(RecordPurposes) \cap ActionsOf(GatePurposes) = {}
  /\ ActionsOf(RecordPurposes) \cap ActionsOf(SkillPurposes) = {}
  /\ ActionsOf(GatePurposes) \cap ActionsOf(SkillPurposes) = {}
  BY ActionsDiffer

LEMMA OthersAreOther ==
  ASSUME NEW purposes, purposes \subseteq ClientPurposes, QueueCalls(OtherScopes)
  PROVE  OthersCalls(purposes)
<1>1. ActionsOf(purposes) \subseteq ActionsOf(ClientPurposes)
  BY DEF ActionsOf
<1>2. OtherScopes \in SUBSET Scopes
  BY DEF OtherScopes
<1>3. \A c \in OtherScopes : c.action \notin ActionsOf(purposes)
  BY <1>1 DEF OtherScopes
<1>4. QED
  BY <1>2, <1>3 DEF OthersCalls

\* To each client, a step of the whole is one of its own or one of others'.
McpStepOrOthers ==
  [McpNext]_<<mcpVars, vars>> \/ (OthersCalls(McpPurposes) /\ UNCHANGED mcpVars)
RuntimeStepOrOthers ==
  [RuntimeNext]_<<runtimeVars, vars>> \/ (OthersCalls(ResumePurpose) /\ UNCHANGED runtimeVars)
RecordStepOrOthers ==
  [RecordNext]_<<recordVars, vars>> \/ (OthersCalls(RecordPurposes) /\ UNCHANGED recordVars)
LifeStepOrOthers ==
  \/ [WorkflowNext \/ OrchestrationNext]_<<lifeVars, vars>>
  \/ OthersCalls(GatePurposes) /\ UNCHANGED lifeVars
SkillStepOrOthers ==
  [SkillNext]_<<skillVars, vars>> \/ (OthersCalls(SkillPurposes) /\ UNCHANGED skillVars)

LEMMA StepOfOne ==
  ASSUME LifeIInv, [ClientsNext]_clientVars
  PROVE  /\ McpStepOrOthers /\ RuntimeStepOrOthers /\ RecordStepOrOthers
         /\ LifeStepOrOthers /\ SkillStepOrOthers
         /\ [Next]_vars
<1> USE DEF McpStepOrOthers, RuntimeStepOrOthers, RecordStepOrOthers, LifeStepOrOthers,
            SkillStepOrOthers
<1>1. CASE ByOthers
  <2>1. /\ QueueCalls(OtherScopes)
        /\ UNCHANGED lifeVars /\ UNCHANGED skillVars /\ UNCHANGED mcpVars
        /\ UNCHANGED runtimeVars /\ UNCHANGED recordVars
    BY <1>1 DEF ByOthers
  <2>2. /\ OthersCalls(McpPurposes) /\ OthersCalls(ResumePurpose) /\ OthersCalls(RecordPurposes)
        /\ OthersCalls(GatePurposes) /\ OthersCalls(SkillPurposes)
    BY <2>1, OthersAreOther DEF ClientPurposes
  <2>3. QED
    BY <2>1, <2>2, OtherIsStep
<1>2. CASE ByWorkflow \/ ByOrchestration
  <2>1. /\ WorkflowNext \/ OrchestrationNext
        /\ UNCHANGED skillVars /\ UNCHANGED mcpVars
        /\ UNCHANGED runtimeVars /\ UNCHANGED recordVars
    BY <1>2 DEF ByWorkflow, ByOrchestration
  <2>2. OwnCalls(GatePurposes)
    BY <2>1, LifeOwn
  <2>3. /\ OthersCalls(McpPurposes) /\ OthersCalls(ResumePurpose) /\ OthersCalls(RecordPurposes)
        /\ OthersCalls(SkillPurposes)
    BY <2>2, OwnIsOther, NobodyMeets
  <2>4. QED
    BY <2>1, <2>2, <2>3, OwnIsStep
<1>3. CASE BySkills
  <2>1. /\ SkillNext /\ UNCHANGED lifeVars /\ UNCHANGED mcpVars
        /\ UNCHANGED runtimeVars /\ UNCHANGED recordVars
    BY <1>3 DEF BySkills
  <2>2. OwnCalls(SkillPurposes)
    BY <2>1, SkillOwn
  <2>3. /\ OthersCalls(McpPurposes) /\ OthersCalls(ResumePurpose) /\ OthersCalls(RecordPurposes)
        /\ OthersCalls(GatePurposes)
    BY <2>2, OwnIsOther, NobodyMeets
  <2>4. QED
    BY <2>1, <2>2, <2>3, OwnIsStep
<1>4. CASE ByMcp
  <2>1. /\ McpNext /\ UNCHANGED lifeVars /\ UNCHANGED skillVars
        /\ UNCHANGED runtimeVars /\ UNCHANGED recordVars
    BY <1>4 DEF ByMcp
  <2>2. OwnCalls(McpPurposes)
    BY <2>1, McpOwn
  <2>3. /\ OthersCalls(SkillPurposes) /\ OthersCalls(ResumePurpose) /\ OthersCalls(RecordPurposes)
        /\ OthersCalls(GatePurposes)
    BY <2>2, OwnIsOther, NobodyMeets
  <2>4. QED
    BY <2>1, <2>2, <2>3, OwnIsStep
<1>5. CASE ByRuntime
  <2>1. /\ RuntimeNext /\ UNCHANGED lifeVars /\ UNCHANGED skillVars
        /\ UNCHANGED mcpVars /\ UNCHANGED recordVars
    BY <1>5 DEF ByRuntime
  <2>2. OwnCalls(ResumePurpose)
    BY <2>1, RuntimeOwn
  <2>3. /\ OthersCalls(SkillPurposes) /\ OthersCalls(McpPurposes) /\ OthersCalls(RecordPurposes)
        /\ OthersCalls(GatePurposes)
    BY <2>2, OwnIsOther, NobodyMeets
  <2>4. QED
    BY <2>1, <2>2, <2>3, OwnIsStep
<1>6. CASE ByRecords
  <2>1. /\ RecordNext /\ UNCHANGED lifeVars /\ UNCHANGED skillVars
        /\ UNCHANGED mcpVars /\ UNCHANGED runtimeVars
    BY <1>6 DEF ByRecords
  <2>2. OwnCalls(RecordPurposes)
    BY <2>1, RecordOwn
  <2>3. /\ OthersCalls(SkillPurposes) /\ OthersCalls(McpPurposes) /\ OthersCalls(ResumePurpose)
        /\ OthersCalls(GatePurposes)
    BY <2>2, OwnIsOther, NobodyMeets
  <2>4. QED
    BY <2>1, <2>2, <2>3, OwnIsStep
<1>7. CASE UNCHANGED clientVars
  <2>1. /\ UNCHANGED vars /\ UNCHANGED lifeVars /\ UNCHANGED skillVars /\ UNCHANGED mcpVars
        /\ UNCHANGED runtimeVars /\ UNCHANGED recordVars
    BY <1>7 DEF clientVars
  <2>2. QED
    BY <2>1
<1>8. QED
  BY <1>1, <1>2, <1>3, <1>4, <1>5, <1>6, <1>7 DEF ClientsNext

\* Each client's invariant survives the others.
CompanyInv == McpIInv /\ RuntimeIInv /\ RecordIInv /\ LifeIInv

LEMMA CompanyInit == ClientsInit => CompanyInv /\ SkillIInv
  BY McpInit_IInv, RuntimeInit_IInv, RecordInit_IInv, LifeInit_IInv, SkillInit_IInv
  DEF ClientsInit, CompanyInv

LEMMA CompanyStep == CompanyInv /\ [ClientsNext]_clientVars => CompanyInv' /\ [Next]_vars
<1> SUFFICES ASSUME CompanyInv, [ClientsNext]_clientVars PROVE CompanyInv' /\ [Next]_vars
  OBVIOUS
<1>0. McpIInv /\ RuntimeIInv /\ RecordIInv /\ LifeIInv
  BY DEF CompanyInv
<1>1. /\ McpStepOrOthers /\ RuntimeStepOrOthers /\ RecordStepOrOthers /\ LifeStepOrOthers
      /\ [Next]_vars
  BY <1>0, StepOfOne
<1>2. McpIInv'
  <2>1. CASE [McpNext]_<<mcpVars, vars>>
    BY <1>0, <2>1, McpStep
  <2>2. CASE OthersCalls(McpPurposes) /\ UNCHANGED mcpVars
    <3>1. GateInv(McpPurposes)
      BY <1>0 DEF McpIInv
    <3>2. QED
      BY <1>0, <2>2, <3>1, OthersStandAside, McpIdleMove
  <2>3. QED
    BY <1>1, <2>1, <2>2 DEF McpStepOrOthers
<1>3. RuntimeIInv'
  <2>1. CASE [RuntimeNext]_<<runtimeVars, vars>>
    BY <1>0, <2>1, RuntimeStep
  <2>2. CASE OthersCalls(ResumePurpose) /\ UNCHANGED runtimeVars
    <3>1. GateInv(ResumePurpose)
      BY <1>0 DEF RuntimeIInv
    <3>2. QED
      BY <1>0, <2>2, <3>1, OthersStandAside, RuntimeIdleMove
  <2>3. QED
    BY <1>1, <2>1, <2>2 DEF RuntimeStepOrOthers
<1>4. RecordIInv'
  <2>1. CASE [RecordNext]_<<recordVars, vars>>
    BY <1>0, <2>1, RecordStep
  <2>2. CASE OthersCalls(RecordPurposes) /\ UNCHANGED recordVars
    <3>1. /\ GateInv(RecordPurposes)
          /\ library \in [Shared -> Lessons \cup {"hermes", None}]
      BY <1>0 DEF RecordIInv, RecordTypeOK
    <3>2. /\ library' = library /\ errand' = errand /\ consent' = consent
          /\ schedule' = schedule /\ keeper' = keeper
      BY <2>2 DEF recordVars
    <3>3. GateInv(RecordPurposes)' /\ Aside(RecordPurposes)
      BY <2>2, <3>1, OthersStandAside
    <3>4. QED
      BY <1>0, <3>1, <3>2, <3>3, RecordIdleMove
  <2>3. QED
    BY <1>1, <2>1, <2>2 DEF RecordStepOrOthers
<1>5. LifeIInv'
  <2>1. CASE [WorkflowNext \/ OrchestrationNext]_<<lifeVars, vars>>
    BY <1>0, <2>1, LifeStep
  <2>2. CASE OthersCalls(GatePurposes) /\ UNCHANGED lifeVars
    <3>1. GateInv(GatePurposes)
      BY <1>0 DEF LifeIInv, FlowIInv
    <3>2. QED
      BY <1>0, <2>2, <3>1, OthersStandAside, LifeIdleMove
  <2>3. QED
    BY <1>1, <2>1, <2>2 DEF LifeStepOrOthers
<1>6. QED
  BY <1>1, <1>2, <1>3, <1>4, <1>5 DEF CompanyInv

LEMMA CompanySkillStep ==
  ASSUME LifeIInv, SkillIInv, [ClientsNext]_clientVars PROVE SkillIInv'
<1>1. CASE [SkillNext]_<<skillVars, vars>>
  BY <1>1, SkillStep
<1>2. CASE OthersCalls(SkillPurposes) /\ UNCHANGED skillVars
  <2>1. GateInv(SkillPurposes)
    BY DEF SkillIInv
  <2>2. QED
    BY <1>2, <2>1, OthersStandAside, SkillIdleMove
<1>3. QED
  BY <1>1, <1>2, StepOfOne DEF SkillStepOrOthers

LEMMA CompanyKeeps == ClientsSpec => []CompanyInv
<1>1. ClientsInit => CompanyInv
  BY CompanyInit
<1>2. CompanyInv /\ [ClientsNext]_clientVars => CompanyInv'
  BY CompanyStep
<1>3. QED
  BY <1>1, <1>2, PTL DEF ClientsSpec

\* Whatever the clients do together is a behaviour of the queue (policy.py).
LEMMA ClientsAreQueue == ClientsSpec => Spec
<1>1. ClientsInit => Init
  BY DEF ClientsInit
<1>2. CompanyInv /\ [ClientsNext]_clientVars => [Next]_vars
  BY CompanyStep
<1>3. QED
  BY <1>1, <1>2, CompanyKeeps, PTL DEF ClientsSpec, Spec

\* The queue and all its clients at once keep their types.
THEOREM ClientsTypeCorrect == ClientsSpec => []ClientsTypeOK
<1>1. CompanyInv /\ SkillIInv /\ TypeOK => ClientsTypeOK
  BY LifeIInvImplies, RuntimeIInvImplies, RecordIInvImplies
  DEF ClientsTypeOK, CompanyInv, McpIInv, SkillIInv
<1>2. ClientsInit => SkillIInv
  BY CompanyInit
<1>3. CompanyInv /\ SkillIInv /\ [ClientsNext]_clientVars => SkillIInv'
  BY CompanySkillStep DEF CompanyInv
<1>4. ClientsSpec => []TypeOK
  BY ClientsAreQueue, TypeCorrect, PTL
<1>5. QED
  BY <1>1, <1>2, <1>3, <1>4, CompanyKeeps, PTL DEF ClientsSpec

\* What each client guarantees when it has the queue for itself it guarantees
\* among all the others: gates earned, handoffs confirmed, MCP runs vouched
\* for, stops held, records consented to (policy.py and its callers).
THEOREM ClientsKeepTheirPromises ==
  ClientsSpec => [](/\ GatesEarned /\ HandoffWasConfirmed
                    /\ RunsAreVouchedFor /\ StopsHold /\ RecordsAreConsented)
<1>1. CompanyInv => /\ GatesEarned /\ HandoffWasConfirmed
                    /\ RunsAreVouchedFor /\ StopsHold /\ RecordsAreConsented
  BY LifeIInvImplies, RuntimeIInvImplies, RecordIInvImplies, McpIInvImplies DEF CompanyInv
<1>2. QED
  BY <1>1, CompanyKeeps, PTL

\* The same for the trusted skills, until a call acts on another skill than
\* the one it had loaded.
THEOREM ClientsTrustTheVetted == ClientsSpec => []TrustedIsVetted
<1>1. SkillIInv => TrustedIsVetted
  BY DEF SkillIInv
<1>2. ClientsInit => SkillIInv
  BY CompanyInit
<1>3. CompanyInv /\ SkillIInv /\ [ClientsNext]_clientVars => SkillIInv'
  BY CompanySkillStep DEF CompanyInv
<1>4. QED
  BY <1>1, <1>2, <1>3, CompanyKeeps, PTL DEF ClientsSpec

\* With all the clients at work the queue is still the abstract one-time
\* right: each approval used once, after the human's grant, by one process.
THEOREM ClientsImplementOneTimeApproval == ClientsSpec => ImplementsOneTimeApproval
  BY ClientsAreQueue, Refinement
==============================================================================
