------------------------- MODULE ApprovalQueueProofs -------------------------
(***************************************************************************)
(* What ApprovalQueue guarantees for any number of requests and processes, *)
(* any scopes and any bound on the clock.                                  *)
(*                                                                         *)
(* TypeOK is inductive.  The safety properties need more: that a process   *)
(* holds a request exactly while the request is used, that tokens are not  *)
(* shared between requests, and that the scope presented at the grant was  *)
(* accepted.  IInv adds those three facts to TokenIsPrivate.               *)
(***************************************************************************)
EXTENDS ApprovalQueue, TLAPS

\* A request has a holder exactly when its authority has been handed out,
\* and carries a token only then.
HeldIffUsed ==
  \A r \in Requests :
    /\ status[r] \in Used => holder[r] \in Procs
    /\ status[r] \notin Used => holder[r] = NoProc /\ token[r] = NoToken

\* Two requests never carry the same token.
TokensDiffer ==
  \A r, s \in Requests : token[r] = token[s] /\ token[r] # NoToken => r = s

\* The scope presented when authority was handed out fitted the request.
GrantFits ==
  \A r \in Requests : status[r] \in Used => ScopeFits(scope[r], presented[r])

IInv == TypeOK /\ HeldIffUsed /\ TokensDiffer /\ TokenIsPrivate /\ GrantFits

-----------------------------------------------------------------------------

\* Every variable of the queue keeps its type.
THEOREM TypeCorrect == Spec => []TypeOK
<1>1. Init => TypeOK
  BY TimeAssumption DEF Init, TypeOK, Statuses, NoExpiry, Expiries, NoToken
<1>2. TypeOK /\ [Next]_vars => TypeOK'
  <2> SUFFICES ASSUME TypeOK, [Next]_vars PROVE TypeOK'
    OBVIOUS
  <2>1. ASSUME NEW r \in Requests, NEW s \in Scopes, NEW e \in Expiries, RequestApproval(r, s, e)
        PROVE  TypeOK'
    BY <2>1 DEF TypeOK, Statuses, RequestApproval
  <2>2. ASSUME NEW r \in Requests, Approve(r) PROVE TypeOK'
    BY <2>2 DEF TypeOK, Statuses, Approve
  <2>3. ASSUME NEW p \in Procs, NEW r \in Requests, NEW c \in Scopes, Reserve(p, r, c)
        PROVE  TypeOK'
    <3>1. minted' \in Nat /\ 0 .. minted \subseteq 0 .. minted' /\ 1 .. minted \subseteq 1 .. minted'
      BY <2>3 DEF TypeOK, Reserve
    <3>2. minted + 1 \in 1 .. minted' /\ minted + 1 \in 0 .. minted'
      BY <2>3 DEF TypeOK, Reserve
    <3>3. token' \in [Requests -> 0 .. minted']
      BY <2>3, <3>1, <3>2 DEF TypeOK, Reserve
    <3>4. known' \in [Procs -> SUBSET (1 .. minted')]
      BY <2>3, <3>1, <3>2 DEF TypeOK, Reserve
    <3>5. QED
      BY <2>3, <3>1, <3>3, <3>4 DEF TypeOK, Statuses, Reserve
  <2>4. ASSUME NEW p \in Procs, NEW r \in Requests, NEW c \in Scopes, Consume(p, r, c)
        PROVE  TypeOK'
    BY <2>4 DEF TypeOK, Statuses, Consume
  <2>5. ASSUME NEW p \in Procs, NEW r \in Requests, NEW c \in Scopes \cup {None}, MarkUnknown(p, r, c)
        PROVE  TypeOK'
    BY <2>5 DEF TypeOK, Statuses, MarkUnknown
  <2>6. ASSUME NEW p \in Procs, Crash(p) PROVE TypeOK'
    BY <2>6 DEF TypeOK, Crash
  <2>7. CASE Tick
    BY <2>7, TimeAssumption DEF TypeOK, Tick, queueVars
  <2>8. CASE UNCHANGED vars
    BY <2>8 DEF TypeOK, vars
  <2>9. QED
    BY <2>1, <2>2, <2>3, <2>4, <2>5, <2>6, <2>7, <2>8 DEF Next
<1>3. QED
  BY <1>1, <1>2, PTL DEF Spec

-----------------------------------------------------------------------------

LEMMA InitIInv == Init => IInv
  BY TimeAssumption, ProcAssumption
  DEF Init, IInv, TypeOK, HeldIffUsed, TokensDiffer, TokenIsPrivate, GrantFits, HasToken,
      Statuses, Used, NoExpiry, Expiries, NoToken

\* Only Reserve touches tokens, and only with one nobody has seen.
LEMMA ReserveKeepsIInv ==
  ASSUME IInv, TypeOK', NEW p \in Procs, NEW r \in Requests, NEW c \in Scopes, Reserve(p, r, c)
  PROVE  IInv'
<1>1. /\ status' = [status EXCEPT ![r] = "reserved"]
      /\ token' = [token EXCEPT ![r] = minted + 1]
      /\ known' = [known EXCEPT ![p] = @ \cup {minted + 1}]
      /\ holder' = [holder EXCEPT ![r] = p]
      /\ presented' = [presented EXCEPT ![r] = c]
      /\ scope' = scope
      /\ ScopeFits(scope[r], c)
      /\ status[r] = "approved"
  BY DEF Reserve
<1>2. \A s \in Requests : token[s] # minted + 1
  BY DEF IInv, TypeOK
<1>3. \A q \in Procs : minted + 1 \notin known[q]
  BY DEF IInv, TypeOK
<1>4. \A q \in Procs : known[q] \subseteq known'[q] /\ known'[q] \subseteq known[q] \cup {minted + 1}
  BY <1>1 DEF IInv, TypeOK
<1>5. \A q \in Procs : minted + 1 \in known'[q] => q = p
  BY <1>1, <1>3 DEF IInv, TypeOK
<1>6. \A s \in Requests : s # r => token'[s] = token[s] /\ status'[s] = status[s]
                                   /\ holder'[s] = holder[s] /\ presented'[s] = presented[s]
  BY <1>1 DEF IInv, TypeOK
<1>7. token'[r] = minted + 1 /\ status'[r] = "reserved" /\ holder'[r] = p /\ presented'[r] = c
  BY <1>1 DEF IInv, TypeOK
<1>8. HeldIffUsed'
  BY <1>6, <1>7 DEF IInv, HeldIffUsed, Used
<1>9. TokensDiffer'
  BY <1>2, <1>6, <1>7 DEF IInv, TokensDiffer
<1>10. TokenIsPrivate'
  <2> SUFFICES ASSUME NEW s \in Requests, NEW q \in Procs, HasToken(q, s)' PROVE q = holder'[s]
    BY DEF TokenIsPrivate
  <2>1. CASE s = r
    BY <2>1, <1>5, <1>7 DEF HasToken
  <2>2. CASE s # r
    <3>1. token[s] \in known[q]
      BY <2>2, <1>2, <1>4, <1>6 DEF HasToken
    <3>2. HasToken(q, s)
      BY <2>2, <3>1, <1>6 DEF HasToken
    <3>3. QED
      BY <2>2, <3>2, <1>6 DEF IInv, TokenIsPrivate
  <2>3. QED
    BY <2>1, <2>2
<1>11. GrantFits'
  BY <1>1, <1>6, <1>7 DEF IInv, GrantFits, ScopeFits, SameTarget, SensitiveFields, OrdinaryFields
<1>12. QED
  BY <1>8, <1>9, <1>10, <1>11 DEF IInv

\* A consumption straight from approved hands authority out under a scope
\* that fits; one from reserved only ends what the reservation began.
LEMMA ConsumeKeepsIInv ==
  ASSUME IInv, TypeOK', NEW p \in Procs, NEW r \in Requests, NEW c \in Scopes, Consume(p, r, c)
  PROVE  IInv'
<1>1. /\ status' = [status EXCEPT ![r] = "consumed"]
      /\ token' = token /\ known' = known /\ scope' = scope
      /\ status[r] \in {"approved", "reserved"}
      /\ ScopeFits(scope[r], c)
  BY DEF Consume, MayConsume
<1>2. \A s \in Requests : s # r => status'[s] = status[s] /\ holder'[s] = holder[s]
                                   /\ presented'[s] = presented[s]
  BY DEF IInv, TypeOK, Consume
<1>3. /\ status'[r] = "consumed"
      /\ IF status[r] = "approved" THEN holder'[r] = p /\ presented'[r] = c
                                   ELSE holder'[r] = holder[r] /\ presented'[r] = presented[r]
  BY DEF IInv, TypeOK, Consume
<1>4. status[r] = "approved" => token[r] = NoToken
  BY DEF IInv, HeldIffUsed, Used
<1>5. HeldIffUsed'
  BY <1>1, <1>2, <1>3 DEF IInv, HeldIffUsed, Used
<1>6. TokensDiffer'
  BY <1>1 DEF IInv, TokensDiffer
<1>7. TokenIsPrivate'
  BY <1>1, <1>2, <1>3, <1>4 DEF IInv, TokenIsPrivate, HasToken
<1>8. GrantFits'
  BY <1>1, <1>2, <1>3
  DEF IInv, GrantFits, Used, ScopeFits, SameTarget, SensitiveFields, OrdinaryFields
<1>9. QED
  BY <1>5, <1>6, <1>7, <1>8 DEF IInv

LEMMA NextKeepsIInv == IInv /\ TypeOK' /\ [Next]_vars => IInv'
<1> SUFFICES ASSUME IInv, TypeOK', [Next]_vars PROVE IInv'
  OBVIOUS
<1> USE DEF ScopeFits, SameTarget, SensitiveFields, OrdinaryFields
<1>1. ASSUME NEW r \in Requests, NEW s \in Scopes, NEW e \in Expiries, RequestApproval(r, s, e)
      PROVE  IInv'
  BY <1>1 DEF IInv, TypeOK, HeldIffUsed, TokensDiffer, TokenIsPrivate, GrantFits, HasToken, Used,
              RequestApproval
<1>2. ASSUME NEW r \in Requests, Approve(r) PROVE IInv'
  BY <1>2 DEF IInv, TypeOK, HeldIffUsed, TokensDiffer, TokenIsPrivate, GrantFits, HasToken, Used,
              Approve
<1>3. ASSUME NEW p \in Procs, NEW r \in Requests, NEW c \in Scopes, Reserve(p, r, c) PROVE IInv'
  BY <1>3, ReserveKeepsIInv
<1>4. ASSUME NEW p \in Procs, NEW r \in Requests, NEW c \in Scopes, Consume(p, r, c) PROVE IInv'
  BY <1>4, ConsumeKeepsIInv
<1>5. ASSUME NEW p \in Procs, NEW r \in Requests, NEW c \in Scopes \cup {None}, MarkUnknown(p, r, c)
      PROVE  IInv'
  BY <1>5 DEF IInv, TypeOK, HeldIffUsed, TokensDiffer, TokenIsPrivate, GrantFits, HasToken, Used,
              MarkUnknown, MayMarkUnknown
<1>6. ASSUME NEW p \in Procs, Crash(p) PROVE IInv'
  BY <1>6 DEF IInv, TypeOK, HeldIffUsed, TokensDiffer, TokenIsPrivate, GrantFits, HasToken, Crash
<1>7. CASE Tick
  BY <1>7 DEF IInv, HeldIffUsed, TokensDiffer, TokenIsPrivate, GrantFits, HasToken, Tick, queueVars
<1>8. CASE UNCHANGED vars
  BY <1>8 DEF IInv, HeldIffUsed, TokensDiffer, TokenIsPrivate, GrantFits, HasToken, vars
<1>9. QED
  BY <1>1, <1>2, <1>3, <1>4, <1>5, <1>6, <1>7, <1>8 DEF Next

THEOREM SpecIInv == Spec => []IInv
  BY InitIInv, NextKeepsIInv, TypeCorrect, PTL DEF Spec

-----------------------------------------------------------------------------

\* A live token is in the memory of the request's holder and nowhere else.
THEOREM TokenPrivacy == Spec => []TokenIsPrivate
<1>1. IInv => TokenIsPrivate
  BY DEF IInv
<1>2. QED
  BY <1>1, SpecIInv, PTL

\* Authority over a sensitive action goes only to a caller that asked for
\* exactly the action, target, user, account and connector approved.
THEOREM ExactGrants == Spec => []GrantIsExact
<1>1. IInv => GrantIsExact
  BY DEF IInv, GrantFits, GrantIsExact, ScopeFits, SameTarget, SensitiveFields
<1>2. QED
  BY <1>1, SpecIInv, PTL

\* Only the process a request is reserved for can settle it.
THEOREM HolderSettlesIt == Spec => HolderSettles
<1> DEFINE Settled(r) ==
      status[r] = "reserved" /\ status'[r] # "reserved"
        => /\ status'[r] \in {"consumed", "unknown_outcome"}
           /\ holder[r] \in Procs /\ HasToken(holder[r], r)
<1>1. IInv /\ [Next]_vars => [\A r \in Requests : Settled(r)]_vars
  <2> SUFFICES ASSUME IInv, Next, NEW r \in Requests,
                      status[r] = "reserved", status'[r] # "reserved"
               PROVE  /\ status'[r] \in {"consumed", "unknown_outcome"}
                      /\ holder[r] \in Procs /\ HasToken(holder[r], r)
    BY Zenon
  <2>1. ASSUME NEW p \in Procs, NEW s \in Requests, NEW c \in Scopes, Consume(p, s, c)
        PROVE  /\ status'[r] \in {"consumed", "unknown_outcome"}
               /\ holder[r] \in Procs /\ HasToken(holder[r], r)
    <3>1. r = s /\ HasToken(p, r) /\ status'[r] = "consumed"
      BY <2>1 DEF IInv, TypeOK, Consume, MayConsume
    <3>2. QED
      BY <3>1 DEF IInv, TokenIsPrivate
  <2>2. ASSUME NEW p \in Procs, NEW s \in Requests, NEW c \in Scopes \cup {None}, MarkUnknown(p, s, c)
        PROVE  /\ status'[r] \in {"consumed", "unknown_outcome"}
               /\ holder[r] \in Procs /\ HasToken(holder[r], r)
    <3>1. r = s /\ HasToken(p, r) /\ status'[r] = "unknown_outcome"
      BY <2>2 DEF IInv, TypeOK, MarkUnknown, MayMarkUnknown
    <3>2. QED
      BY <3>1 DEF IInv, TokenIsPrivate
  <2>3. QED
    BY <2>1, <2>2
    DEF Next, IInv, TypeOK, RequestApproval, Approve, Reserve, Crash, Tick, queueVars
<1>2. QED
  BY <1>1, SpecIInv, PTL DEF Spec, HolderSettles

\* Authority is never gained from an expired request, and what a human saw
\* of a request - its scope and its expiry - never changes.
THEOREM FreshGrants == Spec => NoExpiredGrant
<1> DEFINE Fresh(r) ==
      /\ status[r] \notin Used /\ status'[r] \in Used => now < expires[r]
      /\ status[r] # "absent" => expires'[r] = expires[r] /\ scope'[r] = scope[r]
<1>1. IInv /\ [Next]_vars => [\A r \in Requests : Fresh(r)]_vars
  <2> SUFFICES ASSUME IInv, Next, NEW r \in Requests PROVE Fresh(r)
    BY Zenon
  <2>1. now \in Int /\ expires[r] \in Int
    BY TimeAssumption DEF IInv, TypeOK, Expiries, NoExpiry
  <2>2. ASSUME NEW p \in Procs, NEW s \in Requests, NEW c \in Scopes, Reserve(p, s, c) PROVE Fresh(r)
    BY <2>1, <2>2 DEF IInv, TypeOK, Reserve, Expired, Used
  <2>3. ASSUME NEW p \in Procs, NEW s \in Requests, NEW c \in Scopes, Consume(p, s, c) PROVE Fresh(r)
    BY <2>1, <2>3 DEF IInv, TypeOK, Consume, MayConsume, Expired, Used
  <2>4. ASSUME NEW p \in Procs, NEW s \in Requests, NEW c \in Scopes \cup {None}, MarkUnknown(p, s, c)
        PROVE  Fresh(r)
    BY <2>4 DEF IInv, TypeOK, MarkUnknown, MayMarkUnknown, Used
  <2>5. QED
    BY <2>2, <2>3, <2>4
    DEF Next, IInv, TypeOK, RequestApproval, Approve, Crash, Tick, queueVars, Used
<1>2. QED
  BY <1>1, SpecIInv, PTL DEF Spec, NoExpiredGrant

-----------------------------------------------------------------------------
(* The queue implements the one-time right.                                *)

LEMMA InitImplements == Init => Abstract!Init
  BY DEF Init, Abstract!Init, Right

\* What a step on one request does to the abstract right.
LEMMA RightStep ==
  ASSUME TypeOK, NEW r \in Requests, NEW st \in Statuses,
         status' = [status EXCEPT ![r] = st]
  PROVE  Right' = [Right EXCEPT ![r] =
           CASE st = "absent" -> "none" [] st = "pending" -> "asked"
             [] st = "approved" -> "granted" [] OTHER -> "used"]
  BY DEF TypeOK, Right

LEMMA NextImplements == IInv /\ [Next]_vars => [Abstract!Next]_(Abstract!vars)
<1> SUFFICES ASSUME IInv, [Next]_vars PROVE [Abstract!Next]_(Abstract!vars)
  OBVIOUS
<1> USE DEF IInv
<1>1. ASSUME NEW r \in Requests, NEW s \in Scopes, NEW e \in Expiries, RequestApproval(r, s, e)
      PROVE  Abstract!Ask(r)
  <2>1. Right' = [Right EXCEPT ![r] = "asked"]
    BY <1>1, RightStep DEF RequestApproval, Statuses
  <2>2. QED
    BY <1>1, <2>1 DEF RequestApproval, Abstract!Ask, Right
<1>2. ASSUME NEW r \in Requests, Approve(r)
      PROVE  Abstract!Grant(r)
  <2>1. Right' = [Right EXCEPT ![r] = "granted"]
    BY <1>2, RightStep DEF Approve, Statuses
  <2>2. QED
    BY <1>2, <2>1 DEF Approve, Abstract!Grant, Right
<1>3. ASSUME NEW p \in Procs, NEW r \in Requests, NEW c \in Scopes, Reserve(p, r, c)
      PROVE  Abstract!Use(p, r)
  <2>1. Right' = [Right EXCEPT ![r] = "used"]
    BY <1>3, RightStep DEF Reserve, Statuses
  <2>2. QED
    BY <1>3, <2>1 DEF Reserve, Abstract!Use, Right
<1>4. ASSUME NEW p \in Procs, NEW r \in Requests, NEW c \in Scopes, Consume(p, r, c)
      PROVE  Abstract!Use(p, r) \/ UNCHANGED Abstract!vars
  <2>1. Right' = [Right EXCEPT ![r] = "used"]
    BY <1>4, RightStep DEF Consume, Statuses
  <2>2. CASE status[r] = "approved"
    BY <1>4, <2>1, <2>2 DEF Consume, Abstract!Use, Right
  <2>3. CASE status[r] = "reserved"
    <3>1. Right[r] = "used"
      BY <2>3 DEF Right
    <3>2. Right' = Right
      BY <2>1, <3>1 DEF Right
    <3>3. holder' = holder
      BY <1>4, <2>3 DEF Consume, TypeOK
    <3>4. QED
      BY <3>2, <3>3 DEF Abstract!vars
  <2>4. QED
    BY <1>4, <2>2, <2>3 DEF Consume, MayConsume
<1>5. ASSUME NEW p \in Procs, NEW r \in Requests, NEW c \in Scopes \cup {None}, MarkUnknown(p, r, c)
      PROVE  UNCHANGED Abstract!vars
  <2>1. Right' = [Right EXCEPT ![r] = "used"]
    BY <1>5, RightStep DEF MarkUnknown, Statuses
  <2>2. Right[r] = "used"
    BY <1>5 DEF MarkUnknown, MayMarkUnknown, Right
  <2>3. Right' = Right
    BY <2>1, <2>2 DEF Right
  <2>4. QED
    BY <1>5, <2>3 DEF MarkUnknown, Abstract!vars
<1>6. ASSUME NEW p \in Procs, Crash(p) PROVE UNCHANGED Abstract!vars
  BY <1>6 DEF Crash, Abstract!vars, Right
<1>7. CASE Tick
  BY <1>7 DEF Tick, queueVars, Abstract!vars, Right
<1>8. CASE UNCHANGED vars
  BY <1>8 DEF vars, Abstract!vars, Right
<1>9. QED
  BY <1>1, <1>2, <1>3, <1>4, <1>5, <1>6, <1>7, <1>8 DEF Next, Abstract!Next

\* An approval is used at most once, by one process, after a human granted it.
THEOREM Refinement == Spec => ImplementsOneTimeApproval
<1>1. QED
  BY InitImplements, NextImplements, SpecIInv, PTL
  DEF Spec, ImplementsOneTimeApproval, Abstract!Spec
==============================================================================
