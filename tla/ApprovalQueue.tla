---------------------------- MODULE ApprovalQueue ----------------------------
(***************************************************************************)
(* The approval queue (policy.py).  Every operation reads the whole queue, *)
(* checks one request and rewrites the file while it holds the exclusive   *)
(* flock, and the rewrite is a rename, so each operation is one step.  A   *)
(* call that raises writes nothing and is no step.                         *)
(*                                                                         *)
(* An approval goes pending -> approved -> reserved -> consumed or         *)
(* unknown_outcome, or straight from approved to consumed.  A reservation  *)
(* hands a secret token to the process that made it; nobody else has it.   *)
(***************************************************************************)
EXTENDS Integers, FiniteSets

CONSTANTS
  Requests,         \* request identifiers (req-<uuid>)
  Procs,            \* processes that call the queue
  Scopes,           \* what a request is made for, or a call presents
  SensitiveActions, \* _SENSITIVE_ACTIONS
  ExternalActions,  \* "browser_*" and create_external_account
  Canon,            \* sanitize_url_for_audit, target by target
  EmptyTarget,      \* the target that sanitises to the empty string
  DefaultUser,      \* "user_default"
  None,             \* an argument not given, a field that is null
  NoProc,
  MaxTime           \* bound on the clock

ASSUME TimeAssumption  == MaxTime \in Nat
ASSUME ProcAssumption  == NoProc \notin Procs
ASSUME ScopeAssumption == None \notin Scopes

Statuses == {"absent", "pending", "approved", "reserved", "consumed", "unknown_outcome"}
Used     == {"reserved", "consumed", "unknown_outcome"}
NoToken  == 0
NoExpiry == MaxTime + 1
Expiries == 1 .. NoExpiry

VARIABLES
  status,     \* request -> status in the queue file, "absent" before it is made
  scope,      \* request -> the scope it was made for
  expires,    \* request -> expires_at, NoExpiry when null
  token,      \* request -> reservation_token
  known,      \* process -> the tokens it was handed and still has in memory
  minted,     \* number of tokens drawn: each uuid4 is new
  now,        \* the clock
  holder,     \* history: the process a request's authority went to
  presented   \* history: the scope that process presented

queueVars == <<status, scope, expires, token, known, minted, holder, presented>>
vars      == <<status, scope, expires, token, known, minted, now, holder, presented>>

-----------------------------------------------------------------------------

TypeOK ==
  /\ status    \in [Requests -> Statuses]
  /\ scope     \in [Requests -> Scopes \cup {None}]
  /\ expires   \in [Requests -> Expiries]
  /\ minted    \in Nat
  /\ token     \in [Requests -> 0 .. minted]
  /\ known     \in [Procs -> SUBSET (1 .. minted)]
  /\ now       \in 0 .. MaxTime
  /\ holder    \in [Requests -> Procs \cup {NoProc}]
  /\ presented \in [Requests -> Scopes \cup {None}]

-----------------------------------------------------------------------------
(* The scope check shared by reserve and consume.                          *)

EffectiveUser(c) == IF c.user = None THEN DefaultUser ELSE c.user

SameTarget(q, c) ==
  \/ q.target = EmptyTarget
  \/ Canon[q.target] = Canon[c.target]

\* Mutant: the account is compared only when both sides give it.
SensitiveFieldsLax(q, c) ==
  /\ q.user # None /\ q.user = EffectiveUser(c)
  /\ q.account = None \/ c.account = None \/ q.account = c.account
  /\ q.connector = c.connector
  /\ q.action \in ExternalActions => q.account # None /\ q.connector # None

\* Fields of a sensitive action must match; those of an action outside the
\* system must be there as well.
SensitiveFields(q, c) ==
  /\ q.user # None /\ q.user = EffectiveUser(c)
  /\ q.account = c.account
  /\ q.connector = c.connector
  /\ q.action \in ExternalActions => q.account # None /\ q.connector # None

\* Any other action: a field is compared only when both sides give it.
Compatible(x, y) == x = None \/ y = None \/ x = y

OrdinaryFields(q, c) ==
  /\ Compatible(q.user, c.user)
  /\ Compatible(q.account, c.account)
  /\ Compatible(q.connector, c.connector)

\* A request made without a key is filed with its own id as key, which no
\* caller presents as one: a None key of a request stands for that id.
SameKey(q, c) == c.key \in {None, q.key}

ScopeFits(q, c) ==
  /\ q.action = c.action
  /\ SameTarget(q, c)
  /\ IF q.action \in SensitiveActions THEN SensitiveFields(q, c) ELSE OrdinaryFields(q, c)
  /\ SameKey(q, c)

Expired(r) == expires[r] <= now

HasToken(p, r) == token[r] # NoToken /\ token[r] \in known[p]

-----------------------------------------------------------------------------

Init ==
  /\ status    = [r \in Requests |-> "absent"]
  /\ scope     = [r \in Requests |-> None]
  /\ expires   = [r \in Requests |-> NoExpiry]
  /\ token     = [r \in Requests |-> NoToken]
  /\ known     = [p \in Procs |-> {}]
  /\ minted    = 0
  /\ now       = 0
  /\ holder    = [r \in Requests |-> NoProc]
  /\ presented = [r \in Requests |-> None]

\* request_action_approval: any expiry may be given, a past one too; no key
\* given is the request's id given (SameKey).
RequestApproval(r, s, e) ==
  /\ status[r] = "absent"
  /\ status'  = [status EXCEPT ![r] = "pending"]
  /\ scope'   = [scope EXCEPT ![r] = s]
  /\ expires' = [expires EXCEPT ![r] = e]
  /\ UNCHANGED <<token, known, minted, now, holder, presented>>

\* Mutant: approving again what was already used.
ApproveAgain(r) ==
  /\ status[r] \notin {"absent", "approved"}
  /\ status' = [status EXCEPT ![r] = "approved"]
  /\ UNCHANGED <<scope, expires, token, known, minted, now, holder, presented>>

\* approve_action_request: the expiry is not looked at here.
Approve(r) ==
  /\ status[r] = "pending"
  /\ status' = [status EXCEPT ![r] = "approved"]
  /\ UNCHANGED <<scope, expires, token, known, minted, now, holder, presented>>

\* Mutant: the token counter is not advanced.
ReserveSameToken(p, r, c) ==
  /\ status[r] = "approved" /\ ScopeFits(scope[r], c) /\ ~Expired(r)
  /\ status' = [status EXCEPT ![r] = "reserved"]
  /\ token'  = [token EXCEPT ![r] = minted + 1]
  /\ known'  = [known EXCEPT ![p] = @ \cup {minted + 1}]
  /\ holder' = [holder EXCEPT ![r] = p]
  /\ presented' = [presented EXCEPT ![r] = c]
  /\ UNCHANGED <<scope, expires, minted, now>>

\* Mutant: a request already reserved is handed out with its token.
ReserveHandsOut(p, r, c) ==
  /\ status[r] \in {"approved", "reserved"}
  /\ ScopeFits(scope[r], c)
  /\ ~Expired(r)
  /\ status' = [status EXCEPT ![r] = "reserved"]
  /\ minted' = IF status[r] = "reserved" THEN minted ELSE minted + 1
  /\ token'  = [token EXCEPT ![r] = IF status[r] = "reserved" THEN @ ELSE minted + 1]
  /\ known'  = [known EXCEPT ![p] = @ \cup {IF status[r] = "reserved" THEN token[r] ELSE minted + 1}]
  /\ holder' = [holder EXCEPT ![r] = IF status[r] = "reserved" THEN @ ELSE p]
  /\ presented' = [presented EXCEPT ![r] = IF status[r] = "reserved" THEN @ ELSE c]
  /\ UNCHANGED <<scope, expires, now>>

\* reserve_action_approval: a new token goes into the file and to the caller.
\* A caller that presents the token of a reserved request gets the request
\* back and nothing changes.
Reserve(p, r, c) ==
  /\ status[r] = "approved"
  /\ ScopeFits(scope[r], c)
  /\ ~Expired(r)
  /\ status' = [status EXCEPT ![r] = "reserved"]
  /\ minted' = minted + 1
  /\ token'  = [token EXCEPT ![r] = minted + 1]
  /\ known'  = [known EXCEPT ![p] = @ \cup {minted + 1}]
  /\ holder' = [holder EXCEPT ![r] = p]
  /\ presented' = [presented EXCEPT ![r] = c]
  /\ UNCHANGED <<scope, expires, now>>

\* Mutant: the token of a reservation is not asked for.
MayConsumeTokenless(p, r, c) ==
  status[r] \in {"approved", "reserved"} /\ ScopeFits(scope[r], c) /\ ~Expired(r)

\* Mutant: the expiry is checked only at the reservation.
MayConsumeExpired(p, r, c) ==
  /\ status[r] \in {"approved", "reserved"}
  /\ ScopeFits(scope[r], c)
  /\ status[r] = "reserved" => HasToken(p, r)

\* consume_action_approval: straight from approved, or from reserved with
\* the token.  The scope and the expiry are checked again in both cases.
MayConsume(p, r, c) ==
  /\ status[r] \in {"approved", "reserved"}
  /\ ScopeFits(scope[r], c)
  /\ ~Expired(r)
  /\ status[r] = "reserved" => HasToken(p, r)

Consume(p, r, c) ==
  /\ MayConsume(p, r, c)
  /\ status' = [status EXCEPT ![r] = "consumed"]
  /\ holder' = [holder EXCEPT ![r] = IF status[r] = "approved" THEN p ELSE @]
  /\ presented' = [presented EXCEPT ![r] = IF status[r] = "approved" THEN c ELSE @]
  /\ UNCHANGED <<scope, expires, token, known, minted, now>>

\* mark_approval_unknown_outcome: with an action and a target the scope and
\* the expiry are checked too; browser_operator.py calls it without them.
MayMarkUnknown(p, r, c) ==
  /\ status[r] = "reserved"
  /\ HasToken(p, r)
  /\ c # None => ScopeFits(scope[r], [c EXCEPT !.user = None, !.account = None,
                                               !.connector = None, !.key = None]) /\ ~Expired(r)

MarkUnknown(p, r, c) ==
  /\ MayMarkUnknown(p, r, c)
  /\ status' = [status EXCEPT ![r] = "unknown_outcome"]
  /\ UNCHANGED <<scope, expires, token, known, minted, now, holder, presented>>

\* A process dies: its tokens were only in memory, its reservations stay.
Crash(p) ==
  /\ known[p] # {}
  /\ known' = [known EXCEPT ![p] = {}]
  /\ UNCHANGED <<status, scope, expires, token, minted, now, holder, presented>>

Tick ==
  /\ now < MaxTime
  /\ now' = now + 1
  /\ UNCHANGED queueVars

Next ==
  \/ \E r \in Requests, s \in Scopes, e \in Expiries : RequestApproval(r, s, e)
  \/ \E r \in Requests : Approve(r)
  \/ \E p \in Procs, r \in Requests, c \in Scopes : Reserve(p, r, c)
  \/ \E p \in Procs, r \in Requests, c \in Scopes : Consume(p, r, c)
  \/ \E p \in Procs, r \in Requests, c \in Scopes \cup {None} : MarkUnknown(p, r, c)
  \/ \E p \in Procs : Crash(p)
  \/ Tick

Spec == Init /\ [][Next]_vars

-----------------------------------------------------------------------------
(* Properties.                                                             *)

\* A reservation token has one reader: the process the reservation was made
\* for, as long as it lives.  Whoever settles a reserved request shows the
\* token, so this is what keeps one process from settling another's action
\* (reserve_action_approval, consume_action_approval).
TokenIsPrivate ==
  \A r \in Requests, p \in Procs : HasToken(p, r) => p = holder[r]

\* A reserved request is settled, as consumed or as unknown_outcome, only in
\* a state where the process it is reserved for is alive with its token: a
\* crash leaves the request reserved for good, never released to another.
HolderSettles ==
  [][\A r \in Requests :
       status[r] = "reserved" /\ status'[r] # "reserved"
         => /\ status'[r] \in {"consumed", "unknown_outcome"}
            /\ holder[r] \in Procs /\ HasToken(holder[r], r)]_vars

\* Whoever got a sensitive request's authority asked for exactly what the
\* human saw: same action, same target after redaction, same effective user,
\* account and connector, and an action outside the system names both.
GrantIsExact ==
  \A r \in Requests :
    LET q == scope[r]  c == presented[r] IN
    status[r] \in Used /\ q.action \in SensitiveActions /\ q.target # EmptyTarget
      => /\ <<q.action, Canon[q.target], q.user, q.account, q.connector>>
              = <<c.action, Canon[c.target], EffectiveUser(c), c.account, c.connector>>
         /\ q.action \in ExternalActions => None \notin {c.account, c.connector}

\* Nobody gains authority from a request that has expired, or on the strength
\* of an expiry that has changed since the human saw it.
NoExpiredGrant ==
  [][\A r \in Requests :
       /\ status[r] \notin Used /\ status'[r] \in Used => now < expires[r]
       /\ status[r] # "absent" => expires'[r] = expires[r] /\ scope'[r] = scope[r]]_vars

\* The queue as the abstract one-time right.
Right ==
  [r \in Requests |->
     CASE status[r] = "absent"   -> "none"
       [] status[r] = "pending"  -> "asked"
       [] status[r] = "approved" -> "granted"
       [] OTHER                  -> "used"]

Abstract == INSTANCE OneTimeApproval WITH right <- Right, user <- holder

\* Every behaviour of the queue is one of the abstract one-time right: used
\* once, after the human's grant, by one process, through crashes, expiry and
\* races between reserve and consume.
ImplementsOneTimeApproval == Abstract!Spec
==============================================================================
