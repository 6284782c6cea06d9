------------------------ MODULE BrowserOperatorProofs ------------------------
(***************************************************************************)
(* What the browser operator guarantees for any accounts, keys, approvals  *)
(* and processes, visiting, pausing for a human or reconciling.            *)
(*                                                                         *)
(* Three invariants, each on top of the one before: who is in which        *)
(* profile (PageInv), which reservation of the ledger a visit works under  *)
(* (VisitInv, with the ledger's own IInv), and which approval its action   *)
(* was done under (ActsInv).                                               *)
(***************************************************************************)
EXTENDS BrowserOperator, IdempotencyLedgerProofs

Visit == [at : VisitStages, key : Keys \cup {None}, account : Accounts \cup {None},
          app : Requests \cup {None}]

\* Every variable of the browser keeps its type, and a visit its key, its account and, where the
\* action is sensitive, its approval.
BrowserTypeOK ==
  /\ sensitive \in SUBSET {k \in Keys : AccountOf[k] # None}
  /\ visit \in [Procs -> Visit]
  /\ profile \in [Accounts -> Procs \cup {NoProc}]
  /\ takeover \in [Accounts -> TakeoverStates]
  /\ signal \in [Accounts -> BOOLEAN]
  /\ orphaned \subseteq Accounts

Visiting == Inside \cup {"waiting"}
Holding  == Inside \cup {"paused"}

VisitsWellFormed ==
  \A p \in Procs :
    /\ visit[p].at \in Visiting =>
         /\ visit[p].key \in Keys /\ visit[p].account = AccountOf[visit[p].key]
         /\ visit[p].key \in sensitive => visit[p].app # None
    /\ visit[p].at = "paused" => visit[p].account \in Accounts

\* The flock is with the process that is inside, or paused.
ProfileHeld ==
  \A p \in Procs, c \in Accounts :
    profile[c] = p <=> visit[p].at \in Holding /\ visit[p].account = c

\* A takeover that is told to be active has its process, unless that died.
TakeoverHeld ==
  \A c \in Accounts : takeover[c] = "active" /\ signal[c] =>
    c \in orphaned \/ \E p \in Procs : visit[p].at = "paused" /\ visit[p].account = c

PageInv == BrowserTypeOK /\ VisitsWellFormed /\ ProfileHeld /\ TakeoverHeld

BrowserStep == [BrowserNext \/ Reconciling]_<<vars, browserVars>>

-----------------------------------------------------------------------------
(* Profiles and takeovers.                                                 *)

LEMMA NoVisitIsVisit == NoVisit \in Visit /\ NoVisit.at = "idle"
  BY DEF NoVisit, Visit, VisitStages

LEMMA InitPage == BrowserInit => PageInv
<1> SUFFICES ASSUME BrowserInit PROVE PageInv
  OBVIOUS
<1>1. BrowserTypeOK
  BY NoVisitIsVisit DEF BrowserInit, BrowserTypeOK, TakeoverStates
<1>2. VisitsWellFormed
  BY NoVisitIsVisit DEF BrowserInit, VisitsWellFormed, Visiting, Inside
<1>3. ProfileHeld
  BY NoVisitIsVisit, BrowserAssumption DEF BrowserInit, ProfileHeld, Holding, Inside
<1>4. TakeoverHeld
  BY DEF BrowserInit, TakeoverHeld
<1>5. QED
  BY <1>1, <1>2, <1>3, <1>4 DEF PageInv

\* A process moves on within its visit.
LEMMA MovedOn ==
  ASSUME PageInv, NEW p \in Procs, NEW stage \in VisitStages, To(p, stage)
  PROVE  /\ visit' \in [Procs -> Visit]
         /\ visit'[p].at = stage /\ visit'[p].key = visit[p].key
         /\ visit'[p].account = visit[p].account /\ visit'[p].app = visit[p].app
         /\ \A q \in Procs : q # p => visit'[q] = visit[q]
  BY DEF PageInv, BrowserTypeOK, Visit, To

LEMMA MoveKeepsPage ==
  ASSUME PageInv, NEW p \in Procs, NEW stage \in Inside, visit[p].at \in Inside, To(p, stage),
         UNCHANGED <<sensitive, profile, pageVars>>
  PROVE  PageInv'
<1>1. stage \in VisitStages /\ stage # "paused" /\ visit[p].at # "paused"
  BY DEF VisitStages, Inside
<1>2. /\ visit' \in [Procs -> Visit]
      /\ visit'[p].at = stage /\ visit'[p].key = visit[p].key
      /\ visit'[p].account = visit[p].account /\ visit'[p].app = visit[p].app
      /\ \A q \in Procs : q # p => visit'[q] = visit[q]
  BY <1>1, MovedOn
<1>3. BrowserTypeOK'
  BY <1>2 DEF PageInv, BrowserTypeOK, pageVars
<1>4. VisitsWellFormed'
  BY <1>1, <1>2 DEF PageInv, VisitsWellFormed, Visiting
<1>5. ProfileHeld'
  BY <1>1, <1>2 DEF PageInv, ProfileHeld, Holding
<1>6. TakeoverHeld'
  BY <1>1, <1>2 DEF PageInv, TakeoverHeld, pageVars
<1>7. QED
  BY <1>3, <1>4, <1>5, <1>6 DEF PageInv

LEMMA AskKeepsPage ==
  ASSUME PageInv, NEW p \in Procs, NEW k \in Keys, NEW a \in Requests \cup {None}, Asks(p, k, a)
  PROVE  PageInv'
<1> DEFINE v == [at |-> "waiting", key |-> k, account |-> AccountOf[k], app |-> a]
<1>1. /\ v \in Visit /\ v.at = "waiting" /\ v.key = k /\ v.account = AccountOf[k] /\ v.app = a
  BY BrowserAssumption DEF Visit, VisitStages
<1>2. /\ visit[p].at = "idle" /\ (k \in sensitive => a # None)
      /\ visit' = [visit EXCEPT ![p] = v]
      /\ UNCHANGED <<sensitive, profile, pageVars>>
  BY DEF Asks
<1> HIDE DEF v
<1>3. visit'[p] = v /\ \A q \in Procs : q # p => visit'[q] = visit[q]
  BY <1>2 DEF PageInv, BrowserTypeOK
<1>4. BrowserTypeOK'
  BY <1>1, <1>2 DEF PageInv, BrowserTypeOK, pageVars
<1>5. VisitsWellFormed'
  BY <1>1, <1>2, <1>3 DEF PageInv, VisitsWellFormed
<1>6. ProfileHeld'
  BY <1>1, <1>2, <1>3 DEF PageInv, ProfileHeld, Holding, Inside
<1>7. TakeoverHeld'
  BY <1>2, <1>3 DEF PageInv, TakeoverHeld, pageVars
<1>8. QED
  BY <1>4, <1>5, <1>6, <1>7 DEF PageInv

LEMMA OpenKeepsPage ==
  ASSUME PageInv, NEW p \in Procs, OpenProfile(p)
  PROVE  PageInv'
<1> DEFINE c == visit[p].account
<1>1. /\ visit[p].at = "waiting" /\ (c = None \/ profile[c] = NoProc)
      /\ profile' = IF c = None THEN profile ELSE [profile EXCEPT ![c] = p]
      /\ To(p, "open") /\ UNCHANGED <<sensitive, pageVars>>
  BY DEF OpenProfile, MayEnter, Enter
<1>2. /\ visit' \in [Procs -> Visit]
      /\ visit'[p].at = "open" /\ visit'[p].key = visit[p].key
      /\ visit'[p].account = visit[p].account /\ visit'[p].app = visit[p].app
      /\ \A q \in Procs : q # p => visit'[q] = visit[q]
  BY <1>1, MovedOn DEF VisitStages, Inside
<1>3. c \in Accounts \cup {None}
  BY DEF PageInv, BrowserTypeOK, Visit
<1>4. BrowserTypeOK'
  BY <1>1, <1>2, <1>3 DEF PageInv, BrowserTypeOK, pageVars
<1>5. VisitsWellFormed'
  BY <1>1, <1>2 DEF PageInv, VisitsWellFormed, Visiting, Inside
<1>6. ProfileHeld'
  <2> SUFFICES ASSUME NEW q \in Procs, NEW d \in Accounts
               PROVE  profile'[d] = q <=> visit'[q].at \in Holding /\ visit'[q].account = d
    BY DEF ProfileHeld
  <2>0. profile[d] = q <=> visit[q].at \in Holding /\ visit[q].account = d
    BY DEF PageInv, ProfileHeld
  <2>1. CASE d = c
    <3>1. profile'[d] = p /\ profile[d] = NoProc
      BY <2>1, <1>1, BrowserAssumption DEF PageInv, BrowserTypeOK
    <3>2. QED
      BY <3>1, <2>0, <2>1, <1>2, BrowserAssumption DEF Holding, Inside
  <2>2. CASE d # c
    <3>1. profile'[d] = profile[d]
      BY <2>2, <1>1 DEF PageInv, BrowserTypeOK
    <3>2. CASE q = p
      BY <3>1, <3>2, <2>0, <2>2, <1>1, <1>2 DEF Holding, Inside
    <3>3. CASE q # p
      BY <3>1, <3>3, <2>0, <1>2
    <3>4. QED
      BY <3>2, <3>3
  <2>3. QED
    BY <2>1, <2>2
<1>7. TakeoverHeld'
  BY <1>1, <1>2 DEF PageInv, TakeoverHeld, pageVars
<1>8. QED
  BY <1>4, <1>5, <1>6, <1>7 DEF PageInv

\* The end of a visit, or of a takeover: the profile is released.
LEMMA EndedVisit ==
  ASSUME PageInv, NEW p \in Procs, EndVisit(p)
  PROVE  /\ visit' \in [Procs -> Visit] /\ visit'[p] = NoVisit
         /\ \A q \in Procs : q # p => visit'[q] = visit[q]
         /\ profile' \in [Accounts -> Procs \cup {NoProc}]
         /\ \A q \in Procs, c \in Accounts :
              profile'[c] = q <=> visit'[q].at \in Holding /\ visit'[q].account = c
<1>1. /\ visit' = [visit EXCEPT ![p] = NoVisit]
      /\ profile' = [c \in Accounts |-> IF profile[c] = p THEN NoProc ELSE profile[c]]
  BY DEF EndVisit, Exit
<1>2. /\ visit' \in [Procs -> Visit] /\ visit'[p] = NoVisit
      /\ \A q \in Procs : q # p => visit'[q] = visit[q]
  BY <1>1, NoVisitIsVisit DEF PageInv, BrowserTypeOK
<1>3. profile' \in [Accounts -> Procs \cup {NoProc}]
  BY <1>1 DEF PageInv, BrowserTypeOK
<1>4. ASSUME NEW q \in Procs, NEW c \in Accounts
      PROVE  profile'[c] = q <=> visit'[q].at \in Holding /\ visit'[q].account = c
  <2>1. profile[c] = q <=> visit[q].at \in Holding /\ visit[q].account = c
    BY DEF PageInv, ProfileHeld
  <2>2. profile'[c] = IF profile[c] = p THEN NoProc ELSE profile[c]
    BY <1>1
  <2>3. CASE q = p
    BY <2>2, <2>3, <1>2, NoVisitIsVisit, BrowserAssumption DEF Holding, Inside
  <2>4. CASE q # p
    BY <2>1, <2>2, <2>4, <1>2, BrowserAssumption
  <2>5. QED
    BY <2>3, <2>4
<1>5. QED
  BY <1>2, <1>3, <1>4

LEMMA EndKeepsPage ==
  ASSUME PageInv, NEW p \in Procs, EndVisit(p), UNCHANGED sensitive,
         takeover' \in [Accounts -> TakeoverStates], signal' \in [Accounts -> BOOLEAN],
         orphaned \subseteq orphaned', orphaned' \subseteq Accounts,
         \A c \in Accounts : takeover'[c] = "active" /\ signal'[c] =>
           /\ takeover[c] = "active" /\ signal[c]
           /\ visit[p].at = "paused" /\ visit[p].account = c => c \in orphaned'
  PROVE  PageInv'
<1>1. /\ visit' \in [Procs -> Visit] /\ visit'[p] = NoVisit
      /\ \A q \in Procs : q # p => visit'[q] = visit[q]
      /\ profile' \in [Accounts -> Procs \cup {NoProc}]
  BY EndedVisit
<1>2. ProfileHeld'
  BY EndedVisit DEF ProfileHeld
<1>3. BrowserTypeOK'
  BY <1>1 DEF PageInv, BrowserTypeOK
<1>4. VisitsWellFormed'
  <2> SUFFICES ASSUME NEW q \in Procs
               PROVE  /\ visit'[q].at \in Visiting =>
                           /\ visit'[q].key \in Keys /\ visit'[q].account = AccountOf[visit'[q].key]
                           /\ visit'[q].key \in sensitive' => visit'[q].app # None
                      /\ visit'[q].at = "paused" => visit'[q].account \in Accounts
    BY DEF VisitsWellFormed
  <2>1. CASE q = p
    BY <2>1, <1>1, NoVisitIsVisit DEF Visiting, Inside
  <2>2. CASE q # p
    BY <2>2, <1>1 DEF PageInv, VisitsWellFormed
  <2>3. QED
    BY <2>1, <2>2
<1>5. TakeoverHeld'
  BY <1>1 DEF PageInv, TakeoverHeld
<1>6. QED
  BY <1>2, <1>3, <1>4, <1>5 DEF PageInv

LEMMA PauseKeepsPage ==
  ASSUME PageInv, NEW p \in Procs, NEW c \in Accounts, PauseForTakeover(p, c)
  PROVE  PageInv'
<1> DEFINE v == [NoVisit EXCEPT !.at = "paused", !.account = c]
<1>1. v \in Visit /\ v.at = "paused" /\ v.account = c
  BY DEF NoVisit, Visit, VisitStages
<1>2. /\ visit[p].at = "idle" /\ profile[c] = NoProc
      /\ profile' = [profile EXCEPT ![c] = p] /\ visit' = [visit EXCEPT ![p] = v]
      /\ signal' = [signal EXCEPT ![c] = TRUE] /\ takeover' = [takeover EXCEPT ![c] = "active"]
      /\ orphaned' = orphaned \ {c} /\ sensitive' = sensitive
  BY BrowserAssumption DEF PauseForTakeover, MayEnter, Enter
<1> HIDE DEF v
<1>3. visit'[p] = v /\ \A q \in Procs : q # p => visit'[q] = visit[q]
  BY <1>2 DEF PageInv, BrowserTypeOK
<1>4. BrowserTypeOK'
  BY <1>1, <1>2 DEF PageInv, BrowserTypeOK, TakeoverStates
<1>5. VisitsWellFormed'
  BY <1>1, <1>2, <1>3 DEF PageInv, VisitsWellFormed, Visiting, Inside
<1>6. ProfileHeld'
  <2> SUFFICES ASSUME NEW q \in Procs, NEW d \in Accounts
               PROVE  profile'[d] = q <=> visit'[q].at \in Holding /\ visit'[q].account = d
    BY DEF ProfileHeld
  <2>0. profile[d] = q <=> visit[q].at \in Holding /\ visit[q].account = d
    BY DEF PageInv, ProfileHeld
  <2>1. CASE d = c
    <3>1. profile'[d] = p /\ profile[d] = NoProc
      BY <2>1, <1>2 DEF PageInv, BrowserTypeOK
    <3>2. QED
      BY <3>1, <2>0, <2>1, <1>1, <1>3, BrowserAssumption DEF Holding, Inside
  <2>2. CASE d # c
    <3>1. profile'[d] = profile[d]
      BY <2>2, <1>2 DEF PageInv, BrowserTypeOK
    <3>2. QED
      BY <3>1, <2>0, <2>2, <1>1, <1>2, <1>3 DEF Holding, Inside
  <2>3. QED
    BY <2>1, <2>2
<1>7. TakeoverHeld'
  BY <1>1, <1>2, <1>3 DEF PageInv, BrowserTypeOK, TakeoverHeld
<1>8. QED
  BY <1>4, <1>5, <1>6, <1>7 DEF PageInv

LEMMA EndTakeoverKeepsPage ==
  ASSUME PageInv, NEW c \in Accounts, NEW outcome \in {"resumed", "cancelled"}, EndTakeover(c, outcome)
  PROVE  PageInv'
<1>1. /\ signal' = [signal EXCEPT ![c] = FALSE]
      /\ takeover' = [takeover EXCEPT ![c] = IF takeover[c] = "inactive" THEN takeover[c] ELSE outcome]
      /\ UNCHANGED <<sensitive, visit, profile, orphaned>>
  BY DEF EndTakeover, PageInv, BrowserTypeOK
<1>2. takeover' \in [Accounts -> TakeoverStates] /\ signal' \in [Accounts -> BOOLEAN]
  BY <1>1 DEF PageInv, BrowserTypeOK, TakeoverStates
<1>3. \A d \in Accounts : d # c => takeover'[d] = takeover[d] /\ signal'[d] = signal[d]
  BY <1>1 DEF PageInv, BrowserTypeOK
<1>4. ~signal'[c]
  BY <1>1 DEF PageInv, BrowserTypeOK
<1>5. QED
  BY <1>1, <1>2, <1>3, <1>4 DEF PageInv, BrowserTypeOK, VisitsWellFormed, ProfileHeld, TakeoverHeld

LEMMA LeaveTakeoverKeepsPage ==
  ASSUME PageInv, NEW p \in Procs, LeaveTakeover(p)
  PROVE  PageInv'
<1> PICK c : c = visit[p].account
  OBVIOUS
<1>1. /\ visit[p].at = "paused" /\ EndVisit(p) /\ c \in Accounts
      /\ takeover' = [takeover EXCEPT ![c] = IF signal[c] THEN "cancelled_timeout" ELSE "resumed"]
      /\ signal' = [signal EXCEPT ![c] = FALSE]
      /\ UNCHANGED <<sensitive, orphaned>>
  BY DEF LeaveTakeover, PageInv, VisitsWellFormed
<1>2. takeover' \in [Accounts -> TakeoverStates] /\ signal' \in [Accounts -> BOOLEAN]
  BY <1>1 DEF PageInv, BrowserTypeOK, TakeoverStates
<1>3. ~signal'[c] /\ \A d \in Accounts : d # c => takeover'[d] = takeover[d] /\ signal'[d] = signal[d]
  BY <1>1 DEF PageInv, BrowserTypeOK
<1>4. orphaned \subseteq orphaned' /\ orphaned' \subseteq Accounts
  BY <1>1 DEF PageInv, BrowserTypeOK
<1>5. QED
  BY <1>1, <1>2, <1>3, <1>4, EndKeepsPage

LEMMA CrashKeepsPage ==
  ASSUME PageInv, NEW p \in Procs, CrashVisit(p)
  PROVE  PageInv'
<1>1. /\ EndVisit(p) /\ UNCHANGED <<sensitive, takeover, signal>>
      /\ orphaned' = IF visit[p].at = "paused" THEN orphaned \cup {visit[p].account} ELSE orphaned
  BY DEF CrashVisit
<1>2. orphaned \subseteq orphaned' /\ orphaned' \subseteq Accounts
  BY <1>1 DEF PageInv, BrowserTypeOK, VisitsWellFormed
<1>3. \A c \in Accounts : visit[p].at = "paused" /\ visit[p].account = c => c \in orphaned'
  BY <1>1
<1>4. takeover' \in [Accounts -> TakeoverStates] /\ signal' \in [Accounts -> BOOLEAN]
  BY <1>1 DEF PageInv, BrowserTypeOK
<1>5. QED
  BY <1>1, <1>2, <1>3, <1>4, EndKeepsPage

\* The visits end in one of these ways with the takeover left alone.
LEMMA QuietEndKeepsPage ==
  ASSUME PageInv, NEW p \in Procs, visit[p].at # "paused", EndVisit(p), UNCHANGED <<sensitive, pageVars>>
  PROVE  PageInv'
<1>1. /\ takeover' \in [Accounts -> TakeoverStates] /\ signal' \in [Accounts -> BOOLEAN]
      /\ orphaned \subseteq orphaned' /\ orphaned' \subseteq Accounts
      /\ takeover' = takeover /\ signal' = signal
  BY DEF PageInv, BrowserTypeOK, pageVars
<1>2. QED
  BY <1>1, EndKeepsPage

LEMMA StepPage == PageInv /\ BrowserStep => PageInv'
<1> SUFFICES ASSUME PageInv, BrowserStep PROVE PageInv'
  OBVIOUS
<1>1. ASSUME NEW p \in Procs, NEW k \in Keys, NEW a \in Requests \cup {None},
             BeginVisit(p, k, a) \/ BeginAgain(p, k, a)
      PROVE  PageInv'
  BY <1>1, AskKeepsPage DEF BeginVisit, BeginAgain
<1>2. ASSUME UNCHANGED browserVars PROVE PageInv'
  BY <1>2 DEF browserVars, pageVars, PageInv, BrowserTypeOK, VisitsWellFormed, ProfileHeld, TakeoverHeld
<1>3. ASSUME NEW p \in Procs, OpenProfile(p) PROVE PageInv'
  BY <1>3, OpenKeepsPage
<1>4. ASSUME NEW p \in Procs, ProfileBusy(p) PROVE PageInv'
  BY <1>4, QuietEndKeepsPage DEF ProfileBusy
<1>5. ASSUME NEW p \in Procs, FailPreflight(p) PROVE PageInv'
  BY <1>5, QuietEndKeepsPage DEF FailPreflight, Unstarted
<1>6. ASSUME NEW p \in Procs, CompleteVisit(p) PROVE PageInv'
  BY <1>6, QuietEndKeepsPage DEF CompleteVisit
<1>7. ASSUME NEW p \in Procs, FailLedger(p) PROVE PageInv'
  BY <1>7, QuietEndKeepsPage DEF FailLedger
<1>8. ASSUME NEW p \in Procs, Start(p) PROVE PageInv'
  BY <1>8, MoveKeepsPage DEF Start, Inside
<1>9. ASSUME NEW p \in Procs, DoAct(p) PROVE PageInv'
  BY <1>9, MoveKeepsPage DEF DoAct, Inside
<1>10. ASSUME NEW p \in Procs, ConsumeVisit(p) PROVE PageInv'
  BY <1>10, MoveKeepsPage DEF ConsumeVisit, Inside
<1>11. ASSUME NEW p \in Procs, FailVisit(p) PROVE PageInv'
  BY <1>11, MoveKeepsPage DEF FailVisit, Inside
<1>12. ASSUME NEW p \in Procs, CrashVisit(p) PROVE PageInv'
  BY <1>12, CrashKeepsPage
<1>13. ASSUME NEW p \in Procs, LeaveTakeover(p) PROVE PageInv'
  BY <1>13, LeaveTakeoverKeepsPage
<1>14. ASSUME NEW p \in Procs, NEW c \in Accounts, PauseForTakeover(p, c) PROVE PageInv'
  BY <1>14, PauseKeepsPage
<1>15. ASSUME NEW c \in Accounts, NEW o \in {"resumed", "cancelled"}, EndTakeover(c, o) PROVE PageInv'
  BY <1>15, EndTakeoverKeepsPage
<1>16. CASE BrowserNext
  BY <1>16, <1>1, <1>2, <1>3, <1>4, <1>5, <1>6, <1>7, <1>8, <1>9, <1>10, <1>11, <1>12, <1>13,
     <1>14, <1>15 DEF BrowserNext, BeginRefused, BrowserTick
<1>17. CASE Reconciling
  BY <1>17, <1>2 DEF Reconciling
<1>18. CASE UNCHANGED <<vars, browserVars>>
  BY <1>18, <1>2
<1>19. QED
  BY <1>16, <1>17, <1>18 DEF BrowserStep

\* Whoever shares an account with a process inside is that process.
LEMMA PageExclusive == PageInv => TakeoverIsExclusive
<1> SUFFICES ASSUME PageInv, NEW p \in Procs, visit[p].at \in Inside, visit[p].account # None
             PROVE  LET c == visit[p].account IN
                    /\ TakeoverStatus(c) = "active" => c \in orphaned
                    /\ \A q \in Procs \ {p} : visit[q].at \in Inside \cup {"paused"} => visit[q].account # c
  BY DEF TakeoverIsExclusive
<1> PICK c : c = visit[p].account
  OBVIOUS
<1>1. c \in Accounts
  BY DEF PageInv, BrowserTypeOK, Visit
<1>2. profile[c] = p
  BY <1>1 DEF PageInv, ProfileHeld, Holding
<1>3. ASSUME NEW q \in Procs, q # p, visit[q].at \in Holding PROVE visit[q].account # c
  BY <1>1, <1>2, <1>3 DEF PageInv, ProfileHeld
<1>4. ASSUME TakeoverStatus(c) = "active" PROVE c \in orphaned
  <2>1. takeover[c] = "active" /\ signal[c]
    BY <1>1, <1>4 DEF TakeoverStatus, PageInv, BrowserTypeOK
  <2>2. visit[p].at # "paused"
    BY DEF Inside
  <2>3. \A q \in Procs : ~(visit[q].at = "paused" /\ visit[q].account = c)
    BY <2>2, <1>3 DEF Holding
  <2>4. QED
    BY <2>1, <2>3, <1>1 DEF PageInv, TakeoverHeld
<1>5. QED
  BY <1>3, <1>4 DEF Holding

\* Every variable of the browser keeps its type (accounts.py, browser_operator.py).
THEOREM BrowserTypeCorrect == BrowserSpec => []BrowserTypeOK
<1>1. BrowserInit => PageInv
  BY InitPage
<1>2. PageInv /\ [BrowserNext \/ Reconciling]_<<vars, browserVars>> => PageInv'
  BY StepPage DEF BrowserStep
<1>3. PageInv => BrowserTypeOK
  BY DEF PageInv
<1>4. QED
  BY <1>1, <1>2, <1>3, PTL DEF BrowserSpec

\* However visits, takeovers and crashes mix, nothing automated is inside a profile a live human
\* takeover holds, and no two actions are inside one.
THEOREM TakeoversExclude == BrowserSpec => []TakeoverIsExclusive
<1>1. BrowserInit => PageInv
  BY InitPage
<1>2. PageInv /\ [BrowserNext \/ Reconciling]_<<vars, browserVars>> => PageInv'
  BY StepPage DEF BrowserStep
<1>3. QED
  BY <1>1, <1>2, PageExclusive, PTL DEF BrowserSpec

-----------------------------------------------------------------------------
(* Visits and the ledger.                                                  *)

\* The process that owns a reservation is on its visit, and has not acted before it does.
VisitOwns ==
  \A p \in Procs :
    /\ op[p].at = "owner" => visit[p].at \in Visiting /\ op[p].key = visit[p].key
    /\ visit[p].at # "idle" => op[p].at \in {"idle", "owner"}
    /\ op[p].at = "owner" /\ visit[p].at \in {"waiting", "open", "started"} => ~op[p].acted

UnactedOwner ==
  \A p \in Procs : op[p].at = "owner" /\ ~op[p].acted => op[p].tok \notin effects[op[p].key]

\* Nobody can act any more under the token of a key given back.
AbortedTokens ==
  \A k \in Keys : entry[k].st = "preflight_aborted" =>
    \A p \in Procs : op[p].at = "owner" /\ op[p].key = k => op[p].tok # entry[k].tok

AbortInv == UnactedOwner /\ AbortedTokens /\ AbortedDidNothing

VisitInv == IInv /\ PageInv /\ VisitOwns /\ AbortInv

LEMMA RecoveredAborted ==
  ASSUME IInv, NEW k \in Keys, Recovered[k].st = "preflight_aborted"
  PROVE  entry[k].st = "preflight_aborted" /\ entry[k].tok = Recovered[k].tok
<1>1. CASE k \in ToSettle
  <2>1. entry[k].res \in Resolutions
    BY <1>1 DEF ToSettle, Recording, IInv, RecordWellFormed
  <2>2. QED
    BY <1>1, <2>1, RecoveredEntry, OutcomeType DEF Reconciled
<1>2. CASE k \in ToRollBack
  BY <1>2, RecoveredEntry
<1>3. QED
  BY <1>1, <1>2, RecoveredEntry DEF ToRollBack

\* Nobody acts, and no key is given back.
LEMMA QuietAbort ==
  ASSUME AbortInv, effects' = effects,
         \A k \in Keys : entry'[k].st = "preflight_aborted" =>
           entry[k].st = "preflight_aborted" /\ entry'[k].tok = entry[k].tok,
         \A q \in Procs : op'[q].at = "owner" => op'[q] = op[q]
  PROVE  AbortInv'
  BY DEF AbortInv, UnactedOwner, AbortedTokens, AbortedDidNothing

LEMMA ReserveKeepsAbort ==
  ASSUME IInv, AbortInv, NEW p \in Procs, NEW k \in Keys, Reserve(p, k)
  PROVE  AbortInv'
<1> DEFINE fresh == NewOp("owner", k, drawn + 1, None, None)
           e     == NewEntry("reserved", drawn + 1, now, FALSE)
<1>1. fresh.at = "owner" /\ fresh.key = k /\ fresh.tok = drawn + 1 /\ e.st = "reserved"
  BY DEF NewOp, NewEntry
<1>2. /\ entry' = [Recovered EXCEPT ![k] = e] /\ op' = [op EXCEPT ![p] = fresh]
      /\ effects' = effects
  BY DEF Reserve
<1> HIDE DEF fresh, e
<1>3. op'[p] = fresh /\ \A q \in Procs : q # p => op'[q] = op[q]
  BY <1>2 DEF IInv, TypeOK
<1>4. ASSUME NEW j \in Keys, entry'[j].st = "preflight_aborted"
      PROVE  entry[j].st = "preflight_aborted" /\ entry'[j].tok = entry[j].tok
  <2>1. j # k /\ entry'[j] = Recovered[j]
    BY <1>1, <1>2, <1>4, RecoveredType
  <2>2. QED
    BY <1>4, <2>1, RecoveredAborted
<1>5. drawn \in Nat /\ \A j \in Keys : drawn + 1 \notin effects[j]
  BY DEF IInv, TypeOK
<1>6. \A j \in Keys : entry[j].tok \in Nat /\ entry[j].tok <= drawn
  BY <1>5 DEF IInv, EntryTokens
<1>7. UnactedOwner'
  BY <1>1, <1>2, <1>3, <1>5 DEF AbortInv, UnactedOwner
<1>8. AbortedTokens'
  <2> SUFFICES ASSUME NEW j \in Keys, entry'[j].st = "preflight_aborted", NEW q \in Procs,
                      op'[q].at = "owner", op'[q].key = j
               PROVE  op'[q].tok # entry'[j].tok
    BY DEF AbortedTokens
  <2>1. CASE q = p
    BY <2>1, <1>1, <1>3, <1>4, <1>5, <1>6
  <2>2. CASE q # p
    BY <2>2, <1>3, <1>4 DEF AbortInv, AbortedTokens
  <2>3. QED
    BY <2>1, <2>2
<1>9. AbortedDidNothing'
  BY <1>2, <1>4 DEF AbortInv, AbortedDidNothing
<1>10. QED
  BY <1>7, <1>8, <1>9 DEF AbortInv

LEMMA ActKeepsAbort ==
  ASSUME IInv, AbortInv, NEW p \in Procs, Act(p)
  PROVE  AbortInv'
<1> PICK k, t : k = op[p].key /\ t = op[p].tok
  OBVIOUS
<1>1. /\ op[p].at = "owner" /\ k \in Keys
      /\ op' = [op EXCEPT ![p].acted = TRUE]
      /\ effects' = [effects EXCEPT ![k] = effects[k] \cup {t}]
      /\ entry' = entry
  BY DEF Act, IInv, TypeOK, OpWellFormed
<1>2. /\ op'[p].acted /\ op'[p].at = "owner" /\ op'[p].key = k /\ op'[p].tok = t
      /\ \A q \in Procs : q # p => op'[q] = op[q]
  BY <1>1 DEF IInv, TypeOK, Op
<1>3. /\ effects'[k] = effects[k] \cup {t}
      /\ \A j \in Keys : j # k => effects'[j] = effects[j]
  BY <1>1 DEF IInv, TypeOK
<1>4. \A q \in Procs : q # p /\ op[q].at = "owner" => op[q].tok # t
  BY <1>1 DEF IInv, OwnersKnown
<1>5. UnactedOwner'
  <2> SUFFICES ASSUME NEW q \in Procs, op'[q].at = "owner", ~op'[q].acted
               PROVE  op'[q].tok \notin effects'[op'[q].key]
    BY DEF UnactedOwner
  <2>1. q # p /\ op'[q] = op[q] /\ op[q].key \in Keys
    BY <1>2 DEF IInv, OpWellFormed
  <2>2. op[q].tok # t /\ op[q].tok \notin effects[op[q].key]
    BY <2>1, <1>4 DEF AbortInv, UnactedOwner
  <2>3. QED
    BY <2>1, <2>2, <1>3
<1>6. AbortedTokens'
  BY <1>1, <1>2 DEF AbortInv, AbortedTokens
<1>7. AbortedDidNothing'
  <2> SUFFICES ASSUME NEW j \in Keys, entry[j].st = "preflight_aborted"
               PROVE  entry[j].tok \notin effects'[j]
    BY <1>1 DEF AbortedDidNothing
  <2>1. entry[j].tok \notin effects[j] /\ (j = k => entry[j].tok # t)
    BY <1>1 DEF AbortInv, AbortedDidNothing, AbortedTokens
  <2>2. QED
    BY <2>1, <1>3
<1>8. QED
  BY <1>5, <1>6, <1>7 DEF AbortInv

\* An owner that has not acted gives its key back.
LEMMA GiveBackKeepsAbort ==
  ASSUME IInv, AbortInv, NEW p \in Procs, ~op[p].acted, GiveBack(p)
  PROVE  AbortInv'
<1> PICK k, t : k = op[p].key /\ t = op[p].tok
  OBVIOUS
<1> DEFINE e == NewEntry("preflight_aborted", t, 0, FALSE)
<1>1. e.tok = t
  BY DEF NewEntry
<1>2. /\ op[p].at = "owner" /\ k \in Keys
      /\ entry' = IF Owns(p, entry) THEN [entry EXCEPT ![k] = e] ELSE entry
      /\ op' = [op EXCEPT ![p] = Idle] /\ effects' = effects
  BY DEF GiveBack, IInv, OpWellFormed
<1> HIDE DEF e
<1>3. op'[p].at = "idle" /\ \A q \in Procs : q # p => op'[q] = op[q]
  BY <1>2 DEF IInv, TypeOK, Idle, NewOp
<1>4. t \notin effects[k] /\ \A q \in Procs : q # p /\ op[q].at = "owner" => op[q].tok # t
  BY <1>2 DEF AbortInv, UnactedOwner, IInv, OwnersKnown
<1>5. \A j \in Keys : entry'[j] = entry[j] \/ (j = k /\ entry'[j] = e)
  BY <1>2 DEF IInv, TypeOK
<1>6. UnactedOwner'
  BY <1>2, <1>3 DEF AbortInv, UnactedOwner
<1>7. AbortedTokens'
  <2> SUFFICES ASSUME NEW j \in Keys, entry'[j].st = "preflight_aborted", NEW q \in Procs,
                      op'[q].at = "owner", op'[q].key = j
               PROVE  op'[q].tok # entry'[j].tok
    BY DEF AbortedTokens
  <2>1. q # p /\ op'[q] = op[q]
    BY <1>3
  <2>2. QED
    BY <2>1, <1>1, <1>4, <1>5 DEF AbortInv, AbortedTokens
<1>8. AbortedDidNothing'
  BY <1>1, <1>2, <1>4, <1>5 DEF AbortInv, AbortedDidNothing
<1>9. QED
  BY <1>6, <1>7, <1>8 DEF AbortInv

\* A recovery, and what complete and mark_unknown do to the entry on top of it.
LEMMA SettleKeepsAbort ==
  ASSUME IInv, AbortInv, NEW p \in Procs, op[p].at = "owner", effects' = effects,
         NEW s \in {"completed", "unknown_outcome"}, NEW t, NEW r,
         entry' = IF Owns(p, Recovered)
                    THEN [Recovered EXCEPT ![op[p].key] = NewEntry(s, t, 0, r)]
                    ELSE Recovered,
         op' = [op EXCEPT ![p] = Idle]
  PROVE  AbortInv'
<1>1. \A q \in Procs : op'[q].at = "owner" => op'[q] = op[q]
  BY Finished
<1>2. ASSUME NEW j \in Keys, entry'[j].st = "preflight_aborted"
      PROVE  entry[j].st = "preflight_aborted" /\ entry'[j].tok = entry[j].tok
  <2> DEFINE e == NewEntry(s, t, 0, r)
  <2>1. e.st # "preflight_aborted"
    BY DEF NewEntry
  <2> HIDE DEF e
  <2>2. entry'[j] = Recovered[j] \/ entry'[j] = e
    BY RecoveredType DEF e
  <2>3. QED
    BY <1>2, <2>1, <2>2, RecoveredAborted
<1>3. QED
  BY <1>1, <1>2, QuietAbort

LEMMA RecoverKeepsAbort ==
  ASSUME IInv, AbortInv, NEW p \in Procs, NEW k \in Keys, ReserveExpired(p, k) \/ Refused(p, k)
  PROVE  AbortInv'
<1>1. UNCHANGED <<op, effects>>
  BY DEF ReserveExpired, Refused
<1>2. ASSUME NEW j \in Keys, entry'[j].st = "preflight_aborted"
      PROVE  entry'[j] = Recovered[j]
  <2>1. CASE Refused(p, k)
    BY <2>1 DEF Refused
  <2>2. CASE ReserveExpired(p, k)
    <3>1. entry' = [Recovered EXCEPT ![k].st = "unknown_outcome"]
      BY <2>2 DEF ReserveExpired
    <3>2. j = k => entry'[j].st = "unknown_outcome"
      BY <3>1, RecoveredType DEF Entry
    <3>3. QED
      BY <3>1, <3>2, <1>2, RecoveredType
  <2>3. QED
    BY <2>1, <2>2
<1>3. QED
  BY <1>1, <1>2, QuietAbort, RecoveredAborted

-----------------------------------------------------------------------------
(* What the queue's calls do, whoever makes them.                          *)

\* An approval that is used stays used, as it was presented; a consumed one stays consumed.
QueueKept ==
  /\ scope' = scope
  /\ \A a \in Requests :
       /\ status[a] \in Q!Used => status'[a] \in Q!Used /\ presented'[a] = presented[a]
       /\ status[a] = "consumed" => status'[a] = "consumed"

LEMMA QueueSame ==
  ASSUME IInv, UNCHANGED queueVars
  PROVE  QueueKept /\ (now' \in 0 .. MaxTime => Q!TypeOK')
  BY DEF IInv, TypeOK, Q!TypeOK, queueVars, QueueKept

LEMMA QueueReserve ==
  ASSUME IInv, NEW p \in Procs, NEW a \in Requests, NEW c \in Scopes, Q!Reserve(p, a, c)
  PROVE  /\ Q!TypeOK' /\ QueueKept
         /\ status[a] = "approved" /\ Q!ScopeFits(scope[a], c)
         /\ status'[a] = "reserved" /\ presented'[a] = c
<1>1. Q!TypeOK
  BY DEF IInv, TypeOK
<1>2. /\ status[a] = "approved" /\ Q!ScopeFits(scope[a], c)
      /\ status' = [status EXCEPT ![a] = "reserved"]
      /\ minted' = minted + 1
      /\ token'  = [token EXCEPT ![a] = minted + 1]
      /\ known'  = [known EXCEPT ![p] = known[p] \cup {minted + 1}]
      /\ holder' = [holder EXCEPT ![a] = p]
      /\ presented' = [presented EXCEPT ![a] = c]
      /\ UNCHANGED <<scope, expires, now>>
  BY <1>1 DEF Q!Reserve, Q!TypeOK
<1>3. \A m \in 0 .. minted : m \in 0 .. minted'
  BY <1>1, <1>2 DEF Q!TypeOK
<1>4. token' \in [Requests -> 0 .. minted'] /\ known' \in [Procs -> SUBSET (1 .. minted')]
  <2>1. minted + 1 \in 0 .. minted' /\ minted + 1 \in 1 .. minted'
    BY <1>1, <1>2 DEF Q!TypeOK
  <2>2. token \in [Requests -> 0 .. minted']
    BY <1>1, <1>3 DEF Q!TypeOK
  <2>3. 1 .. minted \subseteq 1 .. minted'
    BY <1>1, <1>2 DEF Q!TypeOK
  <2>4. known \in [Procs -> SUBSET (1 .. minted')]
    BY <1>1, <2>3 DEF Q!TypeOK
  <2>5. QED
    BY <1>2, <2>1, <2>2, <2>4
<1>5. Q!TypeOK'
  BY <1>1, <1>2, <1>4 DEF Q!TypeOK, Q!Statuses
<1>6. QED
  BY <1>1, <1>2, <1>5 DEF Q!TypeOK, QueueKept, Q!Used

LEMMA QueueConsumed ==
  ASSUME IInv, NEW p \in Procs, NEW a \in Requests, NEW c \in Scopes, Q!Consume(p, a, c)
  PROVE  Q!TypeOK' /\ QueueKept /\ status'[a] = "consumed"
<1>1. Q!TypeOK
  BY DEF IInv, TypeOK
<1>2. QED
  BY <1>1, QueueConsume DEF Q!TypeOK, Q!Consume, QueueKept, Q!Used

LEMMA QueueUnknown ==
  ASSUME IInv, NEW p \in Procs, NEW a \in Requests, Q!MarkUnknown(p, a, None)
  PROVE  Q!TypeOK' /\ QueueKept
<1>1. Q!TypeOK
  BY DEF IInv, TypeOK
<1>2. QED
  BY <1>1 DEF Q!TypeOK, Q!MarkUnknown, Q!MayMarkUnknown, QueueKept, Q!Used, Q!Statuses

-----------------------------------------------------------------------------
(* Every step keeps VisitInv.                                              *)

\* Only the operation and the visit of p change.
LEMMA OwnsMoved ==
  ASSUME VisitOwns, NEW p \in Procs,
         \A q \in Procs : q # p => op'[q] = op[q] /\ visit'[q] = visit[q],
         op'[p].at = "owner" => visit'[p].at \in Visiting /\ op'[p].key = visit'[p].key,
         visit'[p].at # "idle" => op'[p].at \in {"idle", "owner"},
         op'[p].at = "owner" /\ visit'[p].at \in {"waiting", "open", "started"} => ~op'[p].acted
  PROVE  VisitOwns'
  BY DEF VisitOwns

\* The ledger is left alone, the queue perhaps not.
LEMMA QueueOnly ==
  ASSUME IInv, AbortInv, Q!TypeOK', UNCHANGED ledgerVars
  PROVE  IInv' /\ AbortInv'
<1>1. UNCHANGED <<entry, drawn, op, effects, released, spent, settled, disturbed>>
  BY DEF ledgerVars, ghosts
<1>2. IInv'
  BY <1>1, LedgerUntouched DEF IInv, TypeOK, OpWellFormed
<1>3. QED
  BY <1>1, <1>2, QuietAbort

\* A process drops what it has in hand and leaves its visit; its tokens may go with it.
LEMMA DropOp ==
  ASSUME IInv, AbortInv, NEW p \in Procs, op' = [op EXCEPT ![p] = Idle], Q!TypeOK',
         UNCHANGED <<entry, drawn, ghosts>>
  PROVE  IInv' /\ AbortInv'
<1>1. UNCHANGED <<entry, drawn, effects, released, settled, disturbed>> /\ spent' \subseteq Requests \X Keys
  BY DEF ghosts, IInv, TypeOK
<1>2. op' \in [Procs -> Op] /\ OpWellFormed' /\ \A q \in Procs : op'[q].at = "owner" => op'[q] = op[q]
  BY Finished
<1>3. QED
  BY <1>1, <1>2, LedgerUntouched, QuietAbort

\* A visit ends with its operation, or had none.
LEMMA EndOwns ==
  ASSUME PageInv, VisitOwns, NEW p \in Procs, EndVisit(p),
         \A q \in Procs : q # p => op'[q] = op[q],
         op'[p].at # "owner"
  PROVE  VisitOwns'
<1>1. visit'[p] = NoVisit /\ \A q \in Procs : q # p => visit'[q] = visit[q]
  BY EndedVisit
<1>2. QED
  BY <1>1, OwnsMoved, NoVisitIsVisit

\* A process on a visit, or in a takeover, that does not own a key has nothing in hand.
LEMMA EndIdle ==
  ASSUME PageInv, VisitOwns, NEW p \in Procs, EndVisit(p), UNCHANGED op, op[p].at # "owner"
  PROVE  VisitOwns'
  BY EndOwns

LEMMA MoveOwns ==
  ASSUME IInv, PageInv, VisitOwns, NEW p \in Procs, visit[p].at \in Visiting, NEW stage \in Inside,
         To(p, stage), UNCHANGED op, stage = "started" => visit[p].at = "open",
         stage = "open" => visit[p].at = "waiting"
  PROVE  VisitOwns'
<1>1. /\ visit'[p].at = stage /\ visit'[p].key = visit[p].key
      /\ \A q \in Procs : q # p => visit'[q] = visit[q]
  BY MovedOn DEF VisitStages
<1>2. stage \in Visiting /\ stage # "waiting" /\ visit[p].at # "idle"
  BY DEF Visiting, Inside
<1>3. QED
  BY <1>1, <1>2, OwnsMoved DEF VisitOwns

LedgerInv == IInv /\ VisitOwns /\ AbortInv

LEMMA BeginVisitKeeps ==
  ASSUME VisitInv, NEW p \in Procs, NEW k \in Keys, NEW a \in Requests \cup {None}, BeginVisit(p, k, a)
  PROVE  LedgerInv'
<1> DEFINE v == [at |-> "waiting", key |-> k, account |-> AccountOf[k], app |-> a]
           fresh == NewOp("owner", k, drawn + 1, None, None)
<1>1. Reserve(p, k) /\ visit' = [visit EXCEPT ![p] = v] /\ op' = [op EXCEPT ![p] = fresh]
  BY DEF BeginVisit, Asks, Reserve
<1>2. v.at = "waiting" /\ v.key = k /\ fresh.at = "owner" /\ fresh.key = k /\ ~fresh.acted
  BY DEF NewOp
<1> HIDE DEF v, fresh
<1>3. /\ visit'[p] = v /\ op'[p] = fresh
      /\ \A q \in Procs : q # p => visit'[q] = visit[q] /\ op'[q] = op[q]
  BY <1>1 DEF VisitInv, IInv, TypeOK, PageInv, BrowserTypeOK
<1>4. VisitOwns'
  BY <1>2, <1>3, OwnsMoved DEF VisitInv, Visiting
<1>5. QED
  BY <1>1, <1>4, ReserveKeepsIInv, ReserveKeepsAbort DEF VisitInv, LedgerInv

LEMMA BeginAgainKeeps ==
  ASSUME VisitInv, NEW p \in Procs, NEW k \in Keys, NEW a \in Requests \cup {None}, BeginAgain(p, k, a)
  PROVE  LedgerInv'
<1> DEFINE v == [at |-> "waiting", key |-> k, account |-> AccountOf[k], app |-> a]
<1>1. Refused(p, k) /\ visit' = [visit EXCEPT ![p] = v] /\ op' = op /\ op[p].at = "idle"
  BY DEF BeginAgain, Asks, Refused
<1> HIDE DEF v
<1>2. \A q \in Procs : q # p => visit'[q] = visit[q]
  BY <1>1 DEF VisitInv, PageInv, BrowserTypeOK
<1>3. VisitOwns'
  BY <1>1, <1>2, OwnsMoved DEF VisitInv
<1>4. QED
  BY <1>1, <1>3, RefusedKeepsIInv, RecoverKeepsAbort DEF VisitInv, LedgerInv

LEMMA BeginRefusedKeeps ==
  ASSUME VisitInv, NEW p \in Procs, NEW k \in Keys, BeginRefused(p, k)
  PROVE  LedgerInv'
<1>1. (ReserveExpired(p, k) \/ Refused(p, k)) /\ visit' = visit
  BY DEF BeginRefused, browserVars
<1>2. op' = op
  BY <1>1 DEF ReserveExpired, Refused
<1>3. VisitOwns'
  BY <1>1, <1>2 DEF VisitInv, VisitOwns
<1>4. IInv'
  BY <1>1, RefusedKeepsIInv, ReserveExpiredKeepsIInv DEF VisitInv
<1>5. QED
  BY <1>1, <1>3, <1>4, RecoverKeepsAbort DEF VisitInv, LedgerInv

LEMMA OpenKeeps ==
  ASSUME VisitInv, NEW p \in Procs, OpenProfile(p)
  PROVE  LedgerInv'
<1>1. /\ visit[p].at = "waiting" /\ To(p, "open")
      /\ UNCHANGED <<queueVars, now, ledgerVars, op>>
  BY DEF OpenProfile, ledgerVars
<1>2. VisitOwns'
  BY <1>1, MoveOwns DEF VisitInv, Visiting, Inside
<1>3. Q!TypeOK'
  BY <1>1, QueueSame DEF VisitInv, IInv, TypeOK, Q!TypeOK
<1>4. QED
  BY <1>1, <1>2, <1>3, QueueOnly DEF VisitInv, LedgerInv

LEMMA ProfileBusyKeeps ==
  ASSUME VisitInv, NEW p \in Procs, ProfileBusy(p)
  PROVE  LedgerInv'
<1>1. /\ op' = [op EXCEPT ![p] = Idle] /\ EndVisit(p)
      /\ UNCHANGED <<queueVars, now, entry, drawn, ghosts>>
  BY DEF ProfileBusy
<1>2. op'[p] = Idle /\ \A q \in Procs : q # p => op'[q] = op[q]
  BY <1>1 DEF VisitInv, IInv, TypeOK
<1>3. VisitOwns'
  BY <1>1, <1>2, EndOwns DEF VisitInv, Idle, NewOp
<1>4. Q!TypeOK'
  BY <1>1, QueueSame DEF VisitInv, IInv, TypeOK, Q!TypeOK
<1>5. QED
  BY <1>1, <1>3, <1>4, DropOp DEF VisitInv, LedgerInv

LEMMA FailPreflightKeeps ==
  ASSUME VisitInv, NEW p \in Procs, FailPreflight(p)
  PROVE  LedgerInv'
<1>1. visit[p].at = "open" /\ EndVisit(p)
  BY DEF FailPreflight, Unstarted
<1>2. CASE op[p].at = "owner"
  <2>1. GiveBack(p) /\ op' = [op EXCEPT ![p] = Idle] /\ ~op[p].acted
    BY <1>1, <1>2 DEF FailPreflight, GiveBack, VisitInv, VisitOwns
  <2>2. op'[p] = Idle /\ \A q \in Procs : q # p => op'[q] = op[q]
    BY <2>1 DEF VisitInv, IInv, TypeOK
  <2>3. VisitOwns'
    BY <1>1, <2>2, EndOwns DEF VisitInv, Idle, NewOp
  <2>4. QED
    BY <2>1, <2>3, AbortKeepsIInv, GiveBackKeepsAbort DEF VisitInv, LedgerInv, AbortPreflight
<1>3. CASE op[p].at # "owner"
  <2>1. UNCHANGED <<queueVars, now, ledgerVars, op>>
    BY <1>3 DEF FailPreflight, ledgerVars
  <2>2. Q!TypeOK'
    BY <2>1, QueueSame DEF VisitInv, IInv, TypeOK, Q!TypeOK
  <2>3. QED
    BY <1>1, <1>3, <2>1, <2>2, EndIdle, QueueOnly DEF VisitInv, LedgerInv
<1>4. QED
  BY <1>2, <1>3

\* The approval of a visit, and the scope presented for it.
LEMMA VisitApproval ==
  ASSUME PageInv, NEW p \in Procs, visit[p].at \in Visiting
  PROVE  /\ visit[p].key \in Keys /\ visit[p].app \in Requests \cup {None}
         /\ BrowserScope[visit[p].key] \in Scopes
         /\ visit[p].key \in sensitive => visit[p].app # None
  BY BrowserAssumption DEF PageInv, BrowserTypeOK, VisitsWellFormed, Visit

LEMMA StartKeeps ==
  ASSUME VisitInv, NEW p \in Procs, Start(p)
  PROVE  LedgerInv' /\ QueueKept
<1>1. visit[p].at = "open" /\ To(p, "started") /\ UNCHANGED <<ledgerVars, op, now>>
  BY DEF Start, ledgerVars
<1>2. VisitOwns'
  BY <1>1, MoveOwns DEF VisitInv, Visiting, Inside
<1>3. Q!TypeOK' /\ QueueKept
  <2>1. CASE visit[p].app = None
    <3>1. UNCHANGED queueVars
      BY <2>1 DEF Start
    <3>2. QED
      BY <3>1, <1>1, QueueSame DEF VisitInv, IInv, TypeOK, Q!TypeOK
  <2>2. CASE visit[p].app # None
    <3>1. Q!Reserve(p, visit[p].app, BrowserScope[visit[p].key])
      BY <2>2 DEF Start
    <3>2. QED
      BY <3>1, <2>2, <1>1, VisitApproval, QueueReserve DEF VisitInv, Visiting, Inside
  <2>3. QED
    BY <2>1, <2>2
<1>4. QED
  BY <1>1, <1>2, <1>3, QueueOnly DEF VisitInv, LedgerInv

LEMMA DoActKeeps ==
  ASSUME VisitInv, NEW p \in Procs, DoAct(p)
  PROVE  LedgerInv'
<1>1. visit[p].at = "started" /\ To(p, "acted")
  BY DEF DoAct
<1>2. CASE op[p].at = "owner"
  <2>1. Act(p) /\ op' = [op EXCEPT ![p].acted = TRUE]
    BY <1>2 DEF DoAct, Act
  <2>2. /\ op'[p].at = "owner" /\ op'[p].key = op[p].key
        /\ \A q \in Procs : q # p => op'[q] = op[q]
    BY <1>2, <2>1 DEF VisitInv, IInv, TypeOK, Op
  <2>3. /\ visit'[p].at = "acted" /\ visit'[p].key = visit[p].key
        /\ \A q \in Procs : q # p => visit'[q] = visit[q]
    BY <1>1, MovedOn DEF VisitInv, VisitStages, Inside
  <2>4. VisitOwns'
    BY <1>2, <2>2, <2>3, OwnsMoved DEF VisitInv, VisitOwns, Visiting, Inside
  <2>5. QED
    BY <2>1, <2>4, ActKeepsIInv, ActKeepsAbort DEF VisitInv, LedgerInv
<1>3. CASE op[p].at # "owner"
  <2>1. UNCHANGED <<queueVars, now, ledgerVars, op>>
    BY <1>3 DEF DoAct, ledgerVars
  <2>2. Q!TypeOK'
    BY <2>1, QueueSame DEF VisitInv, IInv, TypeOK, Q!TypeOK
  <2>3. VisitOwns'
    BY <1>1, <2>1, MoveOwns DEF VisitInv, Visiting, Inside
  <2>4. QED
    BY <2>1, <2>2, <2>3, QueueOnly DEF VisitInv, LedgerInv
<1>4. QED
  BY <1>2, <1>3

LEMMA ConsumeVisitKeeps ==
  ASSUME VisitInv, NEW p \in Procs, ConsumeVisit(p)
  PROVE  /\ LedgerInv' /\ QueueKept
         /\ visit[p].app # None => status'[visit[p].app] = "consumed"
<1>1. visit[p].at = "acted" /\ To(p, "consumed") /\ UNCHANGED <<ledgerVars, op>>
  BY DEF ConsumeVisit, ledgerVars
<1>2. VisitOwns'
  BY <1>1, MoveOwns DEF VisitInv, Visiting, Inside
<1>3. Q!TypeOK' /\ QueueKept /\ (visit[p].app # None => status'[visit[p].app] = "consumed")
  <2>1. CASE visit[p].app = None
    <3>1. UNCHANGED <<queueVars, now>>
      BY <2>1 DEF ConsumeVisit, ConsumeApproval
    <3>2. QED
      BY <2>1, <3>1, QueueSame DEF VisitInv, IInv, TypeOK, Q!TypeOK
  <2>2. CASE visit[p].app # None
    <3>1. Q!Consume(p, visit[p].app, BrowserScope[visit[p].key])
      BY <2>2 DEF ConsumeVisit, ConsumeApproval
    <3>2. QED
      BY <3>1, <2>2, <1>1, VisitApproval, QueueConsumed DEF VisitInv, Visiting, Inside
  <2>3. QED
    BY <2>1, <2>2
<1>4. QED
  BY <1>1, <1>2, <1>3, QueueOnly DEF VisitInv, LedgerInv

LEMMA FailVisitKeeps ==
  ASSUME VisitInv, NEW p \in Procs, FailVisit(p)
  PROVE  LedgerInv' /\ QueueKept
<1>1. visit[p].at \in {"started", "acted", "consumed"} /\ To(p, "failing") /\ UNCHANGED <<ledgerVars, op>>
  BY DEF FailVisit, ledgerVars
<1>2. VisitOwns'
  BY <1>1, MoveOwns DEF VisitInv, Visiting, Inside
<1>3. Q!TypeOK' /\ QueueKept
  <2> DEFINE marks == visit[p].key \in sensitive /\ Q!MayMarkUnknown(p, visit[p].app, None)
  <2>1. CASE ~marks
    <3>1. UNCHANGED <<queueVars, now>>
      BY <2>1 DEF FailVisit
    <3>2. QED
      BY <3>1, QueueSame DEF VisitInv, IInv, TypeOK, Q!TypeOK
  <2>2. CASE marks
    <3>1. Q!MarkUnknown(p, visit[p].app, None)
      BY <2>2 DEF FailVisit
    <3>2. visit[p].app \in Requests
      BY <2>2, <1>1, VisitApproval DEF VisitInv, Visiting, Inside
    <3>3. QED
      BY <3>1, <3>2, QueueUnknown DEF VisitInv
  <2>3. QED
    BY <2>1, <2>2
<1>4. QED
  BY <1>1, <1>2, <1>3, QueueOnly DEF VisitInv, LedgerInv

\* complete and mark_unknown by an owner, as the visit ends.
LEMMA SettleVisit ==
  ASSUME VisitInv, NEW p \in Procs, EndVisit(p), op[p].at = "owner", RecoveryHistory,
         NEW s \in {"completed", "unknown_outcome"}, NEW r \in BOOLEAN,
         entry' = IF Owns(p, Recovered)
                    THEN [Recovered EXCEPT ![op[p].key] = NewEntry(s, op[p].tok, 0, r)]
                    ELSE Recovered,
         op' = [op EXCEPT ![p] = Idle],
         UNCHANGED <<queueVars, now, drawn, effects, spent>>
  PROVE  LedgerInv'
<1>1. op'[p] = Idle /\ \A q \in Procs : q # p => op'[q] = op[q]
  BY DEF VisitInv, IInv, TypeOK
<1>2. VisitOwns'
  BY <1>1, EndOwns DEF VisitInv, Idle, NewOp
<1>3. IInv'
  BY SettleOwnKeepsIInv DEF VisitInv
<1>4. AbortInv'
  BY SettleKeepsAbort DEF VisitInv
<1>5. QED
  BY <1>2, <1>3, <1>4 DEF LedgerInv

LEMMA EndWithoutOp ==
  ASSUME VisitInv, NEW p \in Procs, EndVisit(p), op[p].at # "owner", UNCHANGED <<queueVars, now, ledgerVars>>
  PROVE  LedgerInv'
<1>1. op' = op /\ now' = now
  BY DEF ledgerVars
<1>2. Q!TypeOK'
  BY QueueSame DEF VisitInv, IInv, TypeOK, Q!TypeOK
<1>3. QED
  BY <1>1, <1>2, EndIdle, QueueOnly DEF VisitInv, LedgerInv

LEMMA CompleteVisitKeeps ==
  ASSUME VisitInv, NEW p \in Procs, CompleteVisit(p)
  PROVE  LedgerInv'
<1>1. EndVisit(p)
  BY DEF CompleteVisit
<1>2. CASE op[p].at = "owner"
  <2>1. Complete(p)
    BY <1>2 DEF CompleteVisit
  <2>2. QED
    BY <1>1, <1>2, <2>1, SettleVisit DEF Complete
<1>3. CASE op[p].at # "owner"
  BY <1>1, <1>3, EndWithoutOp DEF CompleteVisit
<1>4. QED
  BY <1>2, <1>3

LEMMA FailLedgerKeeps ==
  ASSUME VisitInv, NEW p \in Procs, FailLedger(p)
  PROVE  LedgerInv'
<1>1. EndVisit(p)
  BY DEF FailLedger
<1>2. CASE op[p].at = "owner"
  <2>1. MarkUnknown(p)
    BY <1>2 DEF FailLedger
  <2>2. QED
    BY <1>1, <1>2, <2>1, SettleVisit DEF MarkUnknown
<1>3. CASE op[p].at # "owner"
  BY <1>1, <1>3, EndWithoutOp DEF FailLedger
<1>4. QED
  BY <1>2, <1>3

LEMMA CrashVisitKeeps ==
  ASSUME VisitInv, NEW p \in Procs, CrashVisit(p)
  PROVE  LedgerInv' /\ QueueKept
<1>1. /\ op' = [op EXCEPT ![p] = Idle] /\ EndVisit(p)
      /\ known' = [known EXCEPT ![p] = {}]
      /\ UNCHANGED <<status, scope, expires, token, minted, holder, presented, now, entry, drawn, ghosts>>
  BY DEF CrashVisit
<1>2. op'[p] = Idle /\ \A q \in Procs : q # p => op'[q] = op[q]
  BY <1>1 DEF VisitInv, IInv, TypeOK
<1>3. VisitOwns'
  BY <1>1, <1>2, EndOwns DEF VisitInv, Idle, NewOp
<1>4. Q!TypeOK' /\ QueueKept
  BY <1>1 DEF VisitInv, IInv, TypeOK, Q!TypeOK, QueueKept
<1>5. QED
  BY <1>1, <1>3, <1>4, DropOp DEF VisitInv, LedgerInv

\* What a takeover does, the ledger and the queue do not see.
LEMMA TakeoverKeeps ==
  ASSUME VisitInv, UNCHANGED <<queueVars, now, ledgerVars>>,
         \A q \in Procs : visit'[q] # visit[q] =>
           visit'[q].at \in {"idle", "paused"} /\ op[q].at = "idle"
  PROVE  LedgerInv'
<1>1. op' = op /\ now' = now
  BY DEF ledgerVars
<1>2. Q!TypeOK'
  BY QueueSame DEF VisitInv, IInv, TypeOK, Q!TypeOK
<1>3. VisitOwns'
  <2> SUFFICES ASSUME NEW q \in Procs
               PROVE  /\ op'[q].at = "owner" => visit'[q].at \in Visiting /\ op'[q].key = visit'[q].key
                      /\ visit'[q].at # "idle" => op'[q].at \in {"idle", "owner"}
                      /\ op'[q].at = "owner" /\ visit'[q].at \in {"waiting", "open", "started"} => ~op'[q].acted
    BY DEF VisitOwns
  <2>1. CASE visit'[q] = visit[q]
    BY <2>1, <1>1 DEF VisitInv, VisitOwns
  <2>2. CASE visit'[q] # visit[q]
    BY <2>2, <1>1
  <2>3. QED
    BY <2>1, <2>2
<1>4. QED
  BY <1>2, <1>3, QueueOnly DEF VisitInv, LedgerInv

LEMMA PauseKeeps ==
  ASSUME VisitInv, NEW p \in Procs, NEW c \in Accounts, PauseForTakeover(p, c)
  PROVE  LedgerInv'
<1> DEFINE v == [NoVisit EXCEPT !.at = "paused", !.account = c]
<1>1. v.at = "paused"
  BY DEF NoVisit
<1>2. /\ op[p].at = "idle" /\ visit' = [visit EXCEPT ![p] = v]
      /\ UNCHANGED <<queueVars, now, ledgerVars>>
  BY DEF PauseForTakeover
<1> HIDE DEF v
<1>3. \A q \in Procs : visit'[q] # visit[q] => q = p /\ visit'[q] = v
  BY <1>2 DEF VisitInv, PageInv, BrowserTypeOK
<1>4. QED
  BY <1>1, <1>2, <1>3, TakeoverKeeps

LEMMA LeaveTakeoverKeeps ==
  ASSUME VisitInv, NEW p \in Procs, LeaveTakeover(p)
  PROVE  LedgerInv'
<1>1. visit[p].at = "paused" /\ EndVisit(p) /\ UNCHANGED <<queueVars, now, ledgerVars>>
  BY DEF LeaveTakeover
<1>2. op[p].at = "idle"
  BY <1>1 DEF VisitInv, VisitOwns, Visiting, Inside
<1>3. visit'[p] = NoVisit /\ \A q \in Procs : q # p => visit'[q] = visit[q]
  BY <1>1, EndedVisit DEF VisitInv
<1>4. QED
  BY <1>1, <1>2, <1>3, NoVisitIsVisit, TakeoverKeeps

LEMMA ReconcilingKeeps ==
  ASSUME VisitInv, Reconciling
  PROVE  LedgerInv'
<1> PICK p \in Procs :
      /\ visit[p].at = "idle"
      /\ \/ \E k \in Keys, a \in Requests, r \in Resolutions : ReconcileCheck(p, k, a, r)
         \/ ReconcileRecord(p) \/ ReconcileConsume(p) \/ ReconcileRefused(p)
         \/ ReconcileFinish(p) \/ Leave(p)
  BY DEF Reconciling
<1>1. visit' = visit
  BY DEF Reconciling, browserVars
<1>2. IInv'
  BY ReconcileCheckKeepsIInv, ReconcileRecordKeepsIInv, ReconcileConsumeKeepsIInv, DropKeepsIInv,
     ReconcileFinishKeepsIInv DEF VisitInv, Leave, ReconcileRefused
<1>3. effects' = effects
  BY DEF ReconcileCheck, ReconcileRecord, ReconcileConsume, ReconcileRefused, ReconcileFinish, Leave, ghosts
<1>4. op'[p].at # "owner" /\ \A q \in Procs : q # p => op'[q] = op[q]
  BY DEF VisitInv, IInv, TypeOK, Op, ReconcileCheck, ReconcileRecord, ReconcileConsume, ReconcileRefused,
         ReconcileFinish, Leave, Idle, NewOp
<1>5. VisitOwns'
  BY <1>1, <1>4, OwnsMoved DEF VisitInv
<1>6. ASSUME NEW k \in Keys, entry'[k].st = "preflight_aborted"
      PROVE  entry[k].st = "preflight_aborted" /\ entry'[k].tok = entry[k].tok
  <2>1. CASE ReconcileRecord(p)
    <3> DEFINE j == op[p].key
    <3>1. \/ entry' = Recovered
          \/ entry' = [Recovered EXCEPT ![j].st = "reconciling_started", ![j].app = op[p].app,
                                        ![j].res = op[p].res]
      BY <2>1 DEF ReconcileRecord
    <3>2. entry'[k] = Recovered[k] \/ entry'[k].st = "reconciling_started"
      BY <3>1, RecoveredType DEF VisitInv, Entry
    <3>3. QED
      BY <3>2, <1>6, RecoveredAborted DEF VisitInv
  <2>2. CASE ReconcileFinish(p)
    <3> DEFINE j == op[p].key  e == entry[j]
               f == [WithoutRecord(e, Outcome[op[p].res]) EXCEPT !.receipt = @ \/ op[p].res = "completed"]
    <3>1. entry' = entry \/ entry' = [entry EXCEPT ![j] = f]
      BY <2>2 DEF ReconcileFinish
    <3>2. op[p].at = "consumed" /\ j \in Keys /\ op[p].res \in Resolutions /\ entry[j] \in Entry
      BY <2>2 DEF ReconcileFinish, VisitInv, IInv, OpWellFormed, TypeOK
    <3>3. f.st = Outcome[op[p].res]
      BY <3>2 DEF WithoutRecord, Entry
    <3>4. f.st # "preflight_aborted"
      BY <3>2, <3>3, OutcomeType DEF Reconciled
    <3> HIDE DEF f
    <3>5. entry'[k] = entry[k] \/ entry'[k] = f
      BY <3>1 DEF VisitInv, IInv, TypeOK
    <3>6. QED
      BY <3>4, <3>5, <1>6
  <2>3. CASE ~ReconcileRecord(p) /\ ~ReconcileFinish(p)
    <3>1. entry' = entry
      BY <2>3 DEF ReconcileCheck, ReconcileConsume, ReconcileRefused, Leave
    <3>2. QED
      BY <3>1, <1>6
  <2>4. QED
    BY <2>1, <2>2, <2>3
<1>7. AbortInv'
  BY <1>3, <1>4, <1>6, QuietAbort DEF VisitInv
<1>8. QED
  BY <1>2, <1>5, <1>7 DEF LedgerInv

LEMMA SameKeeps ==
  ASSUME VisitInv, UNCHANGED <<ledgerVars, visit>>, Q!TypeOK'
  PROVE  LedgerInv'
<1>1. VisitOwns'
  BY DEF VisitInv, VisitOwns, ledgerVars
<1>2. QED
  BY <1>1, QueueOnly DEF VisitInv, LedgerInv

LEMMA StepVisit == VisitInv /\ BrowserStep => VisitInv'
<1> SUFFICES ASSUME VisitInv, BrowserStep PROVE LedgerInv'
  BY StepPage DEF VisitInv, LedgerInv
<1>1. ASSUME NEW p \in Procs, NEW k \in Keys, NEW a \in Requests \cup {None},
             BeginVisit(p, k, a) \/ BeginAgain(p, k, a)
      PROVE  LedgerInv'
  BY <1>1, BeginVisitKeeps, BeginAgainKeeps
<1>2. ASSUME NEW p \in Procs, NEW k \in Keys, BeginRefused(p, k) PROVE LedgerInv'
  BY <1>2, BeginRefusedKeeps
<1>3. ASSUME NEW p \in Procs,
             \/ OpenProfile(p) \/ ProfileBusy(p) \/ FailPreflight(p) \/ Start(p) \/ DoAct(p)
             \/ ConsumeVisit(p) \/ CompleteVisit(p) \/ FailVisit(p) \/ FailLedger(p)
             \/ CrashVisit(p) \/ LeaveTakeover(p)
      PROVE  LedgerInv'
  BY <1>3, OpenKeeps, ProfileBusyKeeps, FailPreflightKeeps, StartKeeps, DoActKeeps, ConsumeVisitKeeps,
     CompleteVisitKeeps, FailVisitKeeps, FailLedgerKeeps, CrashVisitKeeps, LeaveTakeoverKeeps
<1>4. ASSUME NEW p \in Procs, NEW c \in Accounts, PauseForTakeover(p, c) PROVE LedgerInv'
  BY <1>4, PauseKeeps
<1>5. ASSUME NEW c \in Accounts, NEW o \in {"resumed", "cancelled"}, EndTakeover(c, o) PROVE LedgerInv'
  BY <1>5, TakeoverKeeps DEF EndTakeover
<1>6. CASE BrowserTick
  <2>1. UNCHANGED <<ledgerVars, visit>> /\ IInv'
    BY <1>6, TickKeepsIInv DEF BrowserTick, Tick, browserVars, ledgerVars, VisitInv
  <2>2. QED
    BY <2>1, SameKeeps DEF IInv, TypeOK
<1>7. CASE UNCHANGED <<vars, browserVars>>
  <2>1. UNCHANGED <<ledgerVars, visit, queueVars, now>>
    BY <1>7 DEF vars, browserVars, ledgerVars
  <2>2. QED
    BY <2>1, SameKeeps, QueueSame DEF VisitInv, IInv, TypeOK, Q!TypeOK
<1>8. QED
  BY <1>1, <1>2, <1>3, <1>4, <1>5, <1>6, <1>7, ReconcilingKeeps DEF BrowserStep, BrowserNext

LEMMA InitVisit == Init /\ BrowserInit => VisitInv
<1> SUFFICES ASSUME Init, BrowserInit PROVE VisitInv
  OBVIOUS
<1>1. VisitOwns
  BY NoVisitIsVisit DEF Init, BrowserInit, VisitOwns, Idle, NewOp
<1>2. AbortInv
  BY DEF Init, AbortInv, UnactedOwner, AbortedTokens, AbortedDidNothing, Idle, NewOp, Missing, NewEntry
<1>3. QED
  BY <1>1, <1>2, InitIInv, InitPage DEF VisitInv

\* A key that a failed preflight gave back saw no action under its reservation, with the profile
\* busy, the page failing, owners slow and expired, and reconcilers at work.
THEOREM AbortsAreHarmless == BrowserSpec => []AbortedDidNothing
<1>1. VisitInv /\ [BrowserNext \/ Reconciling]_<<vars, browserVars>> => VisitInv'
  BY StepVisit DEF BrowserStep
<1>2. VisitInv => AbortedDidNothing
  BY DEF VisitInv, AbortInv
<1>3. QED
  BY <1>1, <1>2, InitVisit, PTL DEF BrowserSpec

-----------------------------------------------------------------------------
(* Approvals and acts.                                                     *)

Underway == {"started", "acted", "consumed", "failing"}

\* The approval of a visit under way was used by it, for its own action.
UsedFor(a, k) ==
  /\ status[a] \in Q!Used
  /\ presented[a] = BrowserScope[k] /\ Q!ScopeFits(scope[a], BrowserScope[k])

ActsType == acts \subseteq Keys \X (Requests \cup {None}) \X Nat \X Nat

\* A visit under way has an approval to itself; before it acts nobody has acted under it.
UnderwayApproved ==
  \A p \in Procs : visit[p].at \in Underway /\ visit[p].app # None =>
    /\ UsedFor(visit[p].app, visit[p].key)
    /\ \A q \in Procs : visit[q].at \in Underway /\ visit[q].app = visit[p].app => q = p
    /\ visit[p].at = "started" => \A x \in acts : x[2] # visit[p].app

\* After it acted, its act is there; after it consumed, the approval is consumed.
UnderwayActed ==
  \A p \in Procs : visit[p].at \in {"acted", "consumed"} /\ visit[p].app # None =>
    /\ \E x \in acts : x[1] = visit[p].key /\ x[2] = visit[p].app
    /\ visit[p].at = "consumed" => status[visit[p].app] = "consumed"

ActsApproved ==
  \A x \in acts :
    /\ x[1] \in sensitive => x[2] # None
    /\ x[2] # None => UsedFor(x[2], x[1]) /\ \A y \in acts : y[2] = x[2] => y = x

CompletedHasAct ==
  \A k \in sensitive : entry[k].st = "completed" =>
    \E x \in acts : x[1] = k /\ status[x[2]] = "consumed"

ActsShape == ActsType /\ UnderwayApproved /\ UnderwayActed /\ ActsApproved
ActsInv   == ActsShape /\ CompletedHasAct

LEMMA ActsEnough == ActsInv => SensitiveActsAccounted
  BY DEF ActsInv, ActsShape, ActsApproved, CompletedHasAct, SensitiveActsAccounted, UsedFor

LEMMA UsedKept ==
  ASSUME QueueKept, NEW a \in Requests, NEW k, UsedFor(a, k)
  PROVE  UsedFor(a, k)'
  BY DEF QueueKept, UsedFor, Q!ScopeFits, Q!SensitiveFields, Q!OrdinaryFields, Q!Compatible, Q!SameKey, Q!SameTarget,
         Q!EffectiveUser

\* Nothing is started, done or consumed.
LEMMA QuietActs ==
  ASSUME VisitInv, ActsShape, acts' = acts, sensitive' = sensitive, QueueKept,
         \A p \in Procs : visit'[p].at \in Underway =>
           /\ visit[p].at \in Underway
           /\ visit'[p].key = visit[p].key /\ visit'[p].app = visit[p].app
           /\ visit'[p].at = visit[p].at \/ visit'[p].at = "failing"
  PROVE  ActsShape'
<1>1. ActsType'
  BY DEF ActsShape, ActsType
<1>2. \A x \in acts : x[2] # None => x[2] \in Requests
  BY DEF ActsShape, ActsType
<1>3. ActsApproved'
  <2> SUFFICES ASSUME NEW x \in acts
               PROVE  /\ x[1] \in sensitive => x[2] # None
                      /\ x[2] # None => UsedFor(x[2], x[1])' /\ \A y \in acts : y[2] = x[2] => y = x
    BY DEF ActsApproved
  <2>1. x[2] # None => UsedFor(x[2], x[1])'
    BY <1>2, UsedKept DEF ActsShape, ActsApproved
  <2>2. QED
    BY <2>1 DEF ActsShape, ActsApproved
<1>4. \A p \in Procs : visit[p].app # None => visit[p].app \in Requests
  BY DEF VisitInv, PageInv, BrowserTypeOK, Visit
<1>5. UnderwayApproved'
  <2> SUFFICES ASSUME NEW p \in Procs, visit'[p].at \in Underway, visit'[p].app # None
               PROVE  /\ UsedFor(visit[p].app, visit[p].key)'
                      /\ \A q \in Procs : visit'[q].at \in Underway /\ visit'[q].app = visit'[p].app => q = p
                      /\ visit'[p].at = "started" => \A x \in acts : x[2] # visit'[p].app
    BY DEF UnderwayApproved
  <2>1. PICK a, k : a = visit[p].app /\ k = visit[p].key
    OBVIOUS
  <2>2. a = visit'[p].app /\ k = visit'[p].key /\ a \in Requests /\ visit[p].at \in Underway
    BY <2>1, <1>4
  <2>3. UsedFor(a, k)'
    BY <2>1, <2>2, UsedKept DEF ActsShape, UnderwayApproved
  <2>4. \A q \in Procs : visit'[q].at \in Underway /\ visit'[q].app = a => q = p
    BY <2>1, <2>2 DEF ActsShape, UnderwayApproved
  <2>5. visit'[p].at = "started" => \A x \in acts : x[2] # a
    BY <2>1, <2>2 DEF ActsShape, UnderwayApproved
  <2>6. UsedFor(visit[p].app, visit[p].key)'
    BY <2>2, <2>3
  <2>7. QED
    BY <2>2, <2>4, <2>5, <2>6
<1>6. UnderwayActed'
  <2> SUFFICES ASSUME NEW p \in Procs, visit'[p].at \in {"acted", "consumed"}, visit'[p].app # None
               PROVE  /\ \E x \in acts : x[1] = visit'[p].key /\ x[2] = visit'[p].app
                      /\ visit'[p].at = "consumed" => status'[visit'[p].app] = "consumed"
    BY DEF UnderwayActed
  <2>1. visit'[p].key = visit[p].key /\ visit'[p].app = visit[p].app /\ visit'[p].at = visit[p].at
    BY DEF Underway
  <2>2. /\ \E x \in acts : x[1] = visit[p].key /\ x[2] = visit[p].app
        /\ visit[p].at = "consumed" => status[visit[p].app] = "consumed"
    BY <2>1 DEF ActsShape, UnderwayActed
  <2>3. visit[p].app \in Requests
    BY <2>1, <1>4
  <2>4. QED
    BY <2>1, <2>2, <2>3 DEF QueueKept
<1>7. QED
  BY <1>1, <1>3, <1>5, <1>6 DEF ActsShape

\* No sensitive key becomes completed.
LEMMA QuietCompleted ==
  ASSUME ActsShape, CompletedHasAct, acts \subseteq acts', sensitive' = sensitive, QueueKept,
         \A k \in Keys : entry'[k].st = "completed" => entry[k].st = "completed",
         PageInv
  PROVE  CompletedHasAct'
<1> SUFFICES ASSUME NEW k \in sensitive, entry'[k].st = "completed"
             PROVE  \E x \in acts' : x[1] = k /\ status'[x[2]] = "consumed"
  BY DEF CompletedHasAct
<1>1. k \in Keys
  BY DEF PageInv, BrowserTypeOK
<1>2. PICK x \in acts : x[1] = k /\ status[x[2]] = "consumed"
  BY <1>1 DEF CompletedHasAct
<1>3. x[2] # None /\ x[2] \in Requests
  BY <1>2 DEF ActsShape, ActsType, ActsApproved
<1>4. QED
  BY <1>2, <1>3 DEF QueueKept

LEMMA StartKeepsActs ==
  ASSUME VisitInv, ActsShape, NEW p \in Procs, Start(p)
  PROVE  ActsShape'
<1> PICK a, k : a = visit[p].app /\ k = visit[p].key
  OBVIOUS
<1>1. /\ visit[p].at = "open" /\ To(p, "started") /\ UNCHANGED <<acts, sensitive>>
  BY DEF Start
<1>2. /\ visit'[p].at = "started" /\ visit'[p].key = k /\ visit'[p].app = a
      /\ \A q \in Procs : q # p => visit'[q] = visit[q]
  BY <1>1, MovedOn DEF VisitInv, VisitStages, Inside
<1>3. QueueKept
  BY StartKeeps
<1>4. k \in Keys /\ a \in Requests \cup {None} /\ BrowserScope[k] \in Scopes
  BY <1>1, VisitApproval DEF VisitInv, Visiting, Inside
<1>5. ASSUME a # None
      PROVE  status[a] = "approved" /\ UsedFor(a, k)'
  <2>1. Q!Reserve(p, a, BrowserScope[k]) /\ a \in Requests
    BY <1>4, <1>5 DEF Start
  <2>2. /\ status[a] = "approved" /\ Q!ScopeFits(scope[a], BrowserScope[k])
        /\ status'[a] = "reserved" /\ presented'[a] = BrowserScope[k]
    BY <2>1, <1>4, QueueReserve DEF VisitInv
  <2>3. QED
    BY <2>2, <1>3 DEF UsedFor, QueueKept, Q!Used, Q!ScopeFits, Q!SensitiveFields, Q!OrdinaryFields, Q!Compatible, Q!SameKey,
           Q!SameTarget, Q!EffectiveUser
<1>6. ASSUME NEW q \in Procs, q # p, visit[q].at \in Underway, visit[q].app = a, a # None
      PROVE  FALSE
  BY <1>5, <1>6 DEF ActsShape, UnderwayApproved, UsedFor, Q!Used
<1>7. ASSUME a # None, NEW x \in acts, x[2] = a PROVE FALSE
  BY <1>5, <1>7 DEF ActsShape, ActsApproved, UsedFor, Q!Used
<1>8. \A q \in Procs : visit[q].app # None => visit[q].app \in Requests
  BY DEF VisitInv, PageInv, BrowserTypeOK, Visit
<1>9. UnderwayApproved'
  <2> SUFFICES ASSUME NEW q \in Procs, visit'[q].at \in Underway, visit'[q].app # None
               PROVE  /\ UsedFor(visit[q].app, visit[q].key)'
                      /\ \A r \in Procs : visit'[r].at \in Underway /\ visit'[r].app = visit'[q].app => r = q
                      /\ visit'[q].at = "started" => \A x \in acts' : x[2] # visit'[q].app
    BY DEF UnderwayApproved
  <2>1. CASE q = p
    <3>1. UsedFor(visit[q].app, visit[q].key)'
      BY <2>1, <1>2, <1>5
    <3>2. QED
      BY <3>1, <2>1, <1>1, <1>2, <1>6, <1>7
  <2>2. CASE q # p
    <3> PICK b, j : b = visit[q].app /\ j = visit[q].key
      OBVIOUS
    <3>1. b = visit'[q].app /\ j = visit'[q].key /\ b \in Requests /\ visit[q].at \in Underway
      BY <2>2, <1>2, <1>8
    <3>2. UsedFor(b, j)'
      BY <3>1, <1>3, UsedKept DEF ActsShape, UnderwayApproved
    <3>3. UsedFor(visit[q].app, visit[q].key)'
      BY <3>1, <3>2
    <3>4. \A r \in Procs : visit'[r].at \in Underway /\ visit'[r].app = b => r = q
      BY <3>1, <2>2, <1>2, <1>6 DEF ActsShape, UnderwayApproved
    <3>5. QED
      BY <3>1, <3>3, <3>4, <2>2, <1>1, <1>2 DEF ActsShape, UnderwayApproved
  <2>3. QED
    BY <2>1, <2>2
<1>10. UnderwayActed'
  <2> SUFFICES ASSUME NEW q \in Procs, visit'[q].at \in {"acted", "consumed"}, visit'[q].app # None
               PROVE  /\ \E x \in acts : x[1] = visit'[q].key /\ x[2] = visit'[q].app
                      /\ visit'[q].at = "consumed" => status'[visit'[q].app] = "consumed"
    BY <1>1 DEF UnderwayActed
  <2>1. q # p /\ visit'[q] = visit[q] /\ visit[q].app \in Requests
    BY <1>2, <1>8
  <2>2. QED
    BY <2>1, <1>3 DEF ActsShape, UnderwayActed, QueueKept
<1>11. ActsApproved'
  <2> SUFFICES ASSUME NEW x \in acts
               PROVE  /\ x[1] \in sensitive => x[2] # None
                      /\ x[2] # None => UsedFor(x[2], x[1])' /\ \A y \in acts : y[2] = x[2] => y = x
    BY <1>1 DEF ActsApproved
  <2>1. x[2] # None => x[2] \in Requests
    BY DEF ActsShape, ActsType
  <2>2. x[2] # None => UsedFor(x[2], x[1])'
    BY <2>1, <1>3, UsedKept DEF ActsShape, ActsApproved
  <2>3. QED
    BY <2>2 DEF ActsShape, ActsApproved
<1>12. ActsType'
  BY <1>1 DEF ActsShape, ActsType
<1>13. QED
  BY <1>9, <1>10, <1>11, <1>12 DEF ActsShape

LEMMA DoActKeepsActs ==
  ASSUME VisitInv, ActsShape, NEW p \in Procs, DoAct(p)
  PROVE  ActsShape' /\ QueueKept /\ acts \subseteq acts'
<1> PICK a, k : a = visit[p].app /\ k = visit[p].key
  OBVIOUS
<1> DEFINE act == <<k, a, IF a = None THEN 0 ELSE token[a], IF op[p].at = "owner" THEN op[p].tok ELSE 0>>
<1>1. /\ visit[p].at = "started" /\ To(p, "acted") /\ sensitive' = sensitive
      /\ acts' = acts \cup {act}
  BY DEF DoAct
<1>2. /\ visit'[p].at = "acted" /\ visit'[p].key = k /\ visit'[p].app = a
      /\ \A q \in Procs : q # p => visit'[q] = visit[q]
  BY <1>1, MovedOn DEF VisitInv, VisitStages, Inside
<1>3. UNCHANGED queueVars
  BY DEF DoAct, Act
<1>4. QueueKept
  BY <1>3, QueueSame DEF VisitInv
<1>5. /\ k \in Keys /\ a \in Requests \cup {None}
      /\ k \in sensitive => a # None
  BY <1>1, VisitApproval DEF VisitInv, Visiting, Inside
<1>6. act \in Keys \X (Requests \cup {None}) \X Nat \X Nat /\ act[1] = k /\ act[2] = a
  <2>1. ASSUME a # None PROVE token[a] \in Nat
    BY <2>1, <1>5 DEF VisitInv, IInv, TypeOK, Q!TypeOK
  <2>2. op[p].tok \in Nat
    BY DEF VisitInv, IInv, TypeOK, Op
  <2>3. QED
    BY <2>1, <2>2, <1>5
<1> HIDE DEF act
<1>7. a # None => UsedFor(a, k) /\ \A x \in acts : x[2] # a
  BY <1>1 DEF ActsShape, UnderwayApproved, Underway
<1>8. \A q \in Procs : visit[q].app # None => visit[q].app \in Requests
  BY DEF VisitInv, PageInv, BrowserTypeOK, Visit
<1>9. ActsType'
  BY <1>1, <1>6 DEF ActsShape, ActsType
<1>10. UnderwayApproved'
  <2> SUFFICES ASSUME NEW q \in Procs, visit'[q].at \in Underway, visit'[q].app # None
               PROVE  /\ UsedFor(visit[q].app, visit[q].key)'
                      /\ \A r \in Procs : visit'[r].at \in Underway /\ visit'[r].app = visit'[q].app => r = q
                      /\ visit'[q].at = "started" => \A x \in acts' : x[2] # visit'[q].app
    BY DEF UnderwayApproved
  <2> PICK b, j : b = visit[q].app /\ j = visit[q].key
    OBVIOUS
  <2>1. b = visit'[q].app /\ j = visit'[q].key /\ b \in Requests /\ visit[q].at \in Underway
    BY <1>1, <1>2, <1>8 DEF Underway
  <2>2. UsedFor(b, j)'
    BY <2>1, <1>4, UsedKept DEF ActsShape, UnderwayApproved
  <2>3. UsedFor(visit[q].app, visit[q].key)'
    BY <2>1, <2>2
  <2>4. \A r \in Procs : visit[r].at \in Underway /\ visit[r].app = b => r = q
    BY <2>1 DEF ActsShape, UnderwayApproved
  <2>5. \A r \in Procs : visit'[r].at \in Underway /\ visit'[r].app = b => r = q
    BY <2>4, <1>1, <1>2 DEF Underway
  <2>6. ASSUME visit'[q].at = "started" PROVE \A x \in acts' : x[2] # b
    <3>1. q # p /\ visit[q].at = "started"
      BY <2>6, <1>2
    <3>2. \A x \in acts : x[2] # b
      BY <3>1, <2>1 DEF ActsShape, UnderwayApproved
    <3>3. a # b
      BY <3>1, <2>1, <2>4, <1>1 DEF Underway
    <3>4. QED
      BY <3>2, <3>3, <1>1, <1>6
  <2>7. QED
    BY <2>1, <2>3, <2>5, <2>6
<1>11. UnderwayActed'
  <2> SUFFICES ASSUME NEW q \in Procs, visit'[q].at \in {"acted", "consumed"}, visit'[q].app # None
               PROVE  /\ \E x \in acts' : x[1] = visit'[q].key /\ x[2] = visit'[q].app
                      /\ visit'[q].at = "consumed" => status'[visit'[q].app] = "consumed"
    BY DEF UnderwayActed
  <2>1. CASE q = p
    BY <2>1, <1>1, <1>2, <1>6
  <2>2. CASE q # p
    <3>1. visit'[q] = visit[q] /\ visit[q].app \in Requests
      BY <2>2, <1>2, <1>8
    <3>2. /\ \E x \in acts : x[1] = visit[q].key /\ x[2] = visit[q].app
          /\ visit[q].at = "consumed" => status[visit[q].app] = "consumed"
      BY <3>1 DEF ActsShape, UnderwayActed
    <3>3. QED
      BY <3>1, <3>2, <1>1, <1>4 DEF QueueKept
  <2>3. QED
    BY <2>1, <2>2
<1>12. ActsApproved'
  <2> SUFFICES ASSUME NEW x \in acts'
               PROVE  /\ x[1] \in sensitive => x[2] # None
                      /\ x[2] # None => UsedFor(x[2], x[1])' /\ \A y \in acts' : y[2] = x[2] => y = x
    BY <1>1 DEF ActsApproved
  <2>1. CASE x = act
    <3>1. a # None => UsedFor(a, k)'
      BY <1>4, <1>5, <1>7, UsedKept
    <3>2. UsedFor(a, k)' => UsedFor(x[2], x[1])'
      BY <2>1, <1>6
    <3>3. a # None => \A y \in acts' : y[2] = a => y = x
      BY <2>1, <1>1, <1>7
    <3>4. QED
      BY <2>1, <3>1, <3>2, <3>3, <1>5, <1>6
  <2>2. CASE x \in acts
    <3>1. x[2] # None => x[2] \in Requests
      BY <2>2 DEF ActsShape, ActsType
    <3>2. x[2] # None => UsedFor(x[2], x[1])'
      BY <2>2, <3>1, <1>4, UsedKept DEF ActsShape, ActsApproved
    <3>3. x[2] # None => x[2] # a
      BY <2>2, <1>7
    <3>4. QED
      BY <2>2, <3>2, <3>3, <1>1, <1>6 DEF ActsShape, ActsApproved
  <2>3. QED
    BY <2>1, <2>2, <1>1
<1>13. acts \subseteq acts'
  BY <1>1
<1>14. QED
  BY <1>4, <1>9, <1>10, <1>11, <1>12, <1>13 DEF ActsShape

LEMMA ConsumeKeepsActs ==
  ASSUME VisitInv, ActsShape, NEW p \in Procs, ConsumeVisit(p)
  PROVE  ActsShape'
<1> PICK a, k : a = visit[p].app /\ k = visit[p].key
  OBVIOUS
<1>1. /\ visit[p].at = "acted" /\ To(p, "consumed") /\ UNCHANGED <<acts, sensitive>>
  BY DEF ConsumeVisit
<1>2. /\ visit'[p].at = "consumed" /\ visit'[p].key = k /\ visit'[p].app = a
      /\ \A q \in Procs : q # p => visit'[q] = visit[q]
  BY <1>1, MovedOn DEF VisitInv, VisitStages, Inside
<1>3. QueueKept /\ (a # None => status'[a] = "consumed")
  BY ConsumeVisitKeeps
<1>4. \A q \in Procs : visit[q].app # None => visit[q].app \in Requests
  BY DEF VisitInv, PageInv, BrowserTypeOK, Visit
<1>5. UnderwayApproved'
  <2> SUFFICES ASSUME NEW q \in Procs, visit'[q].at \in Underway, visit'[q].app # None
               PROVE  /\ UsedFor(visit[q].app, visit[q].key)'
                      /\ \A r \in Procs : visit'[r].at \in Underway /\ visit'[r].app = visit'[q].app => r = q
                      /\ visit'[q].at = "started" => \A x \in acts' : x[2] # visit'[q].app
    BY DEF UnderwayApproved
  <2> PICK b, j : b = visit[q].app /\ j = visit[q].key
    OBVIOUS
  <2>1. b = visit'[q].app /\ j = visit'[q].key /\ b \in Requests /\ visit[q].at \in Underway
    BY <1>1, <1>2, <1>4 DEF Underway
  <2>2. UsedFor(b, j)'
    BY <2>1, <1>3, UsedKept DEF ActsShape, UnderwayApproved
  <2>3. UsedFor(visit[q].app, visit[q].key)'
    BY <2>1, <2>2
  <2>4. \A r \in Procs : visit[r].at \in Underway /\ visit[r].app = b => r = q
    BY <2>1 DEF ActsShape, UnderwayApproved
  <2>5. \A r \in Procs : visit'[r].at \in Underway /\ visit'[r].app = b => r = q
    BY <2>4, <1>1, <1>2 DEF Underway
  <2>6. ASSUME visit'[q].at = "started" PROVE \A x \in acts : x[2] # b
    BY <2>1, <2>6, <1>2 DEF ActsShape, UnderwayApproved
  <2>7. QED
    BY <2>1, <2>3, <2>5, <2>6, <1>1
<1>6. UnderwayActed'
  <2> SUFFICES ASSUME NEW q \in Procs, visit'[q].at \in {"acted", "consumed"}, visit'[q].app # None
               PROVE  /\ \E x \in acts : x[1] = visit'[q].key /\ x[2] = visit'[q].app
                      /\ visit'[q].at = "consumed" => status'[visit'[q].app] = "consumed"
    BY <1>1 DEF UnderwayActed
  <2>1. CASE q = p
    BY <2>1, <1>1, <1>2, <1>3 DEF ActsShape, UnderwayActed
  <2>2. CASE q # p
    BY <2>2, <1>2, <1>3, <1>4 DEF ActsShape, UnderwayActed, QueueKept
  <2>3. QED
    BY <2>1, <2>2
<1>7. ActsApproved'
  <2> SUFFICES ASSUME NEW x \in acts
               PROVE  /\ x[1] \in sensitive => x[2] # None
                      /\ x[2] # None => UsedFor(x[2], x[1])' /\ \A y \in acts : y[2] = x[2] => y = x
    BY <1>1 DEF ActsApproved
  <2>1. x[2] # None => x[2] \in Requests
    BY DEF ActsShape, ActsType
  <2>2. x[2] # None => UsedFor(x[2], x[1])'
    BY <2>1, <1>3, UsedKept DEF ActsShape, ActsApproved
  <2>3. QED
    BY <2>2 DEF ActsShape, ActsApproved
<1>8. ActsType'
  BY <1>1 DEF ActsShape, ActsType
<1>9. QED
  BY <1>5, <1>6, <1>7, <1>8 DEF ActsShape

\* The recovery completes nothing: what it settles is reconciled.
LEMMA RecoveredCompleted ==
  ASSUME IInv, NEW k \in Keys, Recovered[k].st = "completed"
  PROVE  entry[k].st = "completed"
<1>1. CASE k \in ToSettle
  <2>1. entry[k].res \in Resolutions
    BY <1>1 DEF ToSettle, Recording, IInv, RecordWellFormed
  <2>2. QED
    BY <1>1, <2>1, RecoveredEntry, OutcomeType DEF Reconciled
<1>2. CASE k \in ToRollBack
  BY <1>2, RecoveredEntry
<1>3. QED
  BY <1>1, <1>2, RecoveredEntry DEF ToRollBack

\* A visit that completes its key has acted and consumed its approval.
LEMMA CompleteKeepsCompleted ==
  ASSUME VisitInv, ActsInv, NEW p \in Procs, CompleteVisit(p)
  PROVE  CompletedHasAct'
<1>1. /\ visit[p].at = "consumed" /\ acts' = acts /\ sensitive' = sensitive
      /\ UNCHANGED queueVars
  BY DEF CompleteVisit, Complete
<1>2. status' = status
  BY <1>1 DEF queueVars
<1> SUFFICES ASSUME NEW k \in sensitive, entry'[k].st = "completed"
             PROVE  \E x \in acts : x[1] = k /\ status[x[2]] = "consumed"
  BY <1>1, <1>2 DEF CompletedHasAct
<1>3. k \in Keys
  BY DEF VisitInv, PageInv, BrowserTypeOK
<1>4. CASE entry[k].st = "completed"
  BY <1>4 DEF ActsInv, CompletedHasAct
<1>5. CASE entry[k].st # "completed"
  <2>1. op[p].at = "owner" /\ Complete(p)
    BY <1>5 DEF CompleteVisit, ledgerVars
  <2>2. op[p].key = visit[p].key
    BY <2>1 DEF VisitInv, VisitOwns
  <2>3. k = op[p].key
    <3> DEFINE e == NewEntry("completed", op[p].tok, 0, TRUE)
    <3>1. entry' = IF Owns(p, Recovered) THEN [Recovered EXCEPT ![op[p].key] = e] ELSE Recovered
      BY <2>1 DEF Complete
    <3> HIDE DEF e
    <3>2. k # op[p].key => entry'[k] = Recovered[k]
      BY <3>1, <1>3, RecoveredType DEF VisitInv
    <3>3. entry'[k] # Recovered[k]
      BY <1>3, <1>5, RecoveredCompleted DEF VisitInv
    <3>4. QED
      BY <3>2, <3>3
  <2>4. visit[p].app # None
    BY <1>1, <2>2, <2>3 DEF VisitInv, PageInv, VisitsWellFormed, Visiting, Inside
  <2>5. QED
    BY <1>1, <2>2, <2>3, <2>4 DEF ActsInv, ActsShape, UnderwayActed
<1>6. QED
  BY <1>4, <1>5

\* A step that moves no visit on, or moves one out of the way.
NoStart ==
  \A p \in Procs : visit'[p].at \in Underway =>
    /\ visit[p].at \in Underway
    /\ visit'[p].key = visit[p].key /\ visit'[p].app = visit[p].app
    /\ visit'[p].at = visit[p].at \/ visit'[p].at = "failing"

NoneCompleted == \A k \in Keys : entry'[k].st = "completed" => entry[k].st = "completed"

LEMMA QuietKeepsActs ==
  ASSUME VisitInv, ActsInv, UNCHANGED <<acts, sensitive>>, QueueKept, NoStart, NoneCompleted
  PROVE  ActsInv'
<1>1. ActsShape'
  BY QuietActs DEF ActsInv, NoStart
<1>2. CompletedHasAct'
  BY QuietCompleted DEF ActsInv, NoneCompleted, VisitInv
<1>3. QED
  BY <1>1, <1>2 DEF ActsInv

LEMMA EndStartsNone ==
  ASSUME PageInv, NEW p \in Procs, EndVisit(p)
  PROVE  NoStart
  BY EndedVisit, NoVisitIsVisit DEF NoStart, Underway

\* A new visit, or a takeover, is not under way.
LEMMA NewStartsNone ==
  ASSUME PageInv, NEW p \in Procs, NEW v, v.at \notin Underway, visit' = [visit EXCEPT ![p] = v]
  PROVE  NoStart
  BY DEF NoStart, PageInv, BrowserTypeOK

\* The calls of the ledger, the completion of a visit apart, complete nothing.
LEMMA LedgerCompletesNone ==
  ASSUME IInv, NEW p \in Procs,
         \/ \E k \in Keys : Reserve(p, k) \/ ReserveExpired(p, k) \/ Refused(p, k)
         \/ MarkUnknown(p) \/ GiveBack(p) \/ ReconcileRecord(p) \/ ReconcileFinish(p)
  PROVE  NoneCompleted
<1> SUFFICES ASSUME NEW k \in Keys, entry'[k].st = "completed" PROVE entry[k].st = "completed"
  BY DEF NoneCompleted
<1> DEFINE o == op[p].key
<1>1. ASSUME NEW e, e.st # "completed", NEW j, NEW E \in {entry, Recovered},
             entry' = E \/ entry' = [E EXCEPT ![j] = e]
      PROVE  entry[k].st = "completed"
  <2>1. DOMAIN E = Keys
    BY RecoveredType DEF IInv, TypeOK
  <2>2. entry'[k] = E[k]
    BY <1>1, <2>1
  <2>3. QED
    BY <2>2, RecoveredCompleted
<1>3. ASSUME NEW j \in Keys, Reserve(p, j) PROVE entry[k].st = "completed"
  <2> PICK e : e = NewEntry("reserved", drawn + 1, now, FALSE)
    OBVIOUS
  <2>1. e.st # "completed"
    BY DEF NewEntry
  <2>2. entry' = Recovered \/ entry' = [Recovered EXCEPT ![j] = e]
    BY <1>3 DEF Reserve
  <2>3. QED
    BY <1>1, <2>1, <2>2
<1>4. ASSUME NEW j \in Keys, ReserveExpired(p, j) PROVE entry[k].st = "completed"
  <2>1. entry' = [Recovered EXCEPT ![j] = [Recovered[j] EXCEPT !.st = "unknown_outcome"]]
    BY <1>4 DEF ReserveExpired
  <2>2. [Recovered[j] EXCEPT !.st = "unknown_outcome"].st # "completed"
    BY RecoveredType DEF Entry
  <2>3. QED
    BY <1>1, <2>1, <2>2
<1>5. ASSUME NEW j \in Keys, Refused(p, j) PROVE entry[k].st = "completed"
  BY <1>5, RecoveredCompleted DEF Refused
<1>6. CASE MarkUnknown(p)
  <2> PICK e : e = NewEntry("unknown_outcome", op[p].tok, 0, FALSE)
    OBVIOUS
  <2>1. e.st # "completed"
    BY DEF NewEntry
  <2>2. entry' = Recovered \/ entry' = [Recovered EXCEPT ![o] = e]
    BY <1>6 DEF MarkUnknown
  <2>3. QED
    BY <1>1, <2>1, <2>2
<1>7. CASE GiveBack(p)
  <2> PICK e : e = NewEntry("preflight_aborted", op[p].tok, 0, FALSE)
    OBVIOUS
  <2>1. e.st # "completed"
    BY DEF NewEntry
  <2>2. entry' = entry \/ entry' = [entry EXCEPT ![o] = e]
    BY <1>7 DEF GiveBack
  <2>3. QED
    BY <1>1, <2>1, <2>2
<1>8. CASE ReconcileRecord(p)
  <2>1. \/ entry' = Recovered
        \/ entry' = [Recovered EXCEPT ![o].st = "reconciling_started", ![o].app = op[p].app,
                                      ![o].res = op[p].res]
    BY <1>8 DEF ReconcileRecord
  <2>2. entry'[k] = Recovered[k]
    BY <2>1, RecoveredType DEF Entry
  <2>3. QED
    BY <2>2, RecoveredCompleted
<1>9. CASE ReconcileFinish(p)
  <2> DEFINE f == [WithoutRecord(entry[o], Outcome[op[p].res]) EXCEPT !.receipt = @ \/ op[p].res = "completed"]
  <2>1. entry' = entry \/ entry' = [entry EXCEPT ![o] = f]
    BY <1>9 DEF ReconcileFinish
  <2>2. op[p].at = "consumed" /\ o \in Keys /\ op[p].res \in Resolutions /\ entry[o] \in Entry
    BY <1>9 DEF ReconcileFinish, IInv, OpWellFormed, TypeOK
  <2>3. f.st = Outcome[op[p].res]
    BY <2>2 DEF WithoutRecord, Entry
  <2>4. f.st # "completed"
    BY <2>2, <2>3, OutcomeType DEF Reconciled
  <2> HIDE DEF f
  <2>5. QED
    BY <1>1, <2>1, <2>4
<1>10. QED
  BY <1>3, <1>4, <1>5, <1>6, <1>7, <1>8, <1>9

LEMMA StepActs == VisitInv /\ ActsInv /\ BrowserStep => ActsInv'
<1> SUFFICES ASSUME VisitInv, ActsInv, BrowserStep PROVE ActsInv'
  OBVIOUS
<1>0. IInv /\ PageInv
  BY DEF VisitInv
<1> DEFINE Quiet == UNCHANGED <<acts, sensitive>> /\ QueueKept /\ NoStart /\ NoneCompleted
<1>1. Quiet => ActsInv'
  BY QuietKeepsActs
<1>2. UNCHANGED queueVars => QueueKept
  BY QueueSame DEF VisitInv
<1>3. UNCHANGED entry => NoneCompleted
  BY DEF NoneCompleted
<1>4. UNCHANGED visit => NoStart
  BY DEF NoStart
<1>5. ASSUME NEW p \in Procs, NEW k \in Keys, NEW a \in Requests \cup {None},
             BeginVisit(p, k, a) \/ BeginAgain(p, k, a)
      PROVE  Quiet
  <2> DEFINE v == [at |-> "waiting", key |-> k, account |-> AccountOf[k], app |-> a]
  <2>1. v.at \notin Underway
    BY DEF Underway
  <2>2. visit' = [visit EXCEPT ![p] = v] /\ UNCHANGED <<acts, sensitive>>
    BY <1>5 DEF BeginVisit, BeginAgain, Asks
  <2> HIDE DEF v
  <2>3. NoStart
    BY <1>0, <2>1, <2>2, NewStartsNone
  <2>4. UNCHANGED queueVars /\ NoneCompleted
    BY <1>0, <1>5, LedgerCompletesNone DEF BeginVisit, BeginAgain, Reserve, Refused
  <2>5. QED
    BY <2>2, <2>3, <2>4, <1>2
<1>6. ASSUME NEW p \in Procs, NEW k \in Keys, BeginRefused(p, k) PROVE Quiet
  <2>1. (ReserveExpired(p, k) \/ Refused(p, k)) /\ UNCHANGED <<visit, acts, sensitive>>
    BY <1>6 DEF BeginRefused, browserVars
  <2>2. UNCHANGED queueVars /\ NoneCompleted
    BY <1>0, <2>1, LedgerCompletesNone DEF ReserveExpired, Refused
  <2>3. QED
    BY <2>1, <2>2, <1>2, <1>4
<1>7. ASSUME NEW p \in Procs, OpenProfile(p) PROVE Quiet
  <2>1. To(p, "open") /\ UNCHANGED <<queueVars, entry, acts, sensitive>>
    BY <1>7 DEF OpenProfile, ledgerVars
  <2>2. NoStart
    BY <1>0, <2>1, MovedOn DEF NoStart, Underway, VisitStages, Inside
  <2>3. QED
    BY <2>1, <2>2, <1>2, <1>3
<1>8. ASSUME NEW p \in Procs, ProfileBusy(p) \/ FailPreflight(p) \/ FailLedger(p) PROVE Quiet
  <2>1. EndVisit(p) /\ UNCHANGED <<queueVars, acts, sensitive>>
    BY <1>8 DEF ProfileBusy, FailPreflight, FailLedger, GiveBack, MarkUnknown
  <2>2. UNCHANGED entry \/ GiveBack(p) \/ MarkUnknown(p)
    BY <1>8 DEF ProfileBusy, FailPreflight, FailLedger, ledgerVars
  <2>3. NoneCompleted
    BY <1>0, <2>2, <1>3, LedgerCompletesNone
  <2>4. QED
    BY <1>0, <2>1, <2>3, <1>2, EndStartsNone
<1>9. ASSUME NEW p \in Procs, FailVisit(p) PROVE Quiet
  <2>1. /\ visit[p].at \in Underway /\ To(p, "failing") /\ UNCHANGED <<entry, acts, sensitive>>
    BY <1>9 DEF FailVisit, Underway, ledgerVars
  <2>2. NoStart
    BY <1>0, <2>1, MovedOn DEF NoStart, VisitStages, Inside
  <2>3. QED
    BY <2>1, <2>2, <1>3, <1>9, FailVisitKeeps
<1>10. ASSUME NEW p \in Procs, CrashVisit(p) PROVE Quiet
  <2>1. EndVisit(p) /\ UNCHANGED <<entry, acts, sensitive>>
    BY <1>10 DEF CrashVisit
  <2>2. QED
    BY <1>0, <2>1, <1>3, <1>10, CrashVisitKeeps, EndStartsNone
<1>11. ASSUME NEW p \in Procs, LeaveTakeover(p) PROVE Quiet
  <2>1. EndVisit(p) /\ UNCHANGED <<queueVars, entry, acts, sensitive>>
    BY <1>11 DEF LeaveTakeover, ledgerVars
  <2>2. QED
    BY <1>0, <2>1, <1>2, <1>3, EndStartsNone
<1>12. ASSUME NEW p \in Procs, NEW c \in Accounts, PauseForTakeover(p, c) PROVE Quiet
  <2> DEFINE v == [NoVisit EXCEPT !.at = "paused", !.account = c]
  <2>1. v.at \notin Underway
    BY DEF NoVisit, Underway
  <2>2. visit' = [visit EXCEPT ![p] = v] /\ UNCHANGED <<queueVars, entry, acts, sensitive>>
    BY <1>12 DEF PauseForTakeover, ledgerVars
  <2> HIDE DEF v
  <2>3. QED
    BY <1>0, <2>1, <2>2, <1>2, <1>3, NewStartsNone
<1>13. ASSUME NEW c \in Accounts, NEW o \in {"resumed", "cancelled"}, EndTakeover(c, o) PROVE Quiet
  BY <1>2, <1>3, <1>4, <1>13 DEF EndTakeover, ledgerVars
<1>14. CASE BrowserTick
  <2>1. UNCHANGED <<queueVars, entry>>
    BY <1>14 DEF BrowserTick, Tick, Q!Tick, Q!queueVars, queueVars
  <2>2. UNCHANGED <<visit, acts, sensitive>>
    BY <1>14 DEF BrowserTick, browserVars
  <2>3. QED
    BY <2>1, <2>2, <1>1, <1>2, <1>3, <1>4
<1>15. CASE UNCHANGED <<vars, browserVars>>
  <2>1. UNCHANGED <<queueVars, entry, visit, acts, sensitive>>
    BY <1>15 DEF vars, browserVars
  <2>2. QED
    BY <2>1, <1>1, <1>2, <1>3, <1>4
<1>16. CASE Reconciling
  <2> PICK p \in Procs :
        \/ \E k \in Keys, a \in Requests, r \in Resolutions : ReconcileCheck(p, k, a, r)
        \/ ReconcileRecord(p) \/ ReconcileConsume(p) \/ ReconcileRefused(p)
        \/ ReconcileFinish(p) \/ Leave(p)
    BY <1>16 DEF Reconciling
  <2>1. UNCHANGED <<visit, acts, sensitive>>
    BY <1>16 DEF Reconciling, browserVars
  <2>2. UNCHANGED entry \/ ReconcileRecord(p) \/ ReconcileFinish(p)
    BY DEF ReconcileCheck, ReconcileConsume, ReconcileRefused, Leave
  <2>3. UNCHANGED queueVars \/ ReconcileConsume(p)
    BY DEF ReconcileCheck, ReconcileRecord, ReconcileRefused, ReconcileFinish, Leave
  <2>4. ASSUME ReconcileConsume(p) PROVE QueueKept
    <3>1. Q!Consume(p, op[p].app, CallOf[op[p].key]) /\ op[p].at = "recorded"
      BY <2>4 DEF ReconcileConsume
    <3>2. op[p].key \in Keys /\ op[p].app \in Requests /\ CallOf[op[p].key] \in Scopes
      BY <1>0, <3>1, CallAssumption DEF IInv, OpWellFormed
    <3>3. QED
      BY <1>0, <3>1, <3>2, QueueConsumed
  <2>5. NoneCompleted
    BY <1>0, <1>3, <2>2, LedgerCompletesNone
  <2>6. QED
    BY <2>1, <2>3, <2>4, <2>5, <1>1, <1>2, <1>4
<1>17. ASSUME NEW p \in Procs, Start(p) \/ DoAct(p) \/ ConsumeVisit(p) PROVE ActsInv'
  <2>1. ActsShape'
    BY <1>17, StartKeepsActs, DoActKeepsActs, ConsumeKeepsActs DEF ActsInv
  <2>2. QueueKept /\ acts \subseteq acts'
    <3>1. CASE Start(p)
      BY <3>1, StartKeeps DEF Start
    <3>2. CASE DoAct(p)
      BY <3>2, DoActKeepsActs DEF ActsInv
    <3>3. CASE ConsumeVisit(p)
      BY <3>3, ConsumeVisitKeeps DEF ConsumeVisit
    <3>4. QED
      BY <1>17, <3>1, <3>2, <3>3
  <2>3. entry' = entry /\ sensitive' = sensitive
    BY <1>17 DEF Start, DoAct, Act, ConsumeVisit, ledgerVars
  <2>4. CompletedHasAct'
    BY <1>0, <2>2, <2>3, QuietCompleted DEF ActsInv
  <2>5. QED
    BY <2>1, <2>4 DEF ActsInv
<1>18. ASSUME NEW p \in Procs, CompleteVisit(p) PROVE ActsInv'
  <2>1. EndVisit(p) /\ UNCHANGED <<queueVars, acts, sensitive>>
    BY <1>18 DEF CompleteVisit, Complete
  <2>2. NoStart /\ QueueKept
    BY <1>0, <2>1, <1>2, EndStartsNone
  <2>3. ActsShape'
    BY <2>1, <2>2, QuietActs DEF ActsInv, NoStart
  <2>4. QED
    BY <2>3, <1>18, CompleteKeepsCompleted DEF ActsInv
<1> HIDE DEF Quiet
<1>19. CASE BrowserNext
  <2>1. ASSUME NEW p \in Procs,
               \/ OpenProfile(p) \/ ProfileBusy(p) \/ FailPreflight(p) \/ Start(p) \/ DoAct(p)
               \/ ConsumeVisit(p) \/ CompleteVisit(p) \/ FailVisit(p) \/ FailLedger(p)
               \/ CrashVisit(p) \/ LeaveTakeover(p)
        PROVE  ActsInv'
    BY <2>1, <1>1, <1>7, <1>8, <1>9, <1>10, <1>11, <1>17, <1>18
  <2>2. QED
    BY <1>19, <2>1, <1>1, <1>5, <1>6, <1>12, <1>13, <1>14 DEF BrowserNext
<1>20. QED
  BY <1>1, <1>15, <1>16, <1>19 DEF BrowserStep

LEMMA InitActs == Init /\ BrowserInit => ActsInv
<1> SUFFICES ASSUME Init, BrowserInit PROVE ActsInv
  OBVIOUS
<1>1. \A p \in Procs : visit[p].at = "idle"
  BY NoVisitIsVisit DEF BrowserInit
<1>2. acts = {}
  BY DEF BrowserInit
<1>3. \A k \in Keys : entry[k].st = "missing"
  BY DEF Init, Missing, NewEntry
<1>4. sensitive \subseteq Keys
  BY DEF BrowserInit
<1>5. QED
  BY <1>1, <1>2, <1>3, <1>4 DEF ActsInv, ActsShape, ActsType, UnderwayApproved, UnderwayActed, ActsApproved,
     CompletedHasAct, Underway

\* Every sensitive action was done under an approval of its own that fitted it, and is completed
\* only when such an approval is consumed: through crashes, expiry, failures between the two
\* stores, and reconcilers at work.
THEOREM SensitiveActsAreAccounted == BrowserSpec => []SensitiveActsAccounted
<1>1. VisitInv /\ [BrowserNext \/ Reconciling]_<<vars, browserVars>> => VisitInv'
  BY StepVisit DEF BrowserStep
<1>2. VisitInv /\ ActsInv /\ [BrowserNext \/ Reconciling]_<<vars, browserVars>> => ActsInv'
  BY StepActs DEF BrowserStep
<1>3. QED
  BY <1>1, <1>2, InitVisit, InitActs, ActsEnough, PTL DEF BrowserSpec

-----------------------------------------------------------------------------
(* The ledger under the browser.  To the ledger, a step of the browser is  *)
(* one of its own or a step of the queue, during which a process may die;  *)
(* so what the ledger guarantees its other callers it guarantees here.     *)

QueueMove ==
  /\ UNCHANGED <<entry, drawn, ghosts>> /\ QueueKept
  /\ op' = op \/ \E p \in Procs : op' = [op EXCEPT ![p] = Idle]

LEMMA LedgerOrQueue == VisitInv /\ BrowserStep => [Next]_vars \/ QueueMove
<1> SUFFICES ASSUME VisitInv, BrowserStep PROVE [Next]_vars \/ QueueMove
  OBVIOUS
<1>1. UNCHANGED <<queueVars, now, ledgerVars>> => UNCHANGED vars
  BY DEF vars, ledgerVars
<1>2. ASSUME NEW p \in Procs, NEW k \in Keys,
             (\E a \in Requests \cup {None} : BeginVisit(p, k, a) \/ BeginAgain(p, k, a)) \/ BeginRefused(p, k)
      PROVE  [Next]_vars
  <2>1. Reserve(p, k) \/ Refused(p, k) \/ ReserveExpired(p, k)
    BY <1>2 DEF BeginVisit, BeginAgain, BeginRefused
  <2>2. QED
    BY <2>1 DEF Next
<1>3. ASSUME NEW p \in Procs, FailPreflight(p) PROVE [Next]_vars
  <2>1. CASE op[p].at = "owner"
    <3>1. AbortPreflight(p)
      BY <1>3, <2>1 DEF FailPreflight, Unstarted, AbortPreflight, VisitInv, VisitOwns
    <3>2. QED
      BY <3>1 DEF Next
  <2>2. CASE op[p].at # "owner"
    BY <1>1, <1>3, <2>2 DEF FailPreflight
  <2>3. QED
    BY <2>1, <2>2
<1>4. ASSUME NEW p \in Procs, DoAct(p) \/ CompleteVisit(p) \/ FailLedger(p) PROVE [Next]_vars
  <2>1. Act(p) \/ Complete(p) \/ MarkUnknown(p) \/ UNCHANGED <<queueVars, now, ledgerVars>>
    BY <1>4 DEF DoAct, CompleteVisit, FailLedger
  <2>2. QED
    BY <1>1, <2>1 DEF Next
<1>5. ASSUME NEW p \in Procs, OpenProfile(p) \/ LeaveTakeover(p) PROVE [Next]_vars
  BY <1>1, <1>5 DEF OpenProfile, LeaveTakeover
<1>6. ASSUME NEW p \in Procs, NEW c \in Accounts, PauseForTakeover(p, c) PROVE [Next]_vars
  BY <1>1, <1>6 DEF PauseForTakeover
<1>7. ASSUME NEW c \in Accounts, NEW o \in {"resumed", "cancelled"}, EndTakeover(c, o) PROVE [Next]_vars
  BY <1>1, <1>7 DEF EndTakeover
<1>8. ASSUME NEW p \in Procs, Start(p) \/ ConsumeVisit(p) \/ FailVisit(p) PROVE QueueMove
  <2>1. UNCHANGED ledgerVars
    BY <1>8 DEF Start, ConsumeVisit, FailVisit
  <2>2. QueueKept
    BY <1>8, StartKeeps, ConsumeVisitKeeps, FailVisitKeeps
  <2>3. QED
    BY <2>1, <2>2 DEF QueueMove, ledgerVars
<1>9. ASSUME NEW p \in Procs, ProfileBusy(p) \/ CrashVisit(p) PROVE QueueMove
  <2>1. op' = [op EXCEPT ![p] = Idle] /\ UNCHANGED <<entry, drawn, ghosts>>
    BY <1>9 DEF ProfileBusy, CrashVisit
  <2>2. QueueKept
    BY <1>9, QueueSame, CrashVisitKeeps DEF ProfileBusy, VisitInv
  <2>3. QED
    BY <2>1, <2>2 DEF QueueMove
<1>10. CASE BrowserNext
  BY <1>10, <1>2, <1>3, <1>4, <1>5, <1>6, <1>7, <1>8, <1>9 DEF BrowserNext, BrowserTick, Next
<1>11. CASE Reconciling
  BY <1>11 DEF Reconciling, Next
<1>12. CASE UNCHANGED <<vars, browserVars>>
  BY <1>12
<1>13. QED
  BY <1>10, <1>11, <1>12 DEF BrowserStep

LEMMA MovedOps ==
  ASSUME IInv, QueueMove, NEW p \in Procs, op'[p].at # "idle"
  PROVE  op'[p] = op[p]
  BY DEF QueueMove, IInv, TypeOK, Idle, NewOp

LEMMA MoveKeepsSettled == IInv /\ SettledInv /\ QueueMove => SettledInv'
<1> SUFFICES ASSUME IInv, SettledInv, QueueMove PROVE SettledInv'
  OBVIOUS
<1>1. entry' = entry /\ settled' = settled
  BY DEF QueueMove, ghosts
<1>2. \A x \in settled : status'[x[1]] = "consumed"
  BY DEF SettledInv, SettledWithApproval, QueueMove, QueueKept, IInv, TypeOK
<1>3. \A p \in Procs : op'[p].at = "consumed" => status'[op'[p].app] = "consumed"
  BY MovedOps DEF SettledInv, QueueMove, QueueKept, IInv, OpWellFormed
<1>4. QED
  BY <1>1, <1>2, <1>3 DEF SettledInv, SettledWithApproval

LEMMA MoveLosesNothing ==
  IInv /\ LossInv /\ CrashLosesNoReconciliation /\ QueueMove => (LossInv /\ CrashLosesNoReconciliation)'
<1> SUFFICES ASSUME IInv, LossInv, CrashLosesNoReconciliation, QueueMove
             PROVE  (LossInv /\ CrashLosesNoReconciliation)'
  OBVIOUS
<1>1. UNCHANGED <<entry, spent, settled, disturbed>>
  BY DEF QueueMove, ghosts
<1>2. \A x \in spent : status'[x[1]] = "consumed"
  BY DEF LossInv, QueueMove, QueueKept, IInv, TypeOK
<1>3. \A p \in Procs : op'[p].at = "consumed" => status'[op'[p].app] = "consumed"
  BY MovedOps DEF LossInv, QueueMove, QueueKept, IInv, OpWellFormed
<1>4. \A p \in Procs : op'[p].at = "recorded" => op'[p] = op[p]
  BY MovedOps
<1>5. LossInv'
  BY <1>1, <1>2, <1>3, <1>4 DEF LossInv, OnFile
<1>6. CrashLosesNoReconciliation'
  BY <1>1 DEF CrashLosesNoReconciliation, OnFile
<1>7. QED
  BY <1>5, <1>6

LEMMA SpecVisitInv == BrowserSpec => []VisitInv
<1>1. VisitInv /\ [BrowserNext \/ Reconciling]_<<vars, browserVars>> => VisitInv'
  BY StepVisit DEF BrowserStep
<1>2. QED
  BY <1>1, InitVisit, PTL DEF BrowserSpec

\* A visit without an owner token is to a key that is completed.
VisitsAgain ==
  \A p \in Procs : visit[p].at \in Visiting /\ op[p].at # "owner" => entry[visit[p].key].st \in Done

\* An act under an owner token is among the effects of its key, and the only one under that token.
ActsBooked ==
  /\ \A x \in acts : IF x[4] = 0 THEN entry[x[1]].st \in Done ELSE x[4] \in effects[x[1]]
  /\ \A x, y \in acts : x[1] = y[1] /\ x[4] = y[4] /\ x[4] # 0 => x = y

RepeatInv == ActsType /\ VisitsAgain /\ ActsBooked

LEMMA RepeatsEnough == VisitInv /\ RepeatInv => RepeatsAreAccounted
<1> SUFFICES ASSUME VisitInv, RepeatInv PROVE RepeatsAreAccounted
  OBVIOUS
<1>1. RepeatOnlyAfterRelease
  BY DEF VisitInv, IInv, EffectsKnown, RepeatOnlyAfterRelease
<1>2. \A x \in acts : x[1] \in Keys
  BY DEF RepeatInv, ActsType
<1>3. ASSUME NEW x \in acts, NEW y \in acts, x[1] = y[1], x # y, 0 \notin {x[4], y[4]}
      PROVE  x[4] # y[4] /\ {x[4], y[4]} \cap released[x[1]] # {}
  <2>1. x[4] \in effects[x[1]] /\ y[4] \in effects[x[1]] /\ x[4] # y[4]
    BY <1>3 DEF RepeatInv, ActsBooked
  <2>2. QED
    BY <1>1, <1>2, <2>1 DEF RepeatOnlyAfterRelease
<1>4. QED
  BY <1>1, <1>3 DEF RepeatsAreAccounted, RepeatInv, ActsBooked

\* A completed key stays so, and what was done is not undone.
LEMMA StepGrows ==
  ASSUME VisitInv, BrowserStep, NEW k \in Keys
  PROVE  /\ entry[k].st \in Done => entry'[k] = entry[k]
         /\ effects[k] \subseteq effects'[k]
<1>1. CASE [Next]_vars
  <2>1. entry[k].st \in Done => entry'[k] = entry[k]
    BY <1>1, StepCompleted DEF VisitInv
  <2>2. ASSUME NEW p \in Procs, Act(p) PROVE effects[k] \subseteq effects'[k]
    BY <2>2 DEF Act, VisitInv, IInv, TypeOK
  <2>3. CASE \A p \in Procs : ~Act(p)
    <3>1. effects' = effects
      BY <1>1, <2>3 DEF Next, vars, ghosts, Reserve, ReserveExpired, Refused, Complete, MarkUnknown,
         AbortPreflight, GiveBack, Leave, ReconcileCheck, ReconcileRecord, ReconcileConsume,
         ReconcileRefused, ReconcileFinish, Tick
    <3>2. QED
      BY <2>1, <3>1
  <2>4. QED
    BY <2>1, <2>2, <2>3
<1>2. CASE QueueMove
  BY <1>2 DEF QueueMove, ghosts
<1>3. QED
  BY <1>1, <1>2, LedgerOrQueue

\* A visit goes on as it was, or begins with a token, or on a completed key.
GoesOn(q) ==
  \/ visit[q].at \in Visiting /\ visit'[q].key = visit[q].key /\ op'[q].at = op[q].at
  \/ op'[q].at = "owner"
  \/ entry'[visit'[q].key].st \in Done

LEMMA VisitsGoOn ==
  ASSUME VisitInv, BrowserStep, NEW q \in Procs, visit'[q].at \in Visiting
  PROVE  GoesOn(q)
<1>0. PageInv /\ IInv
  BY DEF VisitInv
<1>1. visit'[q] = visit[q] /\ op'[q] = op[q] => GoesOn(q)
  BY DEF GoesOn
<1>2. ASSUME NEW p \in Procs, NEW k \in Keys, NEW a \in Requests \cup {None},
             BeginVisit(p, k, a) \/ BeginAgain(p, k, a)
      PROVE  GoesOn(q)
  <2> DEFINE v == [at |-> "waiting", key |-> k, account |-> AccountOf[k], app |-> a]
  <2>1. visit' = [visit EXCEPT ![p] = v] /\ v.key = k
    BY <1>2 DEF BeginVisit, BeginAgain, Asks
  <2>2. CASE q # p
    <3>1. op'[q] = op[q] /\ visit'[q] = visit[q]
      BY <1>0, <1>2, <2>1, <2>2 DEF BeginVisit, BeginAgain, Reserve, Refused, IInv, TypeOK, PageInv, BrowserTypeOK
    <3>2. QED
      BY <3>1, <1>1
  <2>3. CASE q = p /\ BeginVisit(p, k, a)
    <3>1. op' = [op EXCEPT ![p] = NewOp("owner", k, drawn + 1, None, None)]
      BY <2>3 DEF BeginVisit, Reserve
    <3>2. op'[p].at = "owner"
      BY <3>1 DEF NewOp, IInv, VisitInv, TypeOK
    <3>3. QED
      BY <3>2, <2>3 DEF GoesOn
  <2>4. CASE q = p /\ BeginAgain(p, k, a)
    <3>1. entry' = Recovered /\ Recovered[k].st \in Done
      BY <2>4 DEF BeginAgain, Refused
    <3>2. visit'[q].key = k
      BY <2>1, <2>4 DEF VisitInv, PageInv, BrowserTypeOK
    <3>3. QED
      BY <3>1, <3>2 DEF GoesOn
  <2>5. QED
    BY <1>2, <2>2, <2>3, <2>4
<1>3. ASSUME NEW p \in Procs, NEW k \in Keys, BeginRefused(p, k) PROVE GoesOn(q)
  BY <1>1, <1>3 DEF BeginRefused, ReserveExpired, Refused, browserVars
<1>4. ASSUME NEW p \in Procs, NEW stage \in VisitStages, To(p, stage), visit[p].at \in Visiting,
             op' = op \/ Act(p)
      PROVE  GoesOn(q)
  <2>1. visit'[q].key = visit[q].key /\ (q # p => visit'[q] = visit[q])
    BY <1>0, <1>4, MovedOn
  <2>2. op'[q].at = op[q].at
    BY <1>0, <1>4 DEF Act, IInv, TypeOK, Op
  <2>3. QED
    BY <1>4, <2>1, <2>2 DEF GoesOn
<1>5. ASSUME NEW p \in Procs, EndVisit(p), op' = op \/ op' = [op EXCEPT ![p] = Idle] PROVE GoesOn(q)
  <2>1. visit'[p] = NoVisit /\ (q # p => visit'[q] = visit[q])
    BY <1>0, <1>5, EndedVisit
  <2>2. q # p
    BY <2>1, NoVisitIsVisit DEF Visiting, Inside
  <2>3. op'[q] = op[q]
    BY <1>0, <1>5, <2>2 DEF IInv, TypeOK
  <2>4. QED
    BY <1>1, <2>1, <2>2, <2>3
<1>6. ASSUME NEW p \in Procs, OpenProfile(p) \/ Start(p) \/ DoAct(p) \/ ConsumeVisit(p) \/ FailVisit(p)
      PROVE  GoesOn(q)
  <2>1. /\ visit[p].at \in Visiting /\ (op' = op \/ Act(p))
        /\ \E stage \in {"open", "started", "acted", "consumed", "failing"} : To(p, stage)
    BY <1>6 DEF OpenProfile, Start, DoAct, ConsumeVisit, FailVisit, ledgerVars, Visiting, Inside
  <2>2. QED
    BY <1>4, <2>1 DEF VisitStages, Inside
<1>7. ASSUME NEW p \in Procs,
             \/ ProfileBusy(p) \/ FailPreflight(p) \/ CompleteVisit(p) \/ FailLedger(p)
             \/ CrashVisit(p) \/ LeaveTakeover(p)
      PROVE  GoesOn(q)
  <2>1. EndVisit(p) /\ (op' = op \/ op' = [op EXCEPT ![p] = Idle])
    BY <1>7 DEF ProfileBusy, FailPreflight, CompleteVisit, FailLedger, CrashVisit, LeaveTakeover, ledgerVars,
       GiveBack, Complete, MarkUnknown
  <2>2. QED
    BY <1>5, <2>1
<1>8. ASSUME NEW p \in Procs, NEW c \in Accounts, PauseForTakeover(p, c) PROVE GoesOn(q)
  <2> DEFINE v == [NoVisit EXCEPT !.at = "paused", !.account = c]
  <2>1. visit' = [visit EXCEPT ![p] = v] /\ op' = op
    BY <1>8 DEF PauseForTakeover, ledgerVars
  <2>2. v.at = "paused"
    BY DEF NoVisit
  <2> HIDE DEF v
  <2>3. q # p /\ visit'[q] = visit[q]
    BY <2>1, <2>2, <1>0 DEF PageInv, BrowserTypeOK, Visiting, Inside
  <2>4. QED
    BY <1>1, <2>1, <2>3
<1>9. ASSUME NEW c \in Accounts, NEW o \in {"resumed", "cancelled"}, EndTakeover(c, o) PROVE GoesOn(q)
  BY <1>1, <1>9 DEF EndTakeover, ledgerVars
<1>10. CASE BrowserTick \/ UNCHANGED <<vars, browserVars>>
  BY <1>1, <1>10 DEF BrowserTick, Tick, browserVars, vars
<1>11. CASE Reconciling
  <2> PICK p \in Procs :
        /\ visit[p].at = "idle"
        /\ \/ \E k \in Keys, a \in Requests, r \in Resolutions : ReconcileCheck(p, k, a, r)
           \/ ReconcileRecord(p) \/ ReconcileConsume(p) \/ ReconcileRefused(p)
           \/ ReconcileFinish(p) \/ Leave(p)
    BY <1>11 DEF Reconciling
  <2>1. visit' = visit /\ q # p
    BY <1>11 DEF Reconciling, browserVars, Visiting, Inside
  <2>2. op'[q] = op[q]
    BY <1>0, <2>1 DEF IInv, TypeOK, ReconcileCheck, ReconcileRecord, ReconcileConsume, ReconcileRefused,
       ReconcileFinish, Leave
  <2>3. QED
    BY <1>1, <2>1, <2>2
<1>12. QED
  BY <1>2, <1>3, <1>6, <1>7, <1>8, <1>9, <1>10, <1>11 DEF BrowserStep, BrowserNext

\* Who acts with a token acts under one nobody has acted under.
LEMMA DoActBooks ==
  ASSUME VisitInv, RepeatInv, NEW p \in Procs, DoAct(p), ActsType'
  PROVE  ActsBooked'
<1> PICK k, t : k = visit[p].key /\ t = IF op[p].at = "owner" THEN op[p].tok ELSE 0
  OBVIOUS
<1> DEFINE a   == visit[p].app
           act == <<k, a, IF a = None THEN 0 ELSE token[a], t>>
<1>1. acts' = acts \cup {act} /\ act[1] = k /\ act[4] = t
  BY DEF DoAct
<1> HIDE DEF act
<1>2. visit[p].at = "started" /\ k \in Keys /\ entry' = entry
  BY DEF DoAct, Act, ledgerVars, VisitInv, PageInv, VisitsWellFormed, Visiting, Inside
<1>3. ASSUME op[p].at = "owner"
      PROVE  t # 0 /\ t \notin effects[k] /\ effects' = [effects EXCEPT ![k] = @ \cup {t}]
  <2>1. op[p].key = k /\ ~op[p].acted
    BY <1>2, <1>3 DEF VisitInv, VisitOwns
  <2>2. Act(p)
    BY <1>3 DEF DoAct
  <2>3. t # 0
    BY <1>3 DEF VisitInv, IInv, OwnersKnown
  <2>4. t \notin effects[k]
    BY <1>3, <2>1 DEF VisitInv, AbortInv, UnactedOwner
  <2>5. QED
    BY <1>3, <2>1, <2>2, <2>3, <2>4 DEF Act
<1>4. ASSUME op[p].at # "owner" PROVE t = 0 /\ entry[k].st \in Done /\ effects' = effects
  BY <1>2, <1>4 DEF RepeatInv, VisitsAgain, Visiting, Inside, DoAct, ledgerVars, ghosts
<1>5. \A j \in Keys : effects[j] \subseteq effects'[j]
  BY <1>3, <1>4 DEF VisitInv, IInv, TypeOK
<1>6. \A x \in acts : x[1] \in Keys
  BY DEF RepeatInv, ActsType
<1>7. t # 0 => t \in effects'[k]
  BY <1>2, <1>3, <1>4 DEF VisitInv, IInv, TypeOK
<1>8. \A x \in acts' : IF x[4] = 0 THEN entry'[x[1]].st \in Done ELSE x[4] \in effects'[x[1]]
  <2> SUFFICES ASSUME NEW x \in acts' PROVE IF x[4] = 0 THEN entry[x[1]].st \in Done ELSE x[4] \in effects'[x[1]]
    BY <1>2
  <2>1. CASE x \in acts
    BY <2>1, <1>5, <1>6 DEF RepeatInv, ActsBooked
  <2>2. CASE x = act
    BY <2>2, <1>1, <1>3, <1>4, <1>7
  <2>3. QED
    BY <2>1, <2>2, <1>1
<1>9. ASSUME NEW x \in acts, x[1] = k, x[4] = t, t # 0 PROVE FALSE
  BY <1>3, <1>4, <1>9 DEF RepeatInv, ActsBooked
<1>10. QED
  BY <1>1, <1>8, <1>9 DEF RepeatInv, ActsBooked

LEMMA StepRepeats == VisitInv /\ ActsInv /\ RepeatInv /\ BrowserStep => RepeatInv'
<1> SUFFICES ASSUME VisitInv, ActsInv, RepeatInv, BrowserStep PROVE RepeatInv'
  OBVIOUS
<1>1. ActsType'
  BY StepActs DEF ActsInv, ActsShape
<1>2. VisitsAgain'
  <2> SUFFICES ASSUME NEW q \in Procs, visit'[q].at \in Visiting, op'[q].at # "owner"
               PROVE  entry'[visit'[q].key].st \in Done
    BY DEF VisitsAgain
  <2>1. CASE visit[q].at \in Visiting /\ visit'[q].key = visit[q].key /\ op'[q].at = op[q].at
    <3>1. visit[q].key \in Keys /\ entry[visit[q].key].st \in Done
      BY <2>1 DEF VisitInv, PageInv, VisitsWellFormed, RepeatInv, VisitsAgain
    <3>2. QED
      BY <2>1, <3>1, StepGrows
  <2>2. QED
    BY <2>1, VisitsGoOn DEF GoesOn
<1>3. CASE acts' = acts
  <2>1. \A x \in acts : x[1] \in Keys
    BY DEF RepeatInv, ActsType
  <2>2. \A x \in acts : IF x[4] = 0 THEN entry'[x[1]].st \in Done ELSE x[4] \in effects'[x[1]]
    BY <2>1, StepGrows DEF RepeatInv, ActsBooked
  <2>3. QED
    BY <1>1, <1>2, <1>3, <2>2 DEF RepeatInv, ActsBooked
<1>4. ASSUME NEW p \in Procs, DoAct(p) PROVE RepeatInv'
  BY <1>1, <1>2, <1>4, DoActBooks DEF RepeatInv
<1>5. acts' = acts \/ \E p \in Procs : DoAct(p)
  BY DEF BrowserStep, BrowserNext, BeginVisit, BeginAgain, BeginRefused, Asks, OpenProfile, ProfileBusy,
     FailPreflight, Start, ConsumeVisit, CompleteVisit, FailVisit, FailLedger, CrashVisit, LeaveTakeover,
     PauseForTakeover, EndTakeover, BrowserTick, Reconciling, browserVars
<1>6. QED
  BY <1>3, <1>4, <1>5

\* However browser actions fail, expire or die, one of them is repeated only after its key was
\* given back, or on a key that is completed and stays so, by a visit that has no owner token.
THEOREM BrowserRepeatsAccounted == BrowserSpec => []RepeatsAreAccounted
<1>1. Init /\ BrowserInit => RepeatInv
  <2>1. Init /\ BrowserInit => VisitsAgain
    BY NoVisitIsVisit DEF BrowserInit, VisitsAgain, Visiting, Inside
  <2>2. QED
    BY <2>1 DEF BrowserInit, RepeatInv, ActsType, ActsBooked
<1>2. VisitInv /\ ActsInv /\ [BrowserNext \/ Reconciling]_<<vars, browserVars>> => ActsInv'
  BY StepActs DEF BrowserStep
<1>3. VisitInv /\ ActsInv /\ RepeatInv /\ [BrowserNext \/ Reconciling]_<<vars, browserVars>> => RepeatInv'
  BY StepRepeats DEF BrowserStep
<1>4. QED
  BY <1>1, <1>2, <1>3, InitActs, RepeatsEnough, SpecVisitInv, PTL DEF BrowserSpec

\* At most one live browser action can still complete a key.
THEOREM BrowserSingleOwner == BrowserSpec => []OneOwner
<1>1. VisitInv => OneOwner
  BY DEF VisitInv, IInv, OwnersKnown, OneOwner, Owns
<1>2. QED
  BY <1>1, SpecVisitInv, PTL

\* What a browser action or a reconciler completed stays as it is, and an unknown outcome is left
\* only towards reconciliation.
THEOREM BrowserCompletedStays == BrowserSpec => CompletedIsFinal
<1>1. VisitInv /\ [BrowserNext \/ Reconciling]_<<vars, browserVars>> =>
        [\A k \in Keys :
           /\ entry[k].st \in Done => entry'[k] = entry[k]
           /\ entry[k].st = "unknown_outcome" =>
                entry'[k].st \in {"unknown_outcome", "reconciling_started"}]_vars
  <2>1. VisitInv /\ [Next]_vars =>
          \A k \in Keys : /\ entry[k].st \in Done => entry'[k] = entry[k]
                          /\ entry[k].st = "unknown_outcome" =>
                               entry'[k].st \in {"unknown_outcome", "reconciling_started"}
    BY StepCompleted DEF VisitInv
  <2>2. QueueMove =>
          \A k \in Keys : /\ entry[k].st \in Done => entry'[k] = entry[k]
                          /\ entry[k].st = "unknown_outcome" =>
                               entry'[k].st \in {"unknown_outcome", "reconciling_started"}
    BY DEF QueueMove
  <2>3. QED
    BY <2>1, <2>2, LedgerOrQueue DEF BrowserStep
<1>2. QED
  BY <1>1, SpecVisitInv, PTL DEF BrowserSpec, CompletedIsFinal

\* A key counts as reconciled only with a consumed approval, browser actions using the same queue.
THEOREM BrowserSettledByApproval == BrowserSpec => []SettledWithApproval
<1>1. Init => SettledInv
  BY DEF Init, SettledInv, SettledWithApproval, Idle, NewOp, Missing, NewEntry, Reconciled
<1>2. VisitInv /\ SettledInv /\ [BrowserNext \/ Reconciling]_<<vars, browserVars>> => SettledInv'
  BY LedgerOrQueue, StepSettledInv, MoveKeepsSettled DEF BrowserStep, VisitInv
<1>3. SettledInv => SettledWithApproval
  BY DEF SettledInv
<1>4. QED
  BY <1>1, <1>2, <1>3, SpecVisitInv, PTL DEF BrowserSpec

\* A reconciliation whose approval is consumed survives crashes of browser actions too.
THEOREM BrowserCrashLosesNothing == BrowserSpec => []CrashLosesNoReconciliation
<1>1. Init => LossInv /\ CrashLosesNoReconciliation
  BY DEF Init, LossInv, CrashLosesNoReconciliation, Idle, NewOp
<1>2. /\ VisitInv /\ LossInv /\ CrashLosesNoReconciliation
      /\ [BrowserNext \/ Reconciling]_<<vars, browserVars>>
      => (LossInv /\ CrashLosesNoReconciliation)'
  BY LedgerOrQueue, StepLossInv, MoveLosesNothing DEF BrowserStep, VisitInv
<1>3. QED
  BY <1>1, <1>2, SpecVisitInv, PTL DEF BrowserSpec

================================================================================
