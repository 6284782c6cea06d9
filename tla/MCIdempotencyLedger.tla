------------------------- MODULE MCIdempotencyLedger -------------------------
(***************************************************************************)
(* The ledger and the browser actions that use it, for TLC.  A behaviour   *)
(* with focus "ledger" lets every process make any call of the ledger, in  *)
(* any order; with "browser" the processes are browser actions and         *)
(* takeovers.                                                              *)
(***************************************************************************)
EXTENDS BrowserOperator, TLC

CONSTANTS
  none, noProc, acc1,
  Foci   \* the ways of using the ledger a run looks at

VARIABLE focus

MCNone  == none
MCCanon == [k \in Keys |-> k]

\* The scope reconcile presents: the key's action, the key itself as target,
\* the account and connector of the evidence.
MCCallOf ==
  [k \in Keys |-> [action |-> "create_asset", target |-> k, user |-> none,
                   account |-> acc1, connector |-> "canva", key |-> none]]

MCBrowserScope == [k \in Keys |-> [MCCallOf[k] EXCEPT !.action = "browser_submit", !.user = DefaultUser]]

MCAccountOf == [k \in Keys |-> acc1]

MCScopes == {MCCallOf[k] : k \in Keys} \cup {MCBrowserScope[k] : k \in Keys}

MCInit ==
  /\ Init /\ BrowserInit
  /\ focus \in Foci
  /\ focus = "ledger" => /\ \A a \in Requests : scope[a] \in {MCCallOf[k] : k \in Keys}
                         /\ \A a \in Requests : expires[a] > MaxTime
                         /\ sensitive = {}
  /\ focus = "browser" => /\ \A a \in Requests : scope[a] \in {MCBrowserScope[k] : k \in Keys}
                          /\ \E a, b \in Requests : expires[a] < expires[b]
                          /\ sensitive \in {{}, Keys}

\* Bounds on a behaviour of the browser: one key is visited, sensitive or not;
\* one approval expires and one does not; a profile is taken over once.
OneKey == Cardinality({k \in Keys : entry'[k].st # "missing"}) <= 1

OneTakeover == \A c \in Accounts : takeover'[c] = "active" => takeover[c] \in {"inactive", "active"}

MCNext ==
  /\ \/ focus = "ledger" /\ Next /\ UNCHANGED browserVars
     \/ focus = "browser" /\ BrowserNext /\ OneKey /\ OneTakeover
  /\ UNCHANGED focus

MCSpec == MCInit /\ [][MCNext]_<<vars, browserVars, focus>>

Symmetry == Permutations(Procs) \cup Permutations(Keys) \cup Permutations(Requests)
==============================================================================
