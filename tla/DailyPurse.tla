------------------------------ MODULE DailyPurse ------------------------------
(***************************************************************************)
(* What the budget ledger promises (budget.py): a purse for a day.  Money  *)
(* is set aside only when the purse has room for all of it, what is set    *)
(* aside is settled at most once, and each day the purse starts afresh.    *)
(***************************************************************************)
EXTENDS Integers, Functions

CONSTANTS Ids, Amounts, Limit

VARIABLES
  spent,   \* what was spent this day
  aside    \* identifier -> amount set aside this day and not settled

vars == <<spent, aside>>

Init == spent = 0 /\ aside = <<>>

Without(f, i) == Restrict(f, DOMAIN f \ {i})

SetAside(i, amount) ==
  /\ i \notin DOMAIN aside
  /\ spent + SumFunction(aside) + amount <= Limit
  /\ aside' = [j \in DOMAIN aside \cup {i} |-> IF j = i THEN amount ELSE aside[j]]
  /\ UNCHANGED spent

Settle(i, amount) ==
  /\ i \in DOMAIN aside
  /\ aside' = Without(aside, i)
  /\ spent' = spent + amount

NewDay == spent' = 0 /\ aside' = <<>>

Next ==
  \/ \E i \in Ids, amount \in Amounts : SetAside(i, amount) \/ Settle(i, amount)
  \/ NewDay

Spec == Init /\ [][Next]_vars
==============================================================================
