--------------------------- MODULE ModelCallsProofs ---------------------------
(***************************************************************************)
(* For any processes, routes, listings, estimates, usages and limits: no   *)
(* reservation of the day is lost before its call settles it, none leaks   *)
(* unless its process dies, and a day's use stays within its budget.       *)
(* First the reservations; then what SumFunction computes; then the types  *)
(* and what each step of a call does to the money; then the balance of the *)
(* ledger; last, that the ledger implements the purse of a day.            *)
(***************************************************************************)
EXTENDS ModelCalls, FiniteSetTheorems, TLAPS

-----------------------------------------------------------------------------
(* The inductive invariant.                                                *)

FieldNames == {"at", "routes", "id", "day", "usage", "window", "good", "capacity", "health"}

Formed ==
  /\ DOMAIN call = Procs
  /\ \A p \in Procs : DOMAIN call[p] = FieldNames
  /\ DOMAIN ledger = {"date", "spent", "held"}

\* The days that are written down are not ahead of the clock.
Dated ==
  /\ now \in Nat
  /\ ledger.date \in Int /\ ledger.date <= Today(now)
  /\ \A p \in Procs : call[p].day \in Int /\ call[p].day <= Today(now)

\* A call has a reservation just while it is not settled, and each has its own.
OwnReservation ==
  /\ drawn \in Nat
  /\ \A i \in DOMAIN ledger.held : i \in 1 .. drawn
  /\ \A p \in Procs : IF Unsettled(p) THEN call[p].id \in 1 .. drawn ELSE call[p].id = NoId
  /\ \A p, q \in Procs : Unsettled(p) /\ Unsettled(q) /\ call[p].id = call[q].id => p = q

\* A call that has not been settled is not yet marked as a good one.
NotYetGood ==
  \A p \in Procs : call[p].at \in {"next", "reserve", "sent", "answered"} => ~call[p].good

IInv ==
  /\ Formed
  /\ Dated
  /\ OwnReservation
  /\ NotYetGood
  /\ ReservationStands
  /\ NothingLeaks

-----------------------------------------------------------------------------

LEMMA DayGoesOn ==
  ASSUME NEW t \in Nat
  PROVE  Today(t) \in Nat /\ Today(t) <= Today(t + 1)
<1>1. DayLength \in Nat /\ DayLength > 0
  BY BoundAssumption
<1> QED
  BY <1>1 DEF Today

LEMMA Start == Init => IInv
<1> SUFFICES ASSUME Init PROVE IInv
  OBVIOUS
<1>1. DayLength \in Nat /\ DayLength > 0
  BY BoundAssumption
<1>2. now = 0 /\ Today(now) = 0
  BY <1>1 DEF Init, Today
<1>3. ledger = [date |-> 0, spent |-> 0, held |-> <<>>] /\ DOMAIN ledger.held = {}
  BY DEF Init, EmptyLedger
<1>4. \A p \in Procs : call[p] = NoCall /\ call[p].at = "idle" /\ call[p].id = NoId /\ call[p].day = 0
  BY DEF Init, NoCall
<1>5. \A p \in Procs : ~Unsettled(p)
  BY <1>4 DEF Unsettled, At
<1>6. Formed
  BY <1>3, <1>4 DEF Formed, Init, NoCall, FieldNames
<1>7. Dated
  BY <1>2, <1>3, <1>4 DEF Dated
<1>8. OwnReservation
  BY <1>3, <1>4, <1>5 DEF OwnReservation, Init
<1>9. NotYetGood
  BY <1>4 DEF NotYetGood
<1>10. ReservationStands
  BY <1>5 DEF ReservationStands
<1>11. NothingLeaks
  BY <1>2, <1>3 DEF NothingLeaks, LedgerOf
<1> QED
  BY <1>6, <1>7, <1>8, <1>9, <1>10, <1>11 DEF IInv

-----------------------------------------------------------------------------
(* What the steps do to the state the invariant is about.                  *)

InFlight(c) == c.at \in {"sent", "answered"} \/ (c.at = "failed" /\ ~c.good)

LEMMA InFlightIsUnsettled ==
  /\ \A p \in Procs : InFlight(call[p]) <=> Unsettled(p)
  /\ \A p \in Procs : InFlight(call'[p]) <=> Unsettled(p)'
BY Zenon DEF InFlight, Unsettled, At

\* A step of one call that neither takes nor gives back a reservation.
Keeps(p) ==
  /\ UNCHANGED <<now, ledger, drawn, orphans>>
  /\ \E c : /\ call' = [call EXCEPT ![p] = c]
            /\ DOMAIN c = FieldNames
            /\ c.id = call[p].id
            /\ c.day \in {0, call[p].day}
            /\ Unsettled(p) => c.day = call[p].day
            /\ (Unsettled(p) /\ InFlight(c)) \/ (~Unsettled(p) /\ ~InFlight(c))
            /\ c.at \in {"next", "reserve", "sent", "answered"} => ~c.good

LEMMA KeepsSteps ==
  ASSUME IInv, NEW p \in Procs, Keeps(p)
  PROVE  IInv'
<1> USE DEF IInv
<1>1. PICK c : /\ call' = [call EXCEPT ![p] = c]
               /\ DOMAIN c = FieldNames
               /\ c.id = call[p].id
               /\ c.day \in {0, call[p].day}
               /\ Unsettled(p) => c.day = call[p].day
               /\ (Unsettled(p) /\ InFlight(c)) \/ (~Unsettled(p) /\ ~InFlight(c))
               /\ c.at \in {"next", "reserve", "sent", "answered"} => ~c.good
  BY DEF Keeps
<1>2. now' = now /\ ledger' = ledger /\ drawn' = drawn /\ orphans' = orphans
  BY DEF Keeps
<1>3. DOMAIN call' = Procs /\ call'[p] = c /\ \A q \in Procs \ {p} : call'[q] = call[q]
  BY <1>1 DEF Formed
<1>4. \A q \in Procs : Unsettled(q)' <=> Unsettled(q)
  <2> SUFFICES ASSUME NEW q \in Procs PROVE Unsettled(q)' <=> Unsettled(q)
    OBVIOUS
  <2>1. CASE q = p
    BY <2>1, <1>1, <1>3, InFlightIsUnsettled, Zenon
  <2>2. CASE q # p
    BY <2>2, <1>3, InFlightIsUnsettled, Zenon
  <2> QED
    BY <2>1, <2>2
<1>5. \A q \in Procs : call'[q].id = call[q].id
  BY <1>1, <1>3
<1>6. \A q \in Procs : Unsettled(q) => call'[q].day = call[q].day
  BY <1>1, <1>3
<1>7. Formed'
  BY <1>1, <1>2, <1>3 DEF Formed
<1>8. Dated'
  <2>1. 0 <= Today(now)
    BY DayGoesOn DEF Dated
  <2>2. \A q \in Procs : call'[q].day \in {0, call[q].day}
    BY <1>1, <1>3
  <2>3. Today(now)' = Today(now)
    BY <1>2 DEF Today
  <2> QED
    BY <1>2, <2>1, <2>2, <2>3 DEF Dated
<1>9. OwnReservation'
  BY <1>2, <1>4, <1>5 DEF OwnReservation
<1>10. NotYetGood'
  BY <1>1, <1>3 DEF NotYetGood
<1>11. LedgerOf(Today(now))' = LedgerOf(Today(now)) /\ Today(now)' = Today(now)
  BY <1>2 DEF LedgerOf, EmptyLedger, Today
<1>12. ReservationStands'
  BY <1>2, <1>4, <1>5, <1>6, <1>11 DEF ReservationStands
<1>13. NothingLeaks'
  BY <1>2, <1>4, <1>5, <1>11 DEF NothingLeaks
<1> QED
  BY <1>7, <1>8, <1>9, <1>10, <1>12, <1>13

\* A settlement: the reservation of the call is out of the day's ledger.
Done(p) ==
  /\ UNCHANGED <<now, drawn, orphans>>
  /\ \E c : /\ call' = [call EXCEPT ![p] = c]
            /\ DOMAIN c = FieldNames
            /\ c.id = NoId /\ c.day = 0 /\ c.at = "load"
  /\ LET l == LedgerOf(Today(now))
         i == call[p].id
     IN \/ i \notin DOMAIN l.held /\ ledger' = ledger
        \/ i \in DOMAIN l.held /\ \E a : ledger' = Settled(l, i, a)

LEMMA DoneSteps ==
  ASSUME IInv, NEW p \in Procs, Done(p)
  PROVE  IInv'
<1> USE DEF IInv
<1> DEFINE day == Today(now)
           l == LedgerOf(day)
           i == call[p].id
<1>1. PICK c : /\ call' = [call EXCEPT ![p] = c]
               /\ DOMAIN c = FieldNames
               /\ c.id = NoId /\ c.day = 0 /\ c.at = "load"
  BY DEF Done
<1>2. now' = now /\ drawn' = drawn /\ orphans' = orphans /\ Today(now)' = day
  BY DEF Done, Today
<1>3. DOMAIN call' = Procs /\ call'[p] = c /\ \A q \in Procs \ {p} : call'[q] = call[q]
  BY <1>1 DEF Formed
<1>4. ~Unsettled(p)' /\ \A q \in Procs \ {p} : Unsettled(q)' <=> Unsettled(q)
  BY <1>1, <1>3 DEF Unsettled, At
<1>5. /\ ledger' = ledger \/ DOMAIN ledger' = {"date", "spent", "held"}
      /\ ledger'.date = ledger.date \/ ledger'.date = day
      /\ DOMAIN ledger'.held \subseteq DOMAIN ledger.held
      /\ ledger.date = day => ledger'.date = day /\ DOMAIN ledger'.held = DOMAIN ledger.held \ {i}
      /\ ledger.date # day => ledger' = ledger
  <2>1. CASE i \notin DOMAIN l.held /\ ledger' = ledger
    BY <2>1 DEF LedgerOf
  <2>2. CASE i \in DOMAIN l.held /\ \E a : ledger' = Settled(l, i, a)
    <3>1. PICK a : ledger' = Settled(l, i, a)
      BY <2>2
    <3>2. l = ledger /\ ledger.date = day
      <4>1. DOMAIN EmptyLedger(day).held = {}
        BY DEF EmptyLedger
      <4> QED
        BY <4>1, <2>2 DEF LedgerOf
    <3>3. ledger' = [[ledger EXCEPT !.held = Without(ledger.held, i)] EXCEPT !.spent = ledger.spent + a]
      BY <3>1, <3>2 DEF Settled, Formed
    <3>4. DOMAIN ledger' = {"date", "spent", "held"} /\ ledger'.date = ledger.date
          /\ ledger'.held = Without(ledger.held, i)
      BY <3>3 DEF Formed
    <3>5. DOMAIN Without(ledger.held, i) = DOMAIN ledger.held \ {i}
      BY DEF Without, Restrict
    <3> QED
      BY <3>2, <3>4, <3>5
  <2> QED
    BY <2>1, <2>2 DEF Done
<1>6. Formed'
  BY <1>1, <1>3, <1>5 DEF Formed
<1>7. Dated'
  <2>1. day \in Nat
    BY DayGoesOn DEF Dated
  <2>2. \A q \in Procs : call'[q].day \in {0, call[q].day}
    BY <1>1, <1>3
  <2> QED
    BY <1>2, <1>5, <2>1, <2>2 DEF Dated
<1>8. OwnReservation'
  <2>1. drawn' \in Nat /\ \A j \in DOMAIN ledger'.held : j \in 1 .. drawn'
    BY <1>2, <1>5 DEF OwnReservation
  <2>2. \A q \in Procs : IF Unsettled(q)' THEN call'[q].id \in 1 .. drawn' ELSE call'[q].id = NoId
    BY <1>1, <1>2, <1>3, <1>4 DEF OwnReservation
  <2>3. \A q, r \in Procs : Unsettled(q)' /\ Unsettled(r)' /\ call'[q].id = call'[r].id => q = r
    BY <1>3, <1>4 DEF OwnReservation
  <2> QED
    BY <2>1, <2>2, <2>3 DEF OwnReservation
<1>9. NotYetGood'
  BY <1>1, <1>3 DEF NotYetGood
<1>10. \A q \in Procs \ {p} : Unsettled(q) => call[q].id # i
  <2>1. NoId \notin 1 .. drawn
    BY DEF NoId
  <2> QED
    BY <2>1 DEF OwnReservation
<1>11. ReservationStands'
  <2> SUFFICES ASSUME NEW q \in Procs, Unsettled(q)', call'[q].day = day
               PROVE  ledger'.date = day /\ call'[q].id \in DOMAIN ledger'.held
    BY <1>2 DEF ReservationStands
  <2>1. q # p /\ Unsettled(q) /\ call'[q] = call[q]
    BY <1>3, <1>4
  <2>2. ledger.date = day /\ call[q].id \in DOMAIN ledger.held
    BY <2>1 DEF ReservationStands
  <2> QED
    BY <1>5, <1>10, <2>1, <2>2
<1>12. NothingLeaks'
  <2> SUFFICES ASSUME NEW j \in DOMAIN LedgerOf(Today(now))'.held
               PROVE  j \in orphans \/ \E q \in Procs : Unsettled(q)' /\ call'[q].id = j
    BY <1>2 DEF NothingLeaks
  <2>1. ledger'.date = day /\ j \in DOMAIN ledger'.held
    <3>1. DOMAIN EmptyLedger(day).held = {}
      BY DEF EmptyLedger
    <3>2. LedgerOf(Today(now))' = IF ledger'.date = day THEN ledger' ELSE EmptyLedger(day)
      BY <1>2 DEF LedgerOf, EmptyLedger
    <3> QED
      BY <3>1, <3>2
  <2>2. ledger.date = day /\ j \in DOMAIN ledger.held /\ j # i
    BY <2>1, <1>5
  <2>3. j \in DOMAIN LedgerOf(Today(now)).held
    BY <2>2 DEF LedgerOf
  <2>4. CASE j \in orphans
    BY <2>4
  <2>5. CASE \E q \in Procs : Unsettled(q) /\ call[q].id = j
    <3>1. PICK q \in Procs : Unsettled(q) /\ call[q].id = j
      BY <2>5
    <3>2. q # p
      BY <3>1, <2>2
    <3> QED
      BY <3>1, <3>2, <1>3, <1>4
  <2> QED
    BY <2>3, <2>4, <2>5 DEF NothingLeaks
<1> QED
  BY <1>6, <1>7, <1>8, <1>9, <1>11, <1>12

LEMMA ReserveStep ==
  ASSUME IInv, NEW p \in Procs, Reserve(p)
  PROVE  IInv'
<1> USE DEF IInv
<1> DEFINE day == Today(now)
           l == LedgerOf(day)
           amount == Estimate[Route(p)]
<1>1. PICK c : c = [call[p] EXCEPT !.at = "sent", !.id = drawn', !.day = day]
  OBVIOUS
<1>2. call' = [call EXCEPT ![p] = c] /\ now' = now /\ orphans' = orphans
  BY <1>1 DEF Reserve, Goes, history
<1>3. drawn \in Nat /\ drawn' = drawn + 1
  BY DEF Reserve, OwnReservation
<1>4. DOMAIN c = FieldNames /\ c.at = "sent" /\ c.id = drawn' /\ c.day = day /\ c.good = call[p].good
  BY <1>1 DEF Formed, FieldNames
<1>5. DOMAIN call' = Procs /\ call'[p] = c /\ \A q \in Procs \ {p} : call'[q] = call[q]
  BY <1>2 DEF Formed
<1>6. call[p].at = "reserve" /\ ~Unsettled(p)
  BY DEF Reserve, At, Unsettled
<1>7. Unsettled(p)' /\ \A q \in Procs \ {p} : Unsettled(q)' <=> Unsettled(q)
  BY <1>4, <1>5 DEF Unsettled, At
<1>8. Today(now)' = day
  BY <1>2 DEF Today
<1>9. /\ DOMAIN ledger' = {"date", "spent", "held"}
      /\ ledger'.date = day
      /\ DOMAIN ledger'.held = DOMAIN l.held \cup {drawn'}
  <2>1. DOMAIN l = {"date", "spent", "held"} /\ l.date = day
    BY DEF Formed, LedgerOf, EmptyLedger
  <2>2. ledger' = [l EXCEPT !.held = [j \in DOMAIN l.held \cup {drawn'} |->
                                        IF j = drawn' THEN amount ELSE l.held[j]]]
    BY DEF Reserve, WithReservation
  <2> QED
    BY <2>1, <2>2
<1>10. (l.held = ledger.held /\ ledger.date = day) \/ DOMAIN l.held = {}
  <2>1. DOMAIN EmptyLedger(day).held = {}
    BY DEF EmptyLedger
  <2> QED
    BY <2>1 DEF LedgerOf
<1>11. LedgerOf(Today(now))' = ledger'
  BY <1>8, <1>9 DEF LedgerOf
<1>12. Formed'
  BY <1>4, <1>5, <1>9 DEF Formed
<1>13. Dated'
  <2>1. day \in Nat
    BY DayGoesOn DEF Dated
  <2> QED
    BY <1>2, <1>4, <1>5, <1>8, <1>9, <2>1 DEF Dated
<1>14. OwnReservation'
  <2>1. drawn' \in Nat /\ \A j \in DOMAIN ledger'.held : j \in 1 .. drawn'
    BY <1>3, <1>9, <1>10 DEF OwnReservation
  <2>2. \A q \in Procs : IF Unsettled(q)' THEN call'[q].id \in 1 .. drawn' ELSE call'[q].id = NoId
    BY <1>3, <1>4, <1>5, <1>7 DEF OwnReservation
  <2>3. \A q \in Procs \ {p} : Unsettled(q)' => call'[q].id # drawn'
    BY <1>3, <1>5, <1>7 DEF OwnReservation
  <2>4. \A q, r \in Procs : Unsettled(q)' /\ Unsettled(r)' /\ call'[q].id = call'[r].id => q = r
    <3> SUFFICES ASSUME NEW q \in Procs, NEW r \in Procs,
                        Unsettled(q)', Unsettled(r)', call'[q].id = call'[r].id
                 PROVE  q = r
      OBVIOUS
    <3>1. CASE q # p /\ r # p
      BY <3>1, <1>5, <1>7 DEF OwnReservation
    <3>2. CASE q = p \/ r = p
      BY <3>2, <2>3, <1>4, <1>5
    <3> QED
      BY <3>1, <3>2
  <2> QED
    BY <2>1, <2>2, <2>4 DEF OwnReservation
<1>15. NotYetGood'
  <2>1. ~c.good
    BY <1>4, <1>6 DEF NotYetGood
  <2> QED
    BY <2>1, <1>5 DEF NotYetGood
<1>16. ReservationStands'
  <2> SUFFICES ASSUME NEW q \in Procs, Unsettled(q)', call'[q].day = day
               PROVE  ledger'.date = day /\ call'[q].id \in DOMAIN ledger'.held
    BY <1>8 DEF ReservationStands
  <2>1. CASE q = p
    BY <2>1, <1>4, <1>5, <1>9
  <2>2. CASE q # p
    <3>1. ledger.date = day /\ call[q].id \in DOMAIN ledger.held
      BY <2>2, <1>5, <1>7 DEF ReservationStands
    <3>2. l = ledger
      BY <3>1 DEF LedgerOf
    <3> QED
      BY <2>2, <3>1, <3>2, <1>5, <1>9
  <2> QED
    BY <2>1, <2>2
<1>17. NothingLeaks'
  <2> SUFFICES ASSUME NEW j \in DOMAIN ledger'.held
               PROVE  j \in orphans \/ \E q \in Procs : Unsettled(q)' /\ call'[q].id = j
    BY <1>2, <1>11 DEF NothingLeaks
  <2>1. CASE j = drawn'
    BY <2>1, <1>4, <1>5, <1>7
  <2>2. CASE j # drawn'
    <3>1. j \in DOMAIN LedgerOf(Today(now)).held
      BY <2>2, <1>9
    <3>2. CASE j \in orphans
      BY <3>2
    <3>3. CASE \E q \in Procs : Unsettled(q) /\ call[q].id = j
      <4>1. PICK q \in Procs : Unsettled(q) /\ call[q].id = j
        BY <3>3
      <4>2. q # p
        BY <4>1, <1>6
      <4> QED
        BY <4>1, <4>2, <1>5, <1>7
    <3> QED
      BY <3>1, <3>2, <3>3 DEF NothingLeaks
  <2> QED
    BY <2>1, <2>2
<1> QED
  BY <1>12, <1>13, <1>14, <1>15, <1>16, <1>17

LEMMA CrashStep ==
  ASSUME IInv, NEW p \in Procs, Crash(p)
  PROVE  IInv'
<1> USE DEF IInv
<1>1. call' = [call EXCEPT ![p] = NoCall] /\ now' = now /\ ledger' = ledger /\ drawn' = drawn
      /\ orphans' = orphans \cup ({call[p].id} \cap DOMAIN ledger.held)
  BY DEF Crash, Goes
<1>2. DOMAIN NoCall = FieldNames /\ NoCall.at = "idle" /\ NoCall.id = NoId /\ NoCall.day = 0
  BY DEF NoCall, FieldNames
<1>3. DOMAIN call' = Procs /\ call'[p] = NoCall /\ \A q \in Procs \ {p} : call'[q] = call[q]
  BY <1>1 DEF Formed
<1>4. ~Unsettled(p)' /\ \A q \in Procs \ {p} : Unsettled(q)' <=> Unsettled(q)
  BY <1>2, <1>3 DEF Unsettled, At
<1>5. LedgerOf(Today(now))' = LedgerOf(Today(now)) /\ Today(now)' = Today(now)
  BY <1>1 DEF LedgerOf, EmptyLedger, Today
<1>6. Formed'
  BY <1>1, <1>2, <1>3 DEF Formed
<1>7. Dated'
  <2>1. Today(now) \in Nat
    BY DayGoesOn DEF Dated
  <2> QED
    BY <1>1, <1>2, <1>3, <1>5, <2>1 DEF Dated
<1>8. OwnReservation'
  <2>1. drawn' \in Nat /\ \A j \in DOMAIN ledger'.held : j \in 1 .. drawn'
    BY <1>1 DEF OwnReservation
  <2>2. \A q \in Procs : IF Unsettled(q)' THEN call'[q].id \in 1 .. drawn' ELSE call'[q].id = NoId
    BY <1>1, <1>2, <1>3, <1>4 DEF OwnReservation
  <2>3. \A q, r \in Procs : Unsettled(q)' /\ Unsettled(r)' /\ call'[q].id = call'[r].id => q = r
    BY <1>3, <1>4 DEF OwnReservation
  <2> QED
    BY <2>1, <2>2, <2>3 DEF OwnReservation
<1>9. NotYetGood'
  BY <1>2, <1>3 DEF NotYetGood
<1>10. ReservationStands'
  BY <1>1, <1>3, <1>4, <1>5 DEF ReservationStands
<1>11. NothingLeaks'
  <2> SUFFICES ASSUME NEW j \in DOMAIN LedgerOf(Today(now)).held
               PROVE  j \in orphans' \/ \E q \in Procs : Unsettled(q)' /\ call'[q].id = j
    BY <1>5 DEF NothingLeaks
  <2>1. j \in DOMAIN ledger.held
    <3>1. DOMAIN EmptyLedger(Today(now)).held = {}
      BY DEF EmptyLedger
    <3> QED
      BY <3>1 DEF LedgerOf
  <2>2. CASE j \in orphans
    BY <2>2, <1>1
  <2>3. CASE \E q \in Procs : Unsettled(q) /\ call[q].id = j
    <3>1. PICK q \in Procs : Unsettled(q) /\ call[q].id = j
      BY <2>3
    <3>2. CASE q = p
      BY <3>1, <3>2, <2>1, <1>1
    <3>3. CASE q # p
      BY <3>1, <3>3, <1>3, <1>4
    <3> QED
      BY <3>2, <3>3
  <2> QED
    BY <2>2, <2>3 DEF NothingLeaks
<1> QED
  BY <1>6, <1>7, <1>8, <1>9, <1>10, <1>11

LEMMA TickStep ==
  ASSUME IInv, Tick
  PROVE  IInv'
<1> USE DEF IInv
<1>1. now' = now + 1 /\ ledger' = ledger /\ drawn' = drawn /\ orphans' = orphans /\ call' = call
  BY DEF Tick, history
<1>2. now \in Nat /\ Today(now) \in Nat /\ Today(now)' \in Nat /\ Today(now) <= Today(now)'
  <2>1. now \in Nat
    BY DEF Dated
  <2>2. Today(now)' = Today(now + 1)
    BY <1>1 DEF Today
  <2> QED
    BY <2>1, <2>2, DayGoesOn
<1>3. \A q \in Procs : Unsettled(q)' <=> Unsettled(q)
  BY <1>1 DEF Unsettled, At
<1>4. Formed' /\ NotYetGood'
  BY <1>1 DEF Formed, NotYetGood
<1>5. Dated'
  <2>1. now' \in Nat /\ ledger'.date \in Int /\ ledger'.date <= Today(now)'
    BY <1>1, <1>2 DEF Dated
  <2>2. \A q \in Procs : call'[q].day \in Int /\ call'[q].day <= Today(now)'
    BY <1>1, <1>2 DEF Dated
  <2> QED
    BY <2>1, <2>2 DEF Dated
<1>6. OwnReservation'
  BY <1>1, <1>3 DEF OwnReservation
<1>7. ReservationStands'
  <2> SUFFICES ASSUME NEW q \in Procs, Unsettled(q)', call'[q].day = Today(now)'
               PROVE  ledger'.date = Today(now)' /\ call'[q].id \in DOMAIN ledger'.held
    BY DEF ReservationStands
  <2>1. call[q].day = Today(now) /\ Today(now)' = Today(now)
    BY <1>1, <1>2 DEF Dated
  <2> QED
    BY <2>1, <1>1, <1>3 DEF ReservationStands
<1>8. NothingLeaks'
  <2> SUFFICES ASSUME NEW j \in DOMAIN LedgerOf(Today(now))'.held
               PROVE  j \in orphans \/ \E q \in Procs : Unsettled(q) /\ call[q].id = j
    BY <1>1, <1>3 DEF NothingLeaks
  <2>1. ledger.date = Today(now)' /\ j \in DOMAIN ledger.held
    <3>1. DOMAIN EmptyLedger(Today(now)').held = {}
      BY DEF EmptyLedger
    <3>2. LedgerOf(Today(now))' = IF ledger.date = Today(now)' THEN ledger ELSE EmptyLedger(Today(now)')
      BY <1>1 DEF LedgerOf, EmptyLedger
    <3> QED
      BY <3>1, <3>2
  <2>2. ledger.date = Today(now)
    BY <2>1, <1>2 DEF Dated
  <2> QED
    BY <2>1, <2>2 DEF LedgerOf, NothingLeaks
<1> QED
  BY <1>4, <1>5, <1>6, <1>7, <1>8

-----------------------------------------------------------------------------
(* Each action is one of these steps.                                      *)

\* A step that goes on from the call as it is, or from none at all.
LEMMA KeepsFrom ==
  ASSUME IInv, NEW p \in Procs, NEW c,
         call' = [call EXCEPT ![p] = c], UNCHANGED <<now, ledger, drawn, orphans>>,
         DOMAIN c = FieldNames, c.id = call[p].id,
         c.day \in {0, call[p].day}, Unsettled(p) => c.day = call[p].day,
         (Unsettled(p) /\ InFlight(c)) \/ (~Unsettled(p) /\ ~InFlight(c)),
         c.at \in {"next", "reserve", "sent", "answered"} => ~c.good
  PROVE  IInv'
BY KeepsSteps DEF Keeps

\* What is known of a call that holds no reservation.
LEMMA WithoutReservation ==
  ASSUME IInv, NEW p \in Procs, ~Unsettled(p)
  PROVE  call[p].id = NoId
BY DEF IInv, OwnReservation

LEMMA FreshCall ==
  /\ DOMAIN NoCall = FieldNames
  /\ NoCall.at = "idle" /\ NoCall.id = NoId /\ NoCall.day = 0 /\ ~NoCall.good
BY DEF NoCall, FieldNames

\* The steps after which the process waits for its next route, or for a task.
LEMMA BackToStart ==
  ASSUME IInv, NEW p \in Procs, ~Unsettled(p), UNCHANGED <<now, ledger, drawn, orphans>>,
         NEW routes,
         \/ call' = [call EXCEPT ![p] = NoCall]
         \/ call' = [call EXCEPT ![p] = [NoCall EXCEPT !.at = "next", !.routes = routes]]
  PROVE  IInv'
<1>1. call[p].id = NoId
  BY WithoutReservation
<1>2. CASE call' = [call EXCEPT ![p] = NoCall]
  <2>1. ~InFlight(NoCall) /\ NoCall.at \notin {"next", "reserve", "sent", "answered"}
    BY FreshCall DEF InFlight
  <2> QED
    BY <1>1, <1>2, <2>1, FreshCall, KeepsFrom
<1>3. CASE call' = [call EXCEPT ![p] = [NoCall EXCEPT !.at = "next", !.routes = routes]]
  <2>1. PICK c : c = [NoCall EXCEPT !.at = "next", !.routes = routes]
    OBVIOUS
  <2>2. DOMAIN c = FieldNames /\ c.at = "next" /\ c.id = NoId /\ c.day = 0
    BY <2>1, FreshCall DEF FieldNames
  <2>3. ~c.good
    BY <2>1 DEF NoCall
  <2>4. ~InFlight(c)
    BY <2>2 DEF InFlight
  <2> QED
    BY <1>1, <1>3, <2>1, <2>2, <2>3, <2>4, KeepsFrom
<1> QED
  BY <1>2, <1>3

LEMMA StartsAndFailures ==
  ASSUME IInv, NEW p \in Procs,
         \/ Asks(p)
         \/ GiveUp(p) \/ PreflightRefuses(p) \/ CapacityRefuses(p) \/ BudgetRefuses(p)
         \/ NothingToHeal(p) \/ (RenameFails(p) /\ ~call[p].good) \/ WriteHealth(p)
  PROVE  IInv'
<1>1. call[p].at \in {"idle", "next", "reserve", "health", "rename", "book"}
  BY DEF Asks, BeginTask, BeginCall, GiveUp, PreflightRefuses, CapacityRefuses, BudgetRefuses,
         NothingToHeal, RenameFails, WriteHealth, At
<1>2. ~Unsettled(p)
  BY <1>1 DEF Unsettled, At
<1>3. UNCHANGED <<now, ledger, drawn, orphans>>
  BY DEF Asks, BeginTask, BeginCall, GiveUp, PreflightRefuses, CapacityRefuses, BudgetRefuses,
         NothingToHeal, RenameFails, WriteHealth, history
<1>4. \E routes : \/ call' = [call EXCEPT ![p] = NoCall]
                  \/ call' = [call EXCEPT ![p] = [NoCall EXCEPT !.at = "next", !.routes = routes]]
  <2>1. CASE Asks(p)
    BY <2>1 DEF Asks, BeginTask, BeginCall, Goes
  <2>2. CASE GiveUp(p) \/ NothingToHeal(p)
    BY <2>2 DEF GiveUp, NothingToHeal, Goes
  <2>3. CASE PreflightRefuses(p) \/ CapacityRefuses(p) \/ BudgetRefuses(p)
    BY <2>3 DEF PreflightRefuses, CapacityRefuses, BudgetRefuses, Goes, NextRoute
  <2>4. CASE RenameFails(p) /\ ~call[p].good
    BY <2>4 DEF RenameFails, Goes
  <2>5. CASE WriteHealth(p)
    BY <2>5 DEF WriteHealth, Goes, NextRoute
  <2> QED
    BY <2>1, <2>2, <2>3, <2>4, <2>5
<1> QED
  BY <1>2, <1>3, <1>4, BackToStart

LEMMA Bookings ==
  ASSUME IInv, NEW p \in Procs,
         LoadCapacity(p) \/ WriteCapacity(p) \/ RenameCapacity(p) \/ LoadHealth(p) \/ TruncateHealth(p)
         \/ (RenameFails(p) /\ call[p].good) \/ CapacityInvalid(p)
  PROVE  IInv'
<1>0. DOMAIN call[p] = FieldNames
  BY DEF IInv, Formed
<1>1. call[p].at \in {"load", "write", "rename", "health", "truncate"}
  BY DEF LoadCapacity, CapacityInvalid, WriteCapacity, RenameCapacity, LoadHealth, TruncateHealth, RenameFails, At
<1>2. ~Unsettled(p)
  BY <1>1 DEF Unsettled, At
<1>3. UNCHANGED <<now, ledger, drawn, orphans>>
  BY DEF LoadCapacity, CapacityInvalid, WriteCapacity, RenameCapacity, LoadHealth, TruncateHealth, RenameFails,
         history
<1>4. \E c : /\ call' = [call EXCEPT ![p] = c]
             /\ DOMAIN c = FieldNames /\ c.id = call[p].id /\ c.day = call[p].day
             /\ c.at \in {"write", "rename", "health", "truncate", "book"} \/ (c.at = "failed" /\ c.good)
  <2>1. CASE LoadCapacity(p)
    <3>1. PICK c : c = [call[p] EXCEPT !.at = "write", !.capacity = capacity]
      OBVIOUS
    <3>2. call' = [call EXCEPT ![p] = c]
      BY <2>1, <3>1 DEF LoadCapacity, Goes
    <3>3. DOMAIN c = FieldNames /\ c.id = call[p].id /\ c.day = call[p].day /\ c.at = "write"
      BY <3>1, <1>0 DEF FieldNames
    <3> QED
      BY <3>2, <3>3
  <2>2. CASE WriteCapacity(p)
    <3>1. PICK c : c = [call[p] EXCEPT !.at = "rename", !.capacity = NoFile, !.window = NoBlock]
      OBVIOUS
    <3>2. call' = [call EXCEPT ![p] = c]
      BY <2>2, <3>1 DEF WriteCapacity, Goes
    <3>3. DOMAIN c = FieldNames /\ c.id = call[p].id /\ c.day = call[p].day /\ c.at = "rename"
      BY <3>1, <1>0 DEF FieldNames
    <3> QED
      BY <3>2, <3>3
  <2>3. CASE RenameCapacity(p)
    <3>1. PICK c : c = [call[p] EXCEPT !.at = "health"]
      OBVIOUS
    <3>2. call' = [call EXCEPT ![p] = c]
      BY <2>3, <3>1 DEF RenameCapacity, Goes
    <3>3. DOMAIN c = FieldNames /\ c.id = call[p].id /\ c.day = call[p].day /\ c.at = "health"
      BY <3>1, <1>0 DEF FieldNames
    <3> QED
      BY <3>2, <3>3
  <2>4. CASE LoadHealth(p)
    <3>1. PICK c : c = [call[p] EXCEPT !.at = "truncate", !.health = Errors(health)]
      OBVIOUS
    <3>2. call' = [call EXCEPT ![p] = c]
      BY <2>4, <3>1 DEF LoadHealth, Goes
    <3>3. DOMAIN c = FieldNames /\ c.id = call[p].id /\ c.day = call[p].day /\ c.at = "truncate"
      BY <3>1, <1>0 DEF FieldNames
    <3> QED
      BY <3>2, <3>3
  <2>5. CASE TruncateHealth(p)
    <3>1. PICK c : c = [call[p] EXCEPT !.at = "book"]
      OBVIOUS
    <3>2. call' = [call EXCEPT ![p] = c]
      BY <2>5, <3>1 DEF TruncateHealth, Goes
    <3>3. DOMAIN c = FieldNames /\ c.id = call[p].id /\ c.day = call[p].day /\ c.at = "book"
      BY <3>1, <1>0 DEF FieldNames
    <3> QED
      BY <3>2, <3>3
  <2>6. CASE RenameFails(p) /\ call[p].good
    <3>1. PICK c : c = [call[p] EXCEPT !.at = "failed", !.window = NoBlock]
      OBVIOUS
    <3>2. call' = [call EXCEPT ![p] = c]
      BY <2>6, <3>1 DEF RenameFails, Goes
    <3>3. DOMAIN c = FieldNames /\ c.id = call[p].id /\ c.day = call[p].day /\ c.at = "failed"
      BY <3>1, <1>0 DEF FieldNames
    <3>4. c.good = call[p].good
      BY <3>1, <1>0 DEF FieldNames
    <3> QED
      BY <2>6, <3>2, <3>3, <3>4
  <2>7. CASE CapacityInvalid(p)
    <3>1. PICK c : c = [call[p] EXCEPT !.at = IF call[p].good THEN "failed" ELSE "health", !.window = NoBlock]
      OBVIOUS
    <3>2. call' = [call EXCEPT ![p] = c]
      BY <2>7, <3>1 DEF CapacityInvalid, Goes
    <3>3. /\ DOMAIN c = FieldNames /\ c.id = call[p].id /\ c.day = call[p].day /\ c.good = call[p].good
          /\ c.at = IF call[p].good THEN "failed" ELSE "health"
      BY <3>1, <1>0 DEF FieldNames
    <3> QED
      BY <3>2, <3>3
  <2> QED
    BY <2>1, <2>2, <2>3, <2>4, <2>5, <2>6, <2>7
<1>5. PICK c : /\ call' = [call EXCEPT ![p] = c]
               /\ DOMAIN c = FieldNames /\ c.id = call[p].id /\ c.day = call[p].day
               /\ c.at \in {"write", "rename", "health", "truncate", "book"} \/ (c.at = "failed" /\ c.good)
  BY <1>4
<1>6. ~InFlight(c) /\ c.at \notin {"next", "reserve", "sent", "answered"}
  BY <1>5 DEF InFlight
<1> QED
  BY <1>2, <1>3, <1>5, <1>6, KeepsFrom

LEMMA CapacityAllowsStep ==
  ASSUME IInv, NEW p \in Procs, CapacityAllows(p)
  PROVE  IInv'
<1>1. PICK c : c = [call[p] EXCEPT !.at = "reserve"]
  OBVIOUS
<1>2. DOMAIN c = FieldNames /\ c.at = "reserve" /\ c.id = call[p].id /\ c.day = call[p].day
      /\ c.good = call[p].good
  BY <1>1 DEF IInv, Formed, FieldNames
<1>3. call[p].at = "next" /\ ~Unsettled(p)
  BY DEF CapacityAllows, At, Unsettled
<1>4. ~c.good
  BY <1>2, <1>3 DEF IInv, NotYetGood
<1>5. ~InFlight(c)
  BY <1>2 DEF InFlight
<1>6. UNCHANGED <<now, ledger, drawn, orphans>> /\ call' = [call EXCEPT ![p] = c]
  BY <1>1 DEF CapacityAllows, Goes, history
<1> QED
  BY <1>2, <1>3, <1>4, <1>5, <1>6, KeepsFrom

LEMMA RequestSteps ==
  ASSUME IInv, NEW p \in Procs, Request(p) \/ SettleUnknown(p)
  PROVE  IInv'
<1>0. DOMAIN call[p] = FieldNames
  BY DEF IInv, Formed
<1>1. call[p].at \in {"sent", "answered"}
  BY DEF Request, Answered, RequestFails, SettleUnknown, At
<1>2. Unsettled(p) /\ ~call[p].good
  BY <1>1 DEF Unsettled, IInv, NotYetGood
<1>3. UNCHANGED <<now, ledger, drawn, orphans>>
  BY DEF Request, Answered, RequestFails, SettleUnknown, Uses, history
<1>4. \E c : /\ call' = [call EXCEPT ![p] = c]
             /\ DOMAIN c = FieldNames /\ c.id = call[p].id /\ c.day = call[p].day
             /\ c.at \in {"answered", "failed"} /\ c.good = call[p].good
  <2>1. CASE Request(p)
    <3>1. PICK u \in Usages, w \in Times : Answered(p, u, w) \/ RequestFails(p, u, w)
      BY <2>1 DEF Request
    <3>2. CASE Answered(p, u, w)
      <4>1. PICK c : c = [call[p] EXCEPT !.at = "answered", !.usage = u, !.window = w]
        OBVIOUS
      <4>2. call' = [call EXCEPT ![p] = c]
        BY <3>2, <4>1 DEF Answered, Goes
      <4>3. DOMAIN c = FieldNames /\ c.id = call[p].id /\ c.day = call[p].day /\ c.at = "answered"
        BY <4>1, <1>0 DEF FieldNames
      <4>4. c.good = call[p].good
        BY <4>1, <1>0 DEF FieldNames
      <4> QED
        BY <4>2, <4>3, <4>4
    <3>3. CASE RequestFails(p, u, w)
      <4>1. PICK c : c = [call[p] EXCEPT !.at = "failed", !.window = w]
        OBVIOUS
      <4>2. call' = [call EXCEPT ![p] = c]
        BY <3>3, <4>1 DEF RequestFails, Goes
      <4>3. DOMAIN c = FieldNames /\ c.id = call[p].id /\ c.day = call[p].day /\ c.at = "failed"
        BY <4>1, <1>0 DEF FieldNames
      <4>4. c.good = call[p].good
        BY <4>1, <1>0 DEF FieldNames
      <4> QED
        BY <4>2, <4>3, <4>4
    <3> QED
      BY <3>1, <3>2, <3>3
  <2>2. CASE SettleUnknown(p)
    <3>1. PICK c : c = [call[p] EXCEPT !.at = "failed", !.window = NoBlock, !.usage = 0]
      OBVIOUS
    <3>2. call' = [call EXCEPT ![p] = c]
      BY <2>2, <3>1 DEF SettleUnknown, Goes
    <3>3. DOMAIN c = FieldNames /\ c.id = call[p].id /\ c.day = call[p].day /\ c.at = "failed"
      BY <3>1, <1>0 DEF FieldNames
    <3>4. c.good = call[p].good
      BY <3>1, <1>0 DEF FieldNames
    <3> QED
      BY <3>2, <3>3, <3>4
  <2> QED
    BY <2>1, <2>2
<1>5. PICK c : /\ call' = [call EXCEPT ![p] = c]
               /\ DOMAIN c = FieldNames /\ c.id = call[p].id /\ c.day = call[p].day
               /\ c.at \in {"answered", "failed"} /\ c.good = call[p].good
  BY <1>4
<1>6. ~c.good
  BY <1>2, <1>5
<1>7. InFlight(c)
  BY <1>5, <1>6 DEF InFlight
<1> QED
  BY <1>2, <1>3, <1>5, <1>6, <1>7, KeepsFrom

LEMMA Settlements ==
  ASSUME IInv, NEW p \in Procs, SettleAnswer(p) \/ SettleFailure(p)
  PROVE  IInv'
<1>0. DOMAIN call[p] = FieldNames
  BY DEF IInv, Formed
<1>1. UNCHANGED <<now, drawn, orphans>>
  BY DEF SettleAnswer, SettleFailure, history
<1>2. \E good : call' = [call EXCEPT ![p] = AfterSettling(p, good)]
  BY DEF SettleAnswer, SettleFailure, Goes
<1>3. PICK good : call' = [call EXCEPT ![p] = AfterSettling(p, good)]
  BY <1>2
<1>4. PICK c : c = [call[p] EXCEPT !.at = "load", !.good = good, !.id = NoId, !.day = 0, !.usage = 0]
  OBVIOUS
<1>5. call' = [call EXCEPT ![p] = c] /\ DOMAIN c = FieldNames /\ c.id = NoId /\ c.day = 0 /\ c.at = "load"
  BY <1>0, <1>3, <1>4 DEF AfterSettling, FieldNames
<1>6. LET l == LedgerOf(Today(now))
          i == call[p].id
      IN \/ i \notin DOMAIN l.held /\ ledger' = ledger
         \/ i \in DOMAIN l.held /\ \E a : ledger' = Settled(l, i, a)
  BY DEF SettleAnswer, SettleFailure
<1> QED
  BY <1>1, <1>5, <1>6, DoneSteps DEF Done

-----------------------------------------------------------------------------

LEMMA Stutter == IInv /\ UNCHANGED vars => IInv'
<1> SUFFICES ASSUME IInv, UNCHANGED vars PROVE IInv'
  OBVIOUS
<1>1. UNCHANGED <<now, ledger, call, drawn, orphans>>
  BY DEF vars, history
<1> QED
  BY <1>1 DEF IInv, Formed, Dated, OwnReservation, NotYetGood, ReservationStands, NothingLeaks,
              Unsettled, At, LedgerOf, EmptyLedger, Today

\* The actions of one process, by the lemma each falls under.
Grouped(p) ==
  \/ \/ Asks(p)
     \/ GiveUp(p) \/ PreflightRefuses(p) \/ CapacityRefuses(p) \/ BudgetRefuses(p)
     \/ NothingToHeal(p) \/ (RenameFails(p) /\ ~call[p].good) \/ WriteHealth(p)
  \/ LoadCapacity(p) \/ WriteCapacity(p) \/ RenameCapacity(p) \/ LoadHealth(p) \/ TruncateHealth(p)
     \/ (RenameFails(p) /\ call[p].good) \/ CapacityInvalid(p)
  \/ CapacityAllows(p)
  \/ Request(p) \/ SettleUnknown(p)
  \/ SettleAnswer(p) \/ SettleFailure(p)
  \/ Reserve(p)
  \/ Crash(p)

LEMMA NextByGroup == Next => Tick \/ \E p \in Procs : Grouped(p)
BY Zenon DEF Next, Runs, Chooses, Settles, Books, Grouped

LEMMA Step == IInv /\ [Next]_vars => IInv'
<1> SUFFICES ASSUME IInv, [Next]_vars PROVE IInv'
  OBVIOUS
<1>1. CASE UNCHANGED vars
  BY <1>1, Stutter
<1>2. CASE Tick
  BY <1>2, TickStep
<1>3. ASSUME NEW p \in Procs, Grouped(p) PROVE IInv'
  BY <1>3, StartsAndFailures, Bookings, CapacityAllowsStep, RequestSteps, Settlements,
     ReserveStep, CrashStep DEF Grouped
<1> QED
  BY <1>1, <1>2, <1>3, NextByGroup

\* The invariant holds of every behaviour.
THEOREM LedgerInvariant == Spec => []IInv
BY Start, Step, PTL DEF Spec

\* No reservation of the day is lost before its own call settles it, whatever
\* other processes write to the ledger.
THEOREM ReservationsStand == Spec => []ReservationStands
<1>1. IInv => ReservationStands
  BY DEF IInv
<1> QED
  BY <1>1, LedgerInvariant, PTL

\* Every reservation of the day's ledger belongs to a call that has yet to
\* settle it, or to a process that died.
THEOREM NoLeak == Spec => []NothingLeaks
<1>1. IInv => NothingLeaks
  BY DEF IInv
<1> QED
  BY <1>1, LedgerInvariant, PTL

-----------------------------------------------------------------------------
(* Sums.  Induction over the subsets of a finite set, without an operator  *)
(* as parameter: G is the set of the subsets of which the claim holds, and *)
(* a minimal subset outside G cannot be.                                   *)

\* Induction over the naturals, and over the subsets of a finite set.
LEMMA NatSteps ==
  ASSUME NEW G, 0 \in G, \A n \in Nat : n \in G => n + 1 \in G
  PROVE  Nat \subseteq G
<1> DEFINE Less == OpToRel(<, Nat)
           Rest == Nat \ G
<1>1. IsWellFoundedOn(Less, Nat)
  BY NatLessThanWellFounded
<1>2. \A m, n \in Nat : m < n => <<m, n>> \in Less
  BY DEF OpToRel
<1> HIDE DEF Less
<1> SUFFICES ASSUME Rest # {} PROVE FALSE
  OBVIOUS
<1>3. \E n \in Rest : \A m \in Rest : <<m, n>> \notin Less
  <2>1. Rest \subseteq Nat
    OBVIOUS
  <2> HIDE DEF Rest
  <2> QED
    BY <1>1, <2>1, WFMin
<1>4. PICK n \in Rest : \A m \in Rest : <<m, n>> \notin Less
  BY <1>3
<1>5. n # 0 /\ n - 1 \in Nat /\ (n - 1) + 1 = n
  BY <1>4
<1>6. <<n - 1, n>> \in Less
  BY <1>2, <1>4, <1>5
<1>7. n - 1 \in G
  BY <1>4, <1>5, <1>6
<1> QED
  BY <1>4, <1>5, <1>7

LEMMA SubsetSteps ==
  ASSUME NEW S, IsFiniteSet(S), NEW G, \A T \in SUBSET S : (\A x \in T : T \ {x} \in G) => T \in G
  PROVE  SUBSET S \subseteq G
<1> DEFINE Smaller == StrictSubsetOrdering(S)
           Rest    == (SUBSET S) \ G
<1>1. IsWellFoundedOn(Smaller, SUBSET S)
  BY FS_StrictSubsetOrderingWellFounded, FS_FiniteSubsetsOfFinite
<1>2. \A T \in SUBSET S : \A x \in T : <<T \ {x}, T>> \in Smaller
  BY DEF StrictSubsetOrdering
<1> HIDE DEF Smaller
<1> SUFFICES ASSUME Rest # {} PROVE FALSE
  OBVIOUS
<1>3. \E T \in Rest : \A U \in Rest : <<U, T>> \notin Smaller
  <2>1. Rest \subseteq SUBSET S
    OBVIOUS
  <2> HIDE DEF Rest
  <2> QED
    BY <1>1, <2>1, WFMin
<1>4. PICK T \in Rest : \A U \in Rest : <<U, T>> \notin Smaller
  BY <1>3
<1>5. \A x \in T : T \ {x} \in G
  BY <1>2, <1>4
<1> QED
  BY <1>4, <1>5

\* MapThenFoldSet takes the elements of a set out in the order of CHOOSE.
Pick(s) == CHOOSE y \in s : TRUE

SumBy(f, s, g) == IF s = {} THEN 0 ELSE f[Pick(s)] + g[s \ {Pick(s)}]

\* The recursive function behind SumFunction.
SumOver(f) ==
  LET iter[s \in SUBSET DOMAIN f] == SumBy(f, s, iter)
  IN iter

LEMMA SumIsOver == ASSUME NEW f PROVE SumFunction(f) = SumOver(f)[DOMAIN f]
  BY DEF SumFunction, SumFunctionOnSet, FoldFunctionOnSet, MapThenFoldSet, SumOver, SumBy, Pick

LEMMA PickIn == ASSUME NEW s, s # {} PROVE Pick(s) \in s
  BY DEF Pick

\* The recursive definition does define a function, by induction over the
\* cardinality of its argument.
LEMMA SumOverExists ==
  ASSUME NEW f, IsFiniteSet(DOMAIN f)
  PROVE  \E g : g = [s \in SUBSET DOMAIN f |-> SumBy(f, s, g)]
<1> DEFINE Level(n) == {s \in SUBSET DOMAIN f : Cardinality(s) <= n}
           G == {n \in Nat : \E g : g = [s \in Level(n) |-> SumBy(f, s, g)]}
<1>1. \A s \in SUBSET DOMAIN f : IsFiniteSet(s) /\ Cardinality(s) \in Nat
                                 /\ Cardinality(s) <= Cardinality(DOMAIN f)
  BY FS_Subset, FS_CardinalityType
<1>2. \A s \in SUBSET DOMAIN f : s # {} =>
        s \ {Pick(s)} \in SUBSET DOMAIN f /\ Cardinality(s \ {Pick(s)}) = Cardinality(s) - 1
  BY <1>1, PickIn, FS_RemoveElement
<1>3. \A s \in SUBSET DOMAIN f : Cardinality(s) = 0 => s = {}
  BY <1>1, FS_EmptySet
<1>4. 0 \in G
  <2> DEFINE g == [s \in Level(0) |-> 0]
  <2>1. \A s \in Level(0) : s = {}
    BY <1>1, <1>3
  <2>2. g = [s \in Level(0) |-> SumBy(f, s, g)]
    BY <2>1 DEF SumBy
  <2> QED
    BY <2>2
<1>5. \A n \in Nat : n \in G => n + 1 \in G
  <2> SUFFICES ASSUME NEW n \in Nat, n \in G PROVE n + 1 \in G
    OBVIOUS
  <2>1. PICK g : g = [s \in Level(n) |-> SumBy(f, s, g)]
    OBVIOUS
  <2> DEFINE h == [s \in Level(n + 1) |-> SumBy(f, s, g)]
  <2>2. \A s \in Level(n) : h[s] = g[s]
    <3>1. Level(n) \subseteq Level(n + 1)
      BY <1>1
    <3> QED
      BY <2>1, <3>1
  <2>3. \A s \in Level(n + 1) : s # {} => s \ {Pick(s)} \in Level(n)
    BY <1>1, <1>2
  <2>4. \A s \in Level(n + 1) : SumBy(f, s, g) = SumBy(f, s, h)
    <3> HIDE DEF h, Level
    <3> QED
      BY <2>2, <2>3 DEF SumBy
  <2>5. h = [s \in Level(n + 1) |-> SumBy(f, s, h)]
    BY <2>4
  <2>6. \E k : k = [s \in Level(n + 1) |-> SumBy(f, s, k)]
    <3> HIDE DEF h, Level
    <3> QED
      BY <2>5
  <2> HIDE DEF Level
  <2> QED
    BY <2>6
<1>6. Nat \subseteq G
  <2> HIDE DEF G
  <2> QED
    BY <1>4, <1>5, NatSteps
<1>7. Cardinality(DOMAIN f) \in G
  BY <1>6, FS_CardinalityType
<1>8. Level(Cardinality(DOMAIN f)) = SUBSET DOMAIN f
  BY <1>1
<1> QED
  BY <1>7, <1>8

LEMMA SumOverRecurses ==
  ASSUME NEW f, IsFiniteSet(DOMAIN f), NEW s \in SUBSET DOMAIN f
  PROVE  SumOver(f)[s] = SumBy(f, s, SumOver(f))
<1>1. SumOver(f) = [t \in SUBSET DOMAIN f |-> SumBy(f, t, SumOver(f))]
  BY SumOverExists DEF SumOver
<1> QED
  BY <1>1

\* A function whose values are amounts, on a finite domain.
Summable(f) == IsFiniteSet(DOMAIN f) /\ \A x \in DOMAIN f : f[x] \in Nat

LEMMA SumOverType ==
  ASSUME NEW f, Summable(f)
  PROVE  /\ SumOver(f)[{}] = 0
         /\ \A s \in SUBSET DOMAIN f : SumOver(f)[s] \in Nat
<1> DEFINE G == {s \in SUBSET DOMAIN f : SumOver(f)[s] \in Nat}
<1>1. SumOver(f)[{}] = 0
  BY SumOverRecurses DEF SumBy, Summable
<1>2. \A s \in SUBSET DOMAIN f : (\A x \in s : s \ {x} \in G) => s \in G
  <2> SUFFICES ASSUME NEW s \in SUBSET DOMAIN f, \A x \in s : s \ {x} \in G
               PROVE  SumOver(f)[s] \in Nat
    OBVIOUS
  <2> SUFFICES ASSUME s # {} PROVE SumOver(f)[s] \in Nat
    BY <1>1
  <2>1. Pick(s) \in s
    BY PickIn
  <2>2. SumOver(f)[s] = f[Pick(s)] + SumOver(f)[s \ {Pick(s)}]
    BY SumOverRecurses DEF SumBy, Summable
  <2> QED
    BY <2>1, <2>2 DEF Summable
<1> HIDE DEF G
<1>3. SUBSET DOMAIN f \subseteq G
  <2>1. IsFiniteSet(DOMAIN f)
    BY DEF Summable
  <2> QED
    BY <1>2, <2>1, SubsetSteps
<1> QED
  BY <1>1, <1>3 DEF G

\* Whichever element is taken out first, the sum is the same.
LEMMA SumOverAny ==
  ASSUME NEW f, Summable(f)
  PROVE  \A s \in SUBSET DOMAIN f : \A x \in s : SumOver(f)[s] = f[x] + SumOver(f)[s \ {x}]
<1> DEFINE G == {s \in SUBSET DOMAIN f : \A x \in s : SumOver(f)[s] = f[x] + SumOver(f)[s \ {x}]}
<1>1. \A s \in SUBSET DOMAIN f : (\A x \in s : s \ {x} \in G) => s \in G
  <2> SUFFICES ASSUME NEW s \in SUBSET DOMAIN f, \A x \in s : s \ {x} \in G, NEW x \in s
               PROVE  SumOver(f)[s] = f[x] + SumOver(f)[s \ {x}]
    OBVIOUS
  <2>1. PICK c \in s : c = Pick(s)
    BY PickIn
  <2>2. SumOver(f)[s] = f[c] + SumOver(f)[s \ {c}]
    BY <2>1, SumOverRecurses DEF SumBy, Summable
  <2>3. CASE x = c
    BY <2>2, <2>3
  <2>4. CASE x # c
    <3>1. SumOver(f)[s \ {c}] = f[x] + SumOver(f)[(s \ {c}) \ {x}]
      BY <2>1, <2>4
    <3>2. SumOver(f)[s \ {x}] = f[c] + SumOver(f)[(s \ {x}) \ {c}]
      BY <2>1, <2>4
    <3>3. (s \ {c}) \ {x} = (s \ {x}) \ {c}
      OBVIOUS
    <3>4. SumOver(f)[(s \ {c}) \ {x}] \in Nat /\ f[x] \in Nat /\ f[c] \in Nat
      BY SumOverType DEF Summable
    <3>5. f[c] + (f[x] + SumOver(f)[(s \ {c}) \ {x}]) = f[x] + (f[c] + SumOver(f)[(s \ {c}) \ {x}])
      BY <3>4
    <3> QED
      BY <2>2, <3>1, <3>2, <3>3, <3>5
  <2> QED
    BY <2>3, <2>4
<1> HIDE DEF G
<1>2. SUBSET DOMAIN f \subseteq G
  <2>1. IsFiniteSet(DOMAIN f)
    BY DEF Summable
  <2> QED
    BY <1>1, <2>1, SubsetSteps
<1> QED
  BY <1>2 DEF G

\* A sum grows with the values, and depends on nothing else.
LEMMA SumOverGrows ==
  ASSUME NEW f, NEW g, Summable(f), Summable(g),
         NEW D, D \subseteq DOMAIN f, D \subseteq DOMAIN g, \A x \in D : f[x] <= g[x]
  PROVE  SumOver(f)[D] <= SumOver(g)[D]
<1> DEFINE G == {s \in SUBSET D : SumOver(f)[s] <= SumOver(g)[s]}
<1>1. IsFiniteSet(D)
  BY FS_Subset DEF Summable
<1>2. \A s \in SUBSET D : (\A x \in s : s \ {x} \in G) => s \in G
  <2> SUFFICES ASSUME NEW s \in SUBSET D, \A x \in s : s \ {x} \in G
               PROVE  SumOver(f)[s] <= SumOver(g)[s]
    OBVIOUS
  <2>1. CASE s = {}
    BY <2>1, SumOverType
  <2>2. CASE s # {}
    <3>1. PICK x \in s : TRUE
      BY <2>2
    <3>2. SumOver(f)[s] = f[x] + SumOver(f)[s \ {x}]
      BY SumOverAny
    <3>3. SumOver(g)[s] = g[x] + SumOver(g)[s \ {x}]
      BY SumOverAny
    <3>4. SumOver(f)[s \ {x}] <= SumOver(g)[s \ {x}]
      OBVIOUS
    <3>5. SumOver(f)[s \ {x}] \in Nat /\ SumOver(g)[s \ {x}] \in Nat
      BY SumOverType
    <3>6. f[x] \in Nat /\ g[x] \in Nat /\ f[x] <= g[x]
      BY DEF Summable
    <3> QED
      BY <3>2, <3>3, <3>4, <3>5, <3>6
  <2> QED
    BY <2>1, <2>2
<1> HIDE DEF G
<1>3. SUBSET D \subseteq G
  BY <1>1, <1>2, SubsetSteps
<1> QED
  BY <1>3 DEF G

-----------------------------------------------------------------------------
(* Sums of amounts, as the rest of the module uses them.                   *)

\* What the steps of the ledger need of SumFunction.
LEMMA SumType ==
  ASSUME NEW f, Summable(f)
  PROVE  SumFunction(f) \in Nat
BY SumIsOver, SumOverType

LEMMA SumEmpty ==
  ASSUME NEW f, DOMAIN f = {}
  PROVE  Summable(f) /\ SumFunction(f) = 0
<1>1. Summable(f)
  BY FS_EmptySet DEF Summable
<1> QED
  BY <1>1, SumIsOver, SumOverType

LEMMA SumGrows ==
  ASSUME NEW f, NEW g, Summable(f), Summable(g),
         DOMAIN f = DOMAIN g, \A x \in DOMAIN f : f[x] <= g[x]
  PROVE  SumFunction(f) <= SumFunction(g)
BY SumIsOver, SumOverGrows

LEMMA SumOfZeros ==
  ASSUME NEW f, IsFiniteSet(DOMAIN f), \A x \in DOMAIN f : f[x] = 0
  PROVE  SumFunction(f) = 0
<1> DEFINE G == {s \in SUBSET DOMAIN f : SumOver(f)[s] = 0}
<1>1. \A s \in SUBSET DOMAIN f : (\A x \in s : s \ {x} \in G) => s \in G
  <2> SUFFICES ASSUME NEW s \in SUBSET DOMAIN f, \A x \in s : s \ {x} \in G
               PROVE  SumOver(f)[s] = 0
    OBVIOUS
  <2>1. CASE s = {}
    BY <2>1, SumOverRecurses DEF SumBy
  <2>2. CASE s # {}
    <3>1. Pick(s) \in s
      BY <2>2, PickIn
    <3>2. SumOver(f)[s] = f[Pick(s)] + SumOver(f)[s \ {Pick(s)}]
      BY <2>2, SumOverRecurses DEF SumBy
    <3> QED
      BY <3>1, <3>2
  <2> QED
    BY <2>1, <2>2
<1> HIDE DEF G
<1>2. SUBSET DOMAIN f \subseteq G
  BY <1>1, SubsetSteps
<1> QED
  BY <1>2, SumIsOver DEF G

\* One more element adds its value.
LEMMA SumExtends ==
  ASSUME NEW f, NEW g, NEW i, Summable(f), i \notin DOMAIN f,
         DOMAIN g = DOMAIN f \cup {i}, g[i] \in Nat, \A x \in DOMAIN f : g[x] = f[x]
  PROVE  Summable(g) /\ SumFunction(g) = SumFunction(f) + g[i]
<1>1. Summable(g)
  BY FS_AddElement DEF Summable
<1>2. SumOver(g)[DOMAIN g] = g[i] + SumOver(g)[DOMAIN g \ {i}]
  BY <1>1, SumOverAny
<1>3. DOMAIN g \ {i} = DOMAIN f
  OBVIOUS
<1>4. SumOver(f)[DOMAIN f] <= SumOver(g)[DOMAIN f] /\ SumOver(g)[DOMAIN f] <= SumOver(f)[DOMAIN f]
  <2>1. \A x \in DOMAIN f : f[x] <= g[x] /\ g[x] <= f[x]
    BY DEF Summable
  <2> QED
    BY <1>1, <2>1, SumOverGrows
<1>5. SumOver(f)[DOMAIN f] \in Nat /\ SumOver(g)[DOMAIN f] \in Nat
  BY <1>1, SumOverType
<1> QED
  BY <1>1, <1>2, <1>3, <1>4, <1>5, SumIsOver

\* One value changes: so does the sum, by as much.
LEMMA SumChanges ==
  ASSUME NEW f, NEW g, NEW i, Summable(f), i \in DOMAIN f, DOMAIN g = DOMAIN f,
         g[i] \in Nat, \A x \in DOMAIN f \ {i} : g[x] = f[x]
  PROVE  Summable(g) /\ SumFunction(g) = (SumFunction(f) - f[i]) + g[i]
<1> DEFINE h == [x \in DOMAIN f \ {i} |-> f[x]]
<1>1. DOMAIN h = DOMAIN f \ {i} /\ \A x \in DOMAIN h : h[x] = f[x] /\ h[x] = g[x]
  OBVIOUS
<1>2. Summable(h) /\ SumFunction(h) \in Nat
  <2>1. Summable(h)
    BY FS_RemoveElement DEF Summable
  <2> QED
    BY <2>1, SumType
<1>3. i \notin DOMAIN h /\ DOMAIN f = DOMAIN h \cup {i} /\ f[i] \in Nat
  BY DEF Summable
<1> HIDE DEF h
<1>4. SumFunction(f) = SumFunction(h) + f[i]
  <2>1. \A x \in DOMAIN h : f[x] = h[x]
    BY <1>1
  <2> QED
    BY <1>2, <1>3, <2>1, SumExtends
<1>5. Summable(g) /\ SumFunction(g) = SumFunction(h) + g[i]
  BY <1>1, <1>2, <1>3, SumExtends
<1> QED
  BY <1>2, <1>3, <1>4, <1>5

-----------------------------------------------------------------------------
(* The types of calls and files.                                           *)

Calls == [at : Places, routes : Seq(Routes), id : Nat, day : Days, usage : Usages \cup {0},
          window : Times, good : BOOLEAN,
          capacity : Capacities \cup {NoFile}, health : Healths \cup {Torn}]

\* A call under way has a route, and what it has loaded until it is written.
CallOK(c) ==
  /\ c \in Calls
  /\ c.at \notin {"idle", "next"} => c.routes # <<>>
  /\ c.at = "answered" => c.usage \in Usages
  /\ c.at = "write" => c.capacity \in Capacities
  /\ c.at \in {"truncate", "book"} => c.health \in Healths

FilesOK ==
  /\ capacity \in Capacities
  /\ temp \in Capacities \cup {NoFile}
  /\ health \in Healths \cup {Torn}

CallsOK == call \in [Procs -> Calls] /\ \A p \in Procs : CallOK(call[p])

\* The clock stays within the days of the model.
LEMMA DayParts ==
  /\ 0 \in Days /\ 0 \in Times
  /\ \A t \in 0 .. MaxTime : Today(t) \in Days /\ t + 1 \in Times
<1>1. DayLength \in Nat /\ DayLength > 0 /\ MaxTime \in Nat
  BY BoundAssumption
<1>2. \A t \in 0 .. MaxTime : Today(t) \in Nat /\ Today(t) <= Today(MaxTime)
  BY <1>1 DEF Today
<1>3. Today(0) = 0
  BY <1>1 DEF Today
<1> QED
  BY <1>1, <1>2, <1>3 DEF Days, Times

\* Counting an error or a success keeps the type of the health file.
LEMMA HealthParts ==
  /\ <<>> \in Healths
  /\ \A h \in Healths \cup {Torn} : Errors(h) \in Healths
  /\ \A h \in Healths, pr \in Providers :
       WithCount(h, pr, 0) \in Healths /\ WithCount(h, pr, OneMore(h, pr)) \in Healths
<1>1. ErrorLimit \in Nat \ {0}
  BY BoundAssumption
<1>2. <<>> \in Healths
  <2>1. <<>> \in [{} -> 0 .. ErrorLimit]
    OBVIOUS
  <2> QED
    BY <2>1 DEF Healths
<1>3. ASSUME NEW h \in Healths, NEW pr \in Providers, NEW n \in 0 .. ErrorLimit
      PROVE  WithCount(h, pr, n) \in Healths
  <2>1. PICK S \in SUBSET Providers : h \in [S -> 0 .. ErrorLimit]
    BY DEF Healths
  <2>2. WithCount(h, pr, n) \in [S \cup {pr} -> 0 .. ErrorLimit]
    BY <2>1 DEF WithCount
  <2> QED
    BY <2>2 DEF Healths
<1>4. ASSUME NEW h \in Healths, NEW pr \in Providers
      PROVE  OneMore(h, pr) \in 0 .. ErrorLimit
  <2>1. PICK S \in SUBSET Providers : h \in [S -> 0 .. ErrorLimit]
    BY DEF Healths
  <2>2. pr \in DOMAIN h => h[pr] \in 0 .. ErrorLimit
    BY <2>1
  <2> QED
    BY <1>1, <2>2 DEF OneMore
<1> QED
  BY <1>1, <1>2, <1>3, <1>4 DEF Errors

LEMMA NoCallOK == CallOK(NoCall)
<1>1. <<>> \in Seq(Routes)
  OBVIOUS
<1> QED
  BY <1>1, DayParts DEF CallOK, NoCall, Calls, Places, NoId, NoBlock

-----------------------------------------------------------------------------
(* The steps of a call, by what they do to the money.                      *)

\* The reservations a call may still make.
NeedOf(c) ==
  IF c.at = "idle" THEN 0
  ELSE IF c.at \in {"next", "reserve"} THEN Len(c.routes) ELSE Len(c.routes) - 1

Quiet(p, c) ==
  /\ UNCHANGED <<ledger, drawn, used, excess>>
  /\ ~InFlight(c) /\ NeedOf(c) <= NeedOf(call[p])

Asked(p, c) ==
  /\ UNCHANGED <<ledger, drawn, used, excess>>
  /\ call[p].at = "idle" /\ ~InFlight(c) /\ c.at = "next" /\ Room(Len(c.routes))

SameRequest(p, c) ==
  /\ UNCHANGED <<ledger, drawn>>
  /\ InFlight(call[p]) /\ InFlight(c)
  /\ c.id = call[p].id /\ c.day = call[p].day /\ c.routes = call[p].routes

Requested(p, c) ==
  /\ SameRequest(p, c)
  /\ call[p].at = "sent"
  /\ \E u \in Usages : Uses(p, u) /\ (c.at = "failed" \/ (c.at = "answered" /\ c.usage = u))

Unsettleable(p, c) ==
  /\ SameRequest(p, c)
  /\ UNCHANGED <<used, excess>>
  /\ c.at = "failed"

Charged(p, c) ==
  /\ UNCHANGED <<drawn, used, excess>>
  /\ InFlight(call[p]) /\ c.at = "load" /\ c.routes = call[p].routes
  /\ LET l == LedgerOf(Today(now))
         i == call[p].id
     IN /\ i \in DOMAIN l.held
        /\ \/ call[p].at = "answered" /\ ledger' = Settled(l, i, call[p].usage)
           \/ call[p].at = "failed" /\ ledger' = Settled(l, i, l.held[i])

Reserved(p, c) ==
  /\ UNCHANGED <<used, excess>>
  /\ call[p].at = "reserve" /\ c.at = "sent"
  /\ c.id = drawn + 1 /\ c.day = Today(now) /\ c.routes = call[p].routes
  /\ drawn' = drawn + 1
  /\ LET l == LedgerOf(Today(now))
         amount == Estimate[Route(p)]
     IN Fits(l, amount) /\ ledger' = WithReservation(l, drawn + 1, amount)

Moved(p, c) ==
  /\ call' = [call EXCEPT ![p] = c] /\ CallOK(c)
  /\ now' = now /\ FilesOK'
  /\ \/ Quiet(p, c) \/ Asked(p, c) \/ Requested(p, c) \/ Unsettleable(p, c)
     \/ Charged(p, c) \/ Reserved(p, c)

TypeInv == now \in 0 .. MaxTime /\ FilesOK /\ CallsOK

LEMMA FreshMoves ==
  ASSUME NEW routes \in Seq(Routes), NEW c, c = [NoCall EXCEPT !.at = "next", !.routes = routes]
  PROVE  CallOK(c) /\ ~InFlight(c) /\ c.at = "next" /\ c.routes = routes
<1>1. CallOK(NoCall)
  BY NoCallOK
<1>2. c \in Calls /\ c.at = "next" /\ c.routes = routes
  BY <1>1 DEF CallOK, Calls, Places
<1> QED
  BY <1>2 DEF CallOK, InFlight

LEMMA IdleMoves == ~InFlight(NoCall) /\ NeedOf(NoCall) = 0
BY DEF InFlight, NeedOf, NoCall

\* What is said of the routes of a call.
LEMMA RouteParts ==
  ASSUME NEW c, CallOK(c)
  PROVE  /\ c.routes \in Seq(Routes) /\ NeedOf(c) \in Nat
         /\ c.routes # <<>> => /\ Head(c.routes) \in Routes
                               /\ Tail(c.routes) \in Seq(Routes)
                               /\ Len(Tail(c.routes)) = Len(c.routes) - 1
<1>1. c.routes \in Seq(Routes)
  BY DEF CallOK, Calls
<1>2. Len(c.routes) \in Nat /\ (c.routes # <<>> => Len(c.routes) > 0)
  BY <1>1
<1>3. NeedOf(c) \in Nat
  BY <1>2 DEF NeedOf, CallOK
<1>4. c.routes # <<>> => Head(c.routes) \in Routes /\ Tail(c.routes) \in Seq(Routes)
                         /\ Len(Tail(c.routes)) = Len(c.routes) - 1
  BY <1>1
<1> QED
  BY <1>1, <1>3, <1>4

\* A new call starts without a reservation, with room for its routes.
LEMMA AskMoves ==
  ASSUME TypeInv, NEW p \in Procs, Asks(p)
  PROVE  \E c : Moved(p, c)
<1>1. \E routes \in Seq(Routes) :
        /\ call' = [call EXCEPT ![p] = [NoCall EXCEPT !.at = "next", !.routes = routes]]
        /\ Room(Len(routes))
  <2>1. ASSUME NEW listing \in Listings, BeginTask(p, listing)
        PROVE  \E routes \in Seq(Routes) :
                 /\ call' = [call EXCEPT ![p] = [NoCall EXCEPT !.at = "next", !.routes = routes]]
                 /\ Room(Len(routes))
    <3>1. PICK routes \in SeqOf(Routes, Attempts) :
            /\ Room(Len(routes))
            /\ Goes(p, [NoCall EXCEPT !.at = "next", !.routes = routes])
      BY <2>1 DEF BeginTask
    <3>2. routes \in Seq(Routes)
      BY <3>1 DEF SeqOf
    <3> QED
      BY <3>1, <3>2 DEF Goes
  <2>2. ASSUME NEW r \in Routes, BeginCall(p, r)
        PROVE  \E routes \in Seq(Routes) :
                 /\ call' = [call EXCEPT ![p] = [NoCall EXCEPT !.at = "next", !.routes = routes]]
                 /\ Room(Len(routes))
    <3>1. PICK routes : routes = <<r>>
      OBVIOUS
    <3>2. routes \in Seq(Routes) /\ Len(routes) = 1
      BY <3>1
    <3>3. Room(Len(routes)) /\ call' = [call EXCEPT ![p] = [NoCall EXCEPT !.at = "next", !.routes = routes]]
      BY <2>2, <3>1, <3>2 DEF BeginCall, Goes
    <3> QED
      BY <3>2, <3>3
  <2> QED
    BY <2>1, <2>2 DEF Asks
<1>2. PICK routes \in Seq(Routes) :
        /\ call' = [call EXCEPT ![p] = [NoCall EXCEPT !.at = "next", !.routes = routes]]
        /\ Room(Len(routes))
  BY <1>1
<1>3. PICK c : c = [NoCall EXCEPT !.at = "next", !.routes = routes]
  OBVIOUS
<1>4. CallOK(c) /\ ~InFlight(c) /\ c.at = "next" /\ c.routes = routes
  BY <1>3, FreshMoves
<1>5. call[p].at = "idle" /\ UNCHANGED <<now, files, ledger, drawn, used, excess>>
  BY DEF Asks, BeginTask, BeginCall, At, history
<1>6. FilesOK'
  BY <1>5 DEF TypeInv, FilesOK, files
<1> QED
  BY <1>2, <1>3, <1>4, <1>5, <1>6 DEF Moved, Asked

\* The steps after which the next route is tried, or nothing.
LEMMA OnwardMoves ==
  ASSUME TypeInv, NEW p \in Procs,
         GiveUp(p) \/ PreflightRefuses(p) \/ CapacityRefuses(p) \/ BudgetRefuses(p)
         \/ NothingToHeal(p) \/ Crash(p) \/ WriteHealth(p) \/ (RenameFails(p) /\ ~call[p].good)
  PROVE  \E c : Moved(p, c)
<1>1. CallOK(call[p]) /\ call \in [Procs -> Calls]
  BY DEF TypeInv, CallsOK
<1>2. UNCHANGED <<now, ledger, drawn, used, excess>>
  BY DEF GiveUp, PreflightRefuses, CapacityRefuses, BudgetRefuses, NothingToHeal, Crash,
         WriteHealth, RenameFails, history
<1>3. FilesOK'
  <2>1. CASE WriteHealth(p)
    <3>1. call[p].health \in Healths /\ Provider(p) \in Providers
      <4>1. call[p].at = "book"
        BY <2>1 DEF WriteHealth, At
      <4>2. Head(call[p].routes) \in Routes
        BY <4>1, <1>1, RouteParts DEF CallOK
      <4> QED
        BY <4>1, <4>2, <1>1, RouteAssumption DEF CallOK, Provider, Route
    <3>2. health' \in Healths
      BY <2>1, <3>1, HealthParts DEF WriteHealth
    <3>3. capacity' = capacity /\ temp' = temp
      BY <2>1 DEF WriteHealth
    <3> QED
      BY <3>2, <3>3 DEF TypeInv, FilesOK
  <2>2. CASE ~WriteHealth(p)
    <3>1. UNCHANGED files
      BY <2>2 DEF GiveUp, PreflightRefuses, CapacityRefuses, BudgetRefuses, NothingToHeal, Crash, RenameFails
    <3> QED
      BY <3>1 DEF TypeInv, FilesOK, files
  <2> QED
    BY <2>1, <2>2
<1>4. CASE call' = [call EXCEPT ![p] = NoCall]
  <2>1. NeedOf(NoCall) <= NeedOf(call[p])
    BY <1>1, IdleMoves, RouteParts
  <2>2. Quiet(p, NoCall)
    BY <2>1, <1>2, IdleMoves DEF Quiet
  <2> QED
    BY <2>2, <1>2, <1>3, <1>4, NoCallOK DEF Moved
<1>5. CASE call' = [call EXCEPT ![p] = NextRoute(p)] /\ call[p].routes # <<>>
           /\ call[p].at \in {"next", "reserve", "book"}
  <2>1. PICK c : c = [NoCall EXCEPT !.at = "next", !.routes = Tail(call[p].routes)]
    OBVIOUS
  <2>2. Tail(call[p].routes) \in Seq(Routes) /\ Len(Tail(call[p].routes)) = Len(call[p].routes) - 1
        /\ Len(call[p].routes) \in Nat
    BY <1>1, <1>5, RouteParts DEF CallOK, Calls
  <2>3. CallOK(c) /\ ~InFlight(c) /\ c.at = "next" /\ c.routes = Tail(call[p].routes)
    BY <2>1, <2>2, FreshMoves
  <2>4. NeedOf(c) <= NeedOf(call[p])
    BY <1>5, <2>2, <2>3 DEF NeedOf
  <2>5. Quiet(p, c)
    BY <2>3, <2>4, <1>2 DEF Quiet
  <2>6. call' = [call EXCEPT ![p] = c]
    BY <1>5, <2>1 DEF NextRoute
  <2> QED
    BY <2>3, <2>5, <2>6, <1>2, <1>3 DEF Moved
<1>6. \/ call' = [call EXCEPT ![p] = NoCall]
      \/ call' = [call EXCEPT ![p] = NextRoute(p)] /\ call[p].routes # <<>>
         /\ call[p].at \in {"next", "reserve", "book"}
  <2>1. CASE GiveUp(p) \/ NothingToHeal(p) \/ Crash(p) \/ (RenameFails(p) /\ ~call[p].good)
    BY <2>1 DEF GiveUp, NothingToHeal, Crash, RenameFails, Goes
  <2>2. CASE PreflightRefuses(p) \/ CapacityRefuses(p)
    BY <2>2 DEF PreflightRefuses, CapacityRefuses, Goes, At
  <2>3. CASE BudgetRefuses(p)
    BY <2>3, <1>1 DEF BudgetRefuses, Goes, At, CallOK
  <2>4. CASE WriteHealth(p)
    BY <2>4, <1>1 DEF WriteHealth, Goes, At, CallOK
  <2> QED
    BY <2>1, <2>2, <2>3, <2>4
<1> QED
  BY <1>4, <1>5, <1>6

\* The steps after the settlement, which need no reservation any more.
LEMMA BookMoves ==
  ASSUME TypeInv, NEW p \in Procs,
         CapacityAllows(p) \/ LoadCapacity(p) \/ WriteCapacity(p) \/ RenameCapacity(p) \/ LoadHealth(p)
         \/ TruncateHealth(p) \/ (RenameFails(p) /\ call[p].good) \/ CapacityInvalid(p)
  PROVE  \E c : Moved(p, c)
<1>1. CallOK(call[p]) /\ call[p] \in Calls /\ call[p].at \notin {"idle", "sent", "answered"}
  BY DEF TypeInv, CallsOK, CapacityAllows, LoadCapacity, CapacityInvalid, WriteCapacity, RenameCapacity,
         LoadHealth, TruncateHealth, RenameFails, At
<1>2. UNCHANGED <<now, ledger, drawn, used, excess>>
  BY DEF CapacityAllows, LoadCapacity, CapacityInvalid, WriteCapacity, RenameCapacity, LoadHealth,
         TruncateHealth, RenameFails, history
<1>3. \E c : /\ call' = [call EXCEPT ![p] = c] /\ FilesOK'
             /\ CallOK(c) /\ ~InFlight(c) /\ c.routes = call[p].routes
             /\ \/ c.at = "reserve" /\ call[p].at = "next"
                \/ c.at \notin {"idle", "next", "reserve"} /\ call[p].at \notin {"idle", "next", "reserve"}
  <2>1. CASE CapacityAllows(p)
    <3>1. PICK c : c = [call[p] EXCEPT !.at = "reserve"]
      OBVIOUS
    <3>2. c \in Calls /\ c.at = "reserve" /\ c.routes = call[p].routes /\ call[p].at = "next"
          /\ c.routes # <<>>
      BY <2>1, <3>1, <1>1 DEF Calls, Places, CapacityAllows, At
    <3>3. call' = [call EXCEPT ![p] = c] /\ FilesOK'
      BY <2>1, <3>1 DEF CapacityAllows, Goes, FilesOK, TypeInv, files
    <3> QED
      BY <3>2, <3>3 DEF CallOK, InFlight
  <2>2. CASE LoadCapacity(p)
    <3>1. PICK c : c = [call[p] EXCEPT !.at = "write", !.capacity = capacity]
      OBVIOUS
    <3>2. c \in Calls /\ c.at = "write" /\ c.routes = call[p].routes /\ call[p].at = "load"
          /\ c.capacity \in Capacities
      BY <2>2, <3>1, <1>1 DEF Calls, Places, LoadCapacity, At, TypeInv, FilesOK
    <3>3. call' = [call EXCEPT ![p] = c] /\ FilesOK'
      BY <2>2, <3>1 DEF LoadCapacity, Goes, FilesOK, TypeInv, files
    <3> QED
      BY <3>2, <3>3, <1>1 DEF CallOK, InFlight
  <2>3. CASE WriteCapacity(p)
    <3>1. PICK c : c = [call[p] EXCEPT !.at = "rename", !.capacity = NoFile, !.window = NoBlock]
      OBVIOUS
    <3>2. c \in Calls /\ c.at = "rename" /\ c.routes = call[p].routes /\ call[p].at = "write"
      BY <2>3, <3>1, <1>1, DayParts DEF Calls, Places, WriteCapacity, At, NoBlock
    <3>3. call' = [call EXCEPT ![p] = c]
      BY <2>3, <3>1 DEF WriteCapacity, Goes
    <3>4. temp' \in Capacities
      <4>1. call[p].capacity \in Capacities /\ call[p].window \in Times
        BY <3>2, <1>1 DEF CallOK, Calls
      <4> QED
        BY <4>1, <2>3 DEF WriteCapacity, Capacities
    <3>5. FilesOK'
      BY <2>3, <3>4 DEF WriteCapacity, FilesOK, TypeInv
    <3> QED
      BY <3>2, <3>3, <3>5, <1>1 DEF CallOK, InFlight
  <2>4. CASE RenameCapacity(p)
    <3>1. PICK c : c = [call[p] EXCEPT !.at = "health"]
      OBVIOUS
    <3>2. c \in Calls /\ c.at = "health" /\ c.routes = call[p].routes /\ call[p].at = "rename"
      BY <2>4, <3>1, <1>1 DEF Calls, Places, RenameCapacity, At
    <3>3. call' = [call EXCEPT ![p] = c] /\ FilesOK'
      BY <2>4, <3>1 DEF RenameCapacity, Goes, FilesOK, TypeInv
    <3> QED
      BY <3>2, <3>3, <1>1 DEF CallOK, InFlight
  <2>5. CASE LoadHealth(p)
    <3>1. PICK c : c = [call[p] EXCEPT !.at = "truncate", !.health = Errors(health)]
      OBVIOUS
    <3>2. Errors(health) \in Healths
      BY HealthParts DEF TypeInv, FilesOK
    <3>3. c \in Calls /\ c.at = "truncate" /\ c.routes = call[p].routes /\ call[p].at = "health"
          /\ c.health \in Healths
      BY <2>5, <3>1, <3>2, <1>1 DEF Calls, Places, LoadHealth, At
    <3>4. call' = [call EXCEPT ![p] = c] /\ FilesOK'
      BY <2>5, <3>1 DEF LoadHealth, Goes, FilesOK, TypeInv, files
    <3> QED
      BY <3>3, <3>4, <1>1 DEF CallOK, InFlight
  <2>6. CASE TruncateHealth(p)
    <3>1. PICK c : c = [call[p] EXCEPT !.at = "book"]
      OBVIOUS
    <3>2. c \in Calls /\ c.at = "book" /\ c.routes = call[p].routes /\ call[p].at = "truncate"
          /\ c.health = call[p].health
      BY <2>6, <3>1, <1>1 DEF Calls, Places, TruncateHealth, At
    <3>3. call' = [call EXCEPT ![p] = c] /\ FilesOK'
      BY <2>6, <3>1 DEF TruncateHealth, Goes, FilesOK, TypeInv
    <3> QED
      BY <3>2, <3>3, <1>1 DEF CallOK, InFlight
  <2>7. CASE RenameFails(p) /\ call[p].good
    <3>1. PICK c : c = [call[p] EXCEPT !.at = "failed", !.window = NoBlock]
      OBVIOUS
    <3>2. c \in Calls /\ c.at = "failed" /\ c.routes = call[p].routes /\ call[p].at = "rename"
          /\ c.good = call[p].good
      BY <2>7, <3>1, <1>1, DayParts DEF Calls, Places, RenameFails, At, NoBlock
    <3>3. call' = [call EXCEPT ![p] = c] /\ FilesOK'
      BY <2>7, <3>1 DEF RenameFails, Goes, FilesOK, TypeInv, files
    <3> QED
      BY <2>7, <3>2, <3>3, <1>1 DEF CallOK, InFlight
  <2>8. CASE CapacityInvalid(p)
    <3>1. PICK c : c = [call[p] EXCEPT !.at = IF call[p].good THEN "failed" ELSE "health", !.window = NoBlock]
      OBVIOUS
    <3>2. /\ c \in Calls /\ c.routes = call[p].routes /\ call[p].at = "load" /\ c.good = call[p].good
          /\ c.at = IF call[p].good THEN "failed" ELSE "health"
      BY <2>8, <3>1, <1>1, DayParts DEF Calls, Places, CapacityInvalid, At, NoBlock
    <3>3. call' = [call EXCEPT ![p] = c] /\ FilesOK'
      BY <2>8, <3>1 DEF CapacityInvalid, Goes, FilesOK, TypeInv, files
    <3> QED
      BY <2>8, <3>2, <3>3, <1>1 DEF CallOK, InFlight
  <2> QED
    BY <2>1, <2>2, <2>3, <2>4, <2>5, <2>6, <2>7, <2>8
<1>4. PICK c : /\ call' = [call EXCEPT ![p] = c] /\ FilesOK'
               /\ CallOK(c) /\ ~InFlight(c) /\ c.routes = call[p].routes
               /\ \/ c.at = "reserve" /\ call[p].at = "next"
                  \/ c.at \notin {"idle", "next", "reserve"} /\ call[p].at \notin {"idle", "next", "reserve"}
  BY <1>3
<1>5. Quiet(p, c)
  <2>1. NeedOf(c) = NeedOf(call[p])
    BY <1>4 DEF NeedOf
  <2>2. NeedOf(c) \in Nat
    BY <1>4, RouteParts
  <2> QED
    BY <1>2, <1>4, <2>1, <2>2 DEF Quiet
<1> QED
  BY <1>2, <1>4, <1>5 DEF Moved

\* The answer of a provider, and an answer whose reservation is unknown.
LEMMA RequestMoves ==
  ASSUME TypeInv, IInv, NEW p \in Procs, Request(p) \/ SettleUnknown(p)
  PROVE  \E c : Moved(p, c)
<1>1. CallOK(call[p]) /\ call[p] \in Calls /\ call[p].routes # <<>>
  BY DEF TypeInv, CallsOK, CallOK, Request, Answered, RequestFails, SettleUnknown, At
<1>2. UNCHANGED <<now, files, ledger, drawn>> /\ FilesOK'
  BY DEF Request, Answered, RequestFails, SettleUnknown, TypeInv, FilesOK, files
<1>3. call[p].at \in {"sent", "answered"} /\ ~call[p].good /\ InFlight(call[p])
  BY DEF Request, Answered, RequestFails, SettleUnknown, At, IInv, NotYetGood, InFlight
<1>4. CASE SettleUnknown(p)
  <2>1. PICK c : c = [call[p] EXCEPT !.at = "failed", !.window = NoBlock, !.usage = 0]
    OBVIOUS
  <2>2. c \in Calls /\ c.at = "failed" /\ c.routes = call[p].routes /\ c.good = call[p].good
        /\ c.id = call[p].id /\ c.day = call[p].day
    BY <2>1, <1>1, DayParts DEF Calls, Places, NoBlock
  <2>3. CallOK(c) /\ InFlight(c)
    BY <2>2, <1>1, <1>3 DEF CallOK, InFlight
  <2>4. call' = [call EXCEPT ![p] = c] /\ UNCHANGED <<used, excess>>
    BY <1>4, <2>1 DEF SettleUnknown, Goes, history
  <2>5. Unsettleable(p, c)
    BY <1>2, <1>3, <2>2, <2>3, <2>4 DEF Unsettleable, SameRequest
  <2> QED
    BY <1>2, <2>3, <2>4, <2>5 DEF Moved
<1>5. CASE Request(p)
  <2>1. PICK u \in Usages, w \in Times : Answered(p, u, w) \/ RequestFails(p, u, w)
    BY <1>5 DEF Request
  <2>2. call[p].at = "sent" /\ Uses(p, u)
    BY <2>1 DEF Answered, RequestFails, At
  <2>3. \E c : /\ call' = [call EXCEPT ![p] = c]
               /\ c \in Calls /\ c.routes = call[p].routes /\ c.good = call[p].good
               /\ c.id = call[p].id /\ c.day = call[p].day
               /\ c.at = "failed" \/ (c.at = "answered" /\ c.usage = u)
    <3>1. CASE Answered(p, u, w)
      <4>1. PICK c : c = [call[p] EXCEPT !.at = "answered", !.usage = u, !.window = w]
        OBVIOUS
      <4>2. c \in Calls /\ c.at = "answered" /\ c.usage = u
        BY <4>1, <1>1 DEF Calls, Places
      <4>3. c.routes = call[p].routes /\ c.good = call[p].good /\ c.id = call[p].id /\ c.day = call[p].day
        BY <4>1, <1>1 DEF Calls
      <4>4. call' = [call EXCEPT ![p] = c]
        BY <3>1, <4>1 DEF Answered, Goes
      <4> QED
        BY <4>2, <4>3, <4>4
    <3>2. CASE RequestFails(p, u, w)
      <4>1. PICK c : c = [call[p] EXCEPT !.at = "failed", !.window = w]
        OBVIOUS
      <4>2. c \in Calls /\ c.at = "failed"
        BY <4>1, <1>1 DEF Calls, Places
      <4>3. c.routes = call[p].routes /\ c.good = call[p].good /\ c.id = call[p].id /\ c.day = call[p].day
        BY <4>1, <1>1 DEF Calls
      <4>4. call' = [call EXCEPT ![p] = c]
        BY <3>2, <4>1 DEF RequestFails, Goes
      <4> QED
        BY <4>2, <4>3, <4>4
    <3> QED
      BY <2>1, <3>1, <3>2
  <2>4. PICK c : /\ call' = [call EXCEPT ![p] = c]
                 /\ c \in Calls /\ c.routes = call[p].routes /\ c.good = call[p].good
                 /\ c.id = call[p].id /\ c.day = call[p].day
                 /\ c.at = "failed" \/ (c.at = "answered" /\ c.usage = u)
    BY <2>3
  <2>5. CallOK(c) /\ InFlight(c)
    BY <2>4, <1>1, <1>3 DEF CallOK, InFlight
  <2>6. Requested(p, c)
    BY <1>2, <1>3, <2>2, <2>4, <2>5 DEF Requested, SameRequest
  <2> QED
    BY <1>2, <2>4, <2>5, <2>6 DEF Moved
<1> QED
  BY <1>4, <1>5

LEMMA SettleMoves ==
  ASSUME TypeInv, IInv, NEW p \in Procs, SettleAnswer(p) \/ SettleFailure(p)
  PROVE  \E c : Moved(p, c)
<1>1. CallOK(call[p]) /\ call[p] \in Calls /\ call[p].routes # <<>>
  BY DEF TypeInv, CallsOK, CallOK, SettleAnswer, SettleFailure, At
<1>2. UNCHANGED <<now, files, drawn, used, excess>> /\ FilesOK'
  BY DEF SettleAnswer, SettleFailure, TypeInv, FilesOK, files, history
<1>3. call[p].at \in {"answered", "failed"}
  BY DEF SettleAnswer, SettleFailure, At
<1>4. PICK good \in BOOLEAN : call' = [call EXCEPT ![p] = AfterSettling(p, good)]
  BY DEF SettleAnswer, SettleFailure, Goes
<1>5. PICK c : c = [call[p] EXCEPT !.at = "load", !.good = good, !.id = NoId, !.day = 0, !.usage = 0]
  OBVIOUS
<1>6. c \in Calls /\ c.at = "load" /\ c.routes = call[p].routes
  BY <1>1, <1>5, DayParts DEF Calls, Places, NoId
<1>7. CallOK(c) /\ ~InFlight(c)
  BY <1>1, <1>6 DEF CallOK, InFlight
<1>8. call' = [call EXCEPT ![p] = c]
  BY <1>4, <1>5 DEF AfterSettling
<1> DEFINE l == LedgerOf(Today(now))
           i == call[p].id
<1>9. CASE i \in DOMAIN l.held
  <2>1. InFlight(call[p])
    <3>1. i # NoId
      <4>1. DOMAIN EmptyLedger(Today(now)).held = {}
        BY DEF EmptyLedger
      <4>2. i \in DOMAIN ledger.held
        BY <1>9, <4>1 DEF LedgerOf
      <4> QED
        BY <4>2 DEF IInv, OwnReservation, NoId
    <3>2. Unsettled(p)
      BY <3>1 DEF IInv, OwnReservation
    <3> QED
      BY <3>2, InFlightIsUnsettled
  <2>2. \/ call[p].at = "answered" /\ ledger' = Settled(l, i, call[p].usage)
        \/ call[p].at = "failed" /\ ledger' = Settled(l, i, l.held[i])
    BY <1>9 DEF SettleAnswer, SettleFailure, At
  <2>3. Charged(p, c)
    BY <1>2, <1>6, <1>9, <2>1, <2>2 DEF Charged
  <2> QED
    BY <1>2, <1>7, <1>8, <2>3 DEF Moved
<1>10. CASE i \notin DOMAIN l.held
  <2>1. ledger' = ledger
    BY <1>10 DEF SettleAnswer, SettleFailure
  <2>2. NeedOf(c) = NeedOf(call[p])
    BY <1>3, <1>6 DEF NeedOf
  <2>3. NeedOf(c) \in Nat
    BY <1>7, RouteParts
  <2>4. Quiet(p, c)
    BY <1>2, <1>7, <2>1, <2>2, <2>3 DEF Quiet
  <2> QED
    BY <1>2, <1>7, <1>8, <2>4 DEF Moved
<1> QED
  BY <1>9, <1>10

LEMMA ReserveMoves ==
  ASSUME TypeInv, IInv, NEW p \in Procs, Reserve(p)
  PROVE  \E c : Moved(p, c)
<1>1. CallOK(call[p]) /\ call[p] \in Calls /\ call[p].at = "reserve"
  BY DEF TypeInv, CallsOK, Reserve, At
<1>2. UNCHANGED <<now, files, used, excess>> /\ FilesOK'
  BY DEF Reserve, TypeInv, FilesOK, files, history
<1>3. drawn \in Nat /\ drawn' = drawn + 1 /\ Today(now) \in Days
  BY DayParts DEF Reserve, IInv, OwnReservation, TypeInv
<1>4. PICK c : c = [call[p] EXCEPT !.at = "sent", !.id = drawn + 1, !.day = Today(now)]
  OBVIOUS
<1>5. c \in Calls /\ c.at = "sent" /\ c.id = drawn + 1 /\ c.day = Today(now)
  <2>1. PICK i \in Nat, day \in Days : i = drawn + 1 /\ day = Today(now)
    BY <1>3
  <2>2. c = [call[p] EXCEPT !.at = "sent", !.id = i, !.day = day]
    BY <1>4, <2>1
  <2>3. c \in Calls /\ c.at = "sent" /\ c.id = i /\ c.day = day
    BY <1>1, <2>2 DEF Calls, Places
  <2> QED
    BY <2>1, <2>3
<1>6. c.routes = call[p].routes
  BY <1>1, <1>4 DEF Calls
<1>7. CallOK(c)
  BY <1>1, <1>5, <1>6 DEF CallOK
<1>8. call' = [call EXCEPT ![p] = c]
  BY <1>3, <1>4 DEF Reserve, Goes
<1>9. /\ Fits(LedgerOf(Today(now)), Estimate[Route(p)])
      /\ ledger' = WithReservation(LedgerOf(Today(now)), drawn + 1, Estimate[Route(p)])
  BY <1>3 DEF Reserve
<1>10. Reserved(p, c)
  BY <1>1, <1>2, <1>3, <1>5, <1>6, <1>9 DEF Reserved
<1> QED
  BY <1>2, <1>7, <1>8, <1>10 DEF Moved

\* Every step of a process but the clock's is one of the six kinds.
LEMMA EveryMove ==
  ASSUME TypeInv, IInv, NEW p \in Procs, Grouped(p)
  PROVE  \E c : Moved(p, c)
BY AskMoves, OnwardMoves, BookMoves, RequestMoves, SettleMoves, ReserveMoves DEF Grouped

-----------------------------------------------------------------------------
(* What calls still owe, in constant-level operators of the calls k, the   *)
(* ledger l, and the history u of what was used and x of what was used     *)
(* beyond the estimates.                                                   *)

Beyond(a, b) == IF a > b THEN a - b ELSE 0

EstimateOf(c) == Estimate[Head(c.routes)]

\* What the request of a call may still use of its estimate, or did not use.
DueOf(c, d) ==
  IF c.day # d THEN 0
  ELSE IF c.at = "sent" THEN EstimateOf(c)
  ELSE IF c.at = "answered" THEN Beyond(EstimateOf(c), c.usage)
  ELSE 0

\* What the settlement of a call will charge beyond its estimate.
OverOf(c, d) ==
  IF c.day = d /\ c.at = "answered" THEN Beyond(c.usage, EstimateOf(c)) ELSE 0

TotalDue(k, d)  == SumFunction([p \in Procs |-> DueOf(k[p], d)])
TotalOver(k, d) == SumFunction([p \in Procs |-> OverOf(k[p], d)])
TotalNeed(k)    == SumFunction([p \in Procs |-> NeedOf(k[p])])

AllOK(k) == k \in [Procs -> Calls] /\ \A p \in Procs : CallOK(k[p])

LedgerOK(l) ==
  /\ DOMAIN l = {"date", "spent", "held"}
  /\ l.date \in Days /\ l.spent \in Nat /\ Summable(l.held)

LEMMA EstimateParts ==
  ASSUME NEW c, CallOK(c), c.at \notin {"idle", "next"}
  PROVE  EstimateOf(c) \in Nat /\ EstimateOf(c) \in Range(Estimate)
<1>1. Head(c.routes) \in Routes
  BY RouteParts DEF CallOK
<1> QED
  BY <1>1, AmountAssumption DEF EstimateOf, Range

LEMMA AmountParts ==
  ASSUME NEW c, CallOK(c), NEW d
  PROVE  DueOf(c, d) \in Nat /\ OverOf(c, d) \in Nat /\ NeedOf(c) \in Nat
<1>1. c.at \in {"sent", "answered"} => EstimateOf(c) \in Nat
  BY EstimateParts
<1>2. c.at = "answered" => c.usage \in Nat
  BY AmountAssumption DEF CallOK
<1> QED
  BY <1>1, <1>2, RouteParts DEF DueOf, OverOf, Beyond

LEMMA NothingDue ==
  ASSUME NEW c, NEW d, c.at \notin {"sent", "answered"} \/ c.day # d
  PROVE  DueOf(c, d) = 0 /\ OverOf(c, d) = 0
BY DEF DueOf, OverOf

\* A step of one call changes each total by what it changes for that call.
Differs(k, j, p, c) == AllOK(k) /\ AllOK(j) /\ j[p] = c /\ \A q \in Procs \ {p} : j[q] = k[q]

LEMMA OneDiffers ==
  ASSUME NEW k, AllOK(k), NEW p \in Procs, NEW c, CallOK(c)
  PROVE  Differs(k, [k EXCEPT ![p] = c], p, c)
<1>1. PICK j : j = [k EXCEPT ![p] = c]
  OBVIOUS
<1>2. j[p] = c /\ \A q \in Procs \ {p} : j[q] = k[q]
  BY <1>1 DEF AllOK
<1>3. j \in [Procs -> Calls]
  BY <1>1 DEF AllOK, CallOK
<1>4. AllOK(j)
  BY <1>2, <1>3 DEF AllOK
<1> QED
  BY <1>1, <1>2, <1>4 DEF Differs

LEMMA DueChanges ==
  ASSUME NEW k, NEW j, NEW p \in Procs, NEW c, Differs(k, j, p, c), NEW d
  PROVE  /\ TotalDue(k, d) \in Nat
         /\ TotalDue(j, d) = (TotalDue(k, d) - DueOf(k[p], d)) + DueOf(c, d)
<1>1. PICK f, g : f = [q \in Procs |-> DueOf(k[q], d)] /\ g = [q \in Procs |-> DueOf(j[q], d)]
  OBVIOUS
<1>2. DOMAIN f = Procs /\ \A q \in Procs : CallOK(k[q]) /\ f[q] = DueOf(k[q], d)
  BY <1>1 DEF Differs, AllOK
<1>3. \A q \in Procs : f[q] \in Nat
  BY <1>2, AmountParts
<1>4. Summable(f)
  BY <1>2, <1>3, ProcAssumption DEF Summable
<1>5. DOMAIN f = Procs /\ DOMAIN g = Procs /\ f[p] = DueOf(k[p], d) /\ g[p] = DueOf(c, d) /\ g[p] \in Nat
      /\ \A q \in Procs \ {p} : g[q] = f[q]
  <2>1. CallOK(c)
    BY DEF Differs, AllOK
  <2>2. g[p] \in Nat
    BY <1>1, <2>1, AmountParts DEF Differs
  <2> QED
    BY <1>1, <2>2 DEF Differs
<1>6. SumFunction(f) \in Nat /\ SumFunction(g) = (SumFunction(f) - f[p]) + g[p]
  BY <1>4, <1>5, SumType, SumChanges
<1> QED
  BY <1>1, <1>5, <1>6 DEF TotalDue

LEMMA OverChanges ==
  ASSUME NEW k, NEW j, NEW p \in Procs, NEW c, Differs(k, j, p, c), NEW d
  PROVE  /\ TotalOver(k, d) \in Nat
         /\ TotalOver(j, d) = (TotalOver(k, d) - OverOf(k[p], d)) + OverOf(c, d)
<1>1. PICK f, g : f = [q \in Procs |-> OverOf(k[q], d)] /\ g = [q \in Procs |-> OverOf(j[q], d)]
  OBVIOUS
<1>2. DOMAIN f = Procs /\ \A q \in Procs : CallOK(k[q]) /\ f[q] = OverOf(k[q], d)
  BY <1>1 DEF Differs, AllOK
<1>3. \A q \in Procs : f[q] \in Nat
  BY <1>2, AmountParts
<1>4. Summable(f)
  BY <1>2, <1>3, ProcAssumption DEF Summable
<1>5. DOMAIN f = Procs /\ DOMAIN g = Procs /\ f[p] = OverOf(k[p], d) /\ g[p] = OverOf(c, d) /\ g[p] \in Nat
      /\ \A q \in Procs \ {p} : g[q] = f[q]
  <2>1. CallOK(c)
    BY DEF Differs, AllOK
  <2>2. g[p] \in Nat
    BY <1>1, <2>1, AmountParts DEF Differs
  <2> QED
    BY <1>1, <2>2 DEF Differs
<1>6. SumFunction(f) \in Nat /\ SumFunction(g) = (SumFunction(f) - f[p]) + g[p]
  BY <1>4, <1>5, SumType, SumChanges
<1> QED
  BY <1>1, <1>5, <1>6 DEF TotalOver

LEMMA NeedChanges ==
  ASSUME NEW k, NEW j, NEW p \in Procs, NEW c, Differs(k, j, p, c)
  PROVE  /\ TotalNeed(k) \in Nat
         /\ TotalNeed(j) = (TotalNeed(k) - NeedOf(k[p])) + NeedOf(c)
<1>1. PICK f, g : f = [q \in Procs |-> NeedOf(k[q])] /\ g = [q \in Procs |-> NeedOf(j[q])]
  OBVIOUS
<1>2. DOMAIN f = Procs /\ \A q \in Procs : CallOK(k[q]) /\ f[q] = NeedOf(k[q])
  BY <1>1 DEF Differs, AllOK
<1>3. \A q \in Procs : f[q] \in Nat
  BY <1>2, AmountParts
<1>4. Summable(f)
  BY <1>2, <1>3, ProcAssumption DEF Summable
<1>5. DOMAIN f = Procs /\ DOMAIN g = Procs /\ f[p] = NeedOf(k[p]) /\ g[p] = NeedOf(c) /\ g[p] \in Nat
      /\ \A q \in Procs \ {p} : g[q] = f[q]
  <2>1. CallOK(c)
    BY DEF Differs, AllOK
  <2>2. g[p] \in Nat
    BY <1>1, <2>1, AmountParts DEF Differs
  <2> QED
    BY <1>1, <2>2 DEF Differs
<1>6. SumFunction(f) \in Nat /\ SumFunction(g) = (SumFunction(f) - f[p]) + g[p]
  BY <1>4, <1>5, SumType, SumChanges
<1> QED
  BY <1>1, <1>5, <1>6 DEF TotalNeed

-----------------------------------------------------------------------------
\* What reserving and settling do to the sum that is set aside.
LEMMA ReservedSum ==
  ASSUME NEW l, LedgerOK(l), NEW i, i \notin DOMAIN l.held, NEW a \in Nat
  PROVE  LET m == WithReservation(l, i, a) IN
         /\ LedgerOK(m)
         /\ m.date = l.date /\ m.spent = l.spent
         /\ DOMAIN m.held = DOMAIN l.held \cup {i} /\ m.held[i] = a
         /\ \A j \in DOMAIN l.held : m.held[j] = l.held[j]
         /\ Held(l) \in Nat /\ Held(m) = Held(l) + a
<1>1. PICK h : h = [j \in DOMAIN l.held \cup {i} |-> IF j = i THEN a ELSE l.held[j]]
  OBVIOUS
<1>2. PICK m : m = [l EXCEPT !.held = h]
  OBVIOUS
<1>3. m = WithReservation(l, i, a)
  BY <1>1, <1>2 DEF WithReservation
<1>4. DOMAIN m = DOMAIN l /\ m.held = h /\ m.date = l.date /\ m.spent = l.spent
  BY <1>2 DEF LedgerOK
<1>5. DOMAIN h = DOMAIN l.held \cup {i} /\ h[i] = a /\ \A j \in DOMAIN l.held : h[j] = l.held[j]
  BY <1>1
<1>6. Summable(h) /\ SumFunction(h) = SumFunction(l.held) + a
  BY <1>5, SumExtends DEF LedgerOK
<1>7. SumFunction(l.held) \in Nat
  BY SumType DEF LedgerOK
<1> QED
  BY <1>3, <1>4, <1>5, <1>6, <1>7 DEF LedgerOK, Held

LEMMA SettledSum ==
  ASSUME NEW l, LedgerOK(l), NEW i \in DOMAIN l.held, NEW a \in Nat
  PROVE  LET m == Settled(l, i, a) IN
         /\ LedgerOK(m)
         /\ m.date = l.date /\ m.spent = l.spent + a
         /\ DOMAIN m.held = DOMAIN l.held \ {i} /\ \A j \in DOMAIN m.held : m.held[j] = l.held[j]
         /\ Held(l) = Held(m) + l.held[i] /\ Held(m) \in Nat /\ l.held[i] \in Nat
<1>1. PICK h : h = Without(l.held, i)
  OBVIOUS
<1>2. PICK n : n = [l EXCEPT !.held = h]
  OBVIOUS
<1>3. PICK m : m = [n EXCEPT !.spent = l.spent + a]
  OBVIOUS
<1>4. DOMAIN n = DOMAIN l /\ n.held = h /\ n.date = l.date /\ n.spent = l.spent
  BY <1>2 DEF LedgerOK
<1>5. DOMAIN m = DOMAIN l /\ m.held = h /\ m.date = l.date /\ m.spent = l.spent + a
  BY <1>3, <1>4 DEF LedgerOK
<1>6. m = Settled(l, i, a)
  BY <1>1, <1>2, <1>3, <1>4 DEF Settled
<1>7. DOMAIN h = DOMAIN l.held \ {i} /\ \A j \in DOMAIN h : h[j] = l.held[j]
  BY <1>1 DEF Without, Restrict
<1>8. Summable(h) /\ l.held[i] \in Nat
  BY <1>7, FS_RemoveElement DEF LedgerOK, Summable
<1>9. SumFunction(l.held) = SumFunction(h) + l.held[i]
  BY <1>7, <1>8, SumExtends DEF LedgerOK
<1>10. SumFunction(h) \in Nat
  BY <1>8, SumType
<1>11. m.spent \in Nat
  BY <1>5 DEF LedgerOK
<1> QED
  BY <1>5, <1>6, <1>7, <1>8, <1>9, <1>10, <1>11 DEF LedgerOK, Held

-----------------------------------------------------------------------------
(* The balance.                                                            *)

\* What will be charged beyond the estimates was booked as excess; with it,
\* what is spent and set aside is within the limit; what was used and is still
\* due is spent, set aside or excess; and on no day are use and dues beyond
\* limit and excess.
Balanced(k, l, u, x) ==
  /\ TotalOver(k, l.date) <= x[l.date]
  /\ l.spent + Held(l) + TotalOver(k, l.date) <= Limit + x[l.date]
  /\ u[l.date] + TotalDue(k, l.date) <= x[l.date] + l.spent + Held(l)
  /\ \A d \in Days : u[d] + TotalDue(k, d) <= Limit + x[d]
  /\ \A d \in Days : d > l.date => u[d] = 0 /\ x[d] = 0

\* The reservation of a request is in the ledger just on its own day, with the
\* estimate as its amount.
Backed(k, l) ==
  \A p \in Procs : InFlight(k[p]) =>
    /\ k[p].day <= l.date
    /\ k[p].id \in DOMAIN l.held <=> k[p].day = l.date
    /\ k[p].day = l.date => l.held[k[p].id] = EstimateOf(k[p])

InBalance(k, l, u, x) ==
  /\ AllOK(k) /\ LedgerOK(l) /\ u \in [Days -> Nat] /\ x \in [Days -> Nat]
  /\ Balanced(k, l, u, x)

\* A call that asks for nothing: what it still owed is dropped.
LEMMA QuietBalance ==
  ASSUME NEW k, NEW l, NEW u, NEW x, InBalance(k, l, u, x),
         NEW p \in Procs, NEW c, CallOK(c), c.at \notin {"sent", "answered"}
  PROVE  InBalance([k EXCEPT ![p] = c], l, u, x)
<1>1. AllOK(k)
  BY DEF InBalance
<1>2. PICK j : j = [k EXCEPT ![p] = c]
  OBVIOUS
<1>3. Differs(k, j, p, c)
  BY <1>1, <1>2, OneDiffers
<1>4. \A d \in Days : /\ TotalDue(j, d) \in Int /\ TotalDue(j, d) <= TotalDue(k, d)
                      /\ TotalOver(j, d) \in Int /\ TotalOver(j, d) <= TotalOver(k, d)
                      /\ TotalDue(k, d) \in Nat /\ TotalOver(k, d) \in Nat
  <2> SUFFICES ASSUME NEW d \in Days
               PROVE  /\ TotalDue(j, d) \in Int /\ TotalDue(j, d) <= TotalDue(k, d)
                      /\ TotalOver(j, d) \in Int /\ TotalOver(j, d) <= TotalOver(k, d)
                      /\ TotalDue(k, d) \in Nat /\ TotalOver(k, d) \in Nat
    OBVIOUS
  <2>1. DueOf(c, d) = 0 /\ OverOf(c, d) = 0
    BY NothingDue
  <2>2. DueOf(k[p], d) \in Nat /\ OverOf(k[p], d) \in Nat
    BY AmountParts DEF InBalance, AllOK
  <2>3. TotalDue(k, d) \in Nat /\ TotalDue(j, d) = (TotalDue(k, d) - DueOf(k[p], d)) + DueOf(c, d)
    BY <1>3, DueChanges
  <2>4. TotalOver(k, d) \in Nat /\ TotalOver(j, d) = (TotalOver(k, d) - OverOf(k[p], d)) + OverOf(c, d)
    BY <1>3, OverChanges
  <2> QED
    BY <2>1, <2>2, <2>3, <2>4
<1>5. AllOK(j)
  BY <1>3 DEF Differs
<1>6. l.spent \in Nat /\ Held(l) \in Nat /\ l.date \in Days /\ Limit \in Nat
  BY SumType, AmountAssumption DEF InBalance, LedgerOK, Held
<1>7. \A d \in Days : u[d] \in Nat /\ x[d] \in Nat
  BY DEF InBalance
<1>8. Balanced(j, l, u, x)
  <2>1. TotalOver(j, l.date) <= x[l.date]
    BY <1>4, <1>6, <1>7 DEF InBalance, Balanced
  <2>2. l.spent + Held(l) + TotalOver(j, l.date) <= Limit + x[l.date]
    BY <1>4, <1>6, <1>7 DEF InBalance, Balanced
  <2>3. u[l.date] + TotalDue(j, l.date) <= x[l.date] + l.spent + Held(l)
    BY <1>4, <1>6, <1>7 DEF InBalance, Balanced
  <2>4. \A d \in Days : u[d] + TotalDue(j, d) <= Limit + x[d]
    BY <1>4, <1>6, <1>7 DEF InBalance, Balanced
  <2> QED
    BY <2>1, <2>2, <2>3, <2>4 DEF InBalance, Balanced
<1> QED
  BY <1>2, <1>5, <1>8 DEF InBalance

\* A request that is sent uses something of its estimate, or beyond it.
LEMMA RequestBalance ==
  ASSUME NEW k, NEW l, NEW u, NEW x, InBalance(k, l, u, x),
         NEW p \in Procs, k[p].at = "sent", k[p].day <= l.date, NEW w \in Nat, NEW c, CallOK(c),
         c.day = k[p].day, c.routes = k[p].routes,
         c.at = "failed" \/ (c.at = "answered" /\ c.usage = w),
         NEW v, v = [u EXCEPT ![k[p].day] = @ + w],
         NEW y, y = [x EXCEPT ![k[p].day] = @ + Beyond(w, EstimateOf(k[p]))]
  PROVE  InBalance([k EXCEPT ![p] = c], l, v, y)
<1>1. AllOK(k) /\ LedgerOK(l)
  BY DEF InBalance
<1>2. PICK j : j = [k EXCEPT ![p] = c]
  OBVIOUS
<1>3. PICK e \in Nat : e = EstimateOf(k[p]) /\ e = EstimateOf(c)
  BY <1>1, EstimateParts DEF AllOK, EstimateOf
<1>4. PICK day \in Days : day = k[p].day
  BY <1>1 DEF AllOK, Calls
<1>5. PICK r \in Nat : r = Beyond(w, e) /\ w <= e + r
  BY DEF Beyond
<1>6. /\ \A d \in Days : u[d] \in Nat /\ x[d] \in Nat
      /\ v \in [Days -> Nat] /\ y \in [Days -> Nat]
      /\ v[day] = u[day] + w /\ y[day] = x[day] + r
      /\ \A d \in Days \ {day} : v[d] = u[d] /\ y[d] = x[d]
  BY <1>3, <1>4, <1>5 DEF InBalance
<1>7. Differs(k, j, p, c)
  BY <1>1, <1>2, OneDiffers
<1>8. \A d \in Days : /\ TotalDue(k, d) \in Nat /\ TotalOver(k, d) \in Nat
                      /\ TotalDue(j, d) = (TotalDue(k, d) - DueOf(k[p], d)) + DueOf(c, d)
                      /\ TotalOver(j, d) = (TotalOver(k, d) - OverOf(k[p], d)) + OverOf(c, d)
  <2> SUFFICES ASSUME NEW d \in Days
               PROVE  /\ TotalDue(k, d) \in Nat /\ TotalOver(k, d) \in Nat
                      /\ TotalDue(j, d) = (TotalDue(k, d) - DueOf(k[p], d)) + DueOf(c, d)
                      /\ TotalOver(j, d) = (TotalOver(k, d) - OverOf(k[p], d)) + OverOf(c, d)
    OBVIOUS
  <2>1. TotalDue(k, d) \in Nat /\ TotalDue(j, d) = (TotalDue(k, d) - DueOf(k[p], d)) + DueOf(c, d)
    BY <1>7, DueChanges
  <2>2. TotalOver(k, d) \in Nat /\ TotalOver(j, d) = (TotalOver(k, d) - OverOf(k[p], d)) + OverOf(c, d)
    BY <1>7, OverChanges
  <2> QED
    BY <2>1, <2>2
<1>9. AllOK(j)
  BY <1>7 DEF Differs
<1>10. \A d \in Days \ {day} : TotalDue(j, d) = TotalDue(k, d) /\ TotalOver(j, d) = TotalOver(k, d)
  <2>1. \A d \in Days \ {day} : DueOf(k[p], d) = 0 /\ OverOf(k[p], d) = 0 /\ DueOf(c, d) = 0 /\ OverOf(c, d) = 0
    BY <1>4, NothingDue
  <2> QED
    BY <1>8, <2>1
<1>11. DueOf(k[p], day) = e /\ OverOf(k[p], day) = 0
  BY <1>3, <1>4 DEF DueOf, OverOf
<1>12. /\ DueOf(c, day) \in Nat /\ w + DueOf(c, day) <= e + r
       /\ OverOf(c, day) \in Nat /\ OverOf(c, day) <= r
  BY <1>3, <1>4, <1>5 DEF DueOf, OverOf, Beyond
<1>13. /\ TotalDue(j, day) \in Int /\ w + TotalDue(j, day) <= TotalDue(k, day) + r
       /\ TotalOver(j, day) \in Int /\ TotalOver(j, day) <= TotalOver(k, day) + r
  BY <1>8, <1>11, <1>12
<1>14. l.spent \in Nat /\ Held(l) \in Nat /\ l.date \in Days /\ Limit \in Nat
  BY <1>1, SumType, AmountAssumption DEF LedgerOK, Held
<1>15. Balanced(k, l, u, x)
  BY DEF InBalance
<1>16. day <= l.date
  BY <1>4
<1>17. v[l.date] + TotalDue(j, l.date) <= y[l.date] + l.spent + Held(l)
  BY <1>6, <1>8, <1>10, <1>13, <1>14, <1>15 DEF Balanced
<1>18. /\ TotalOver(j, l.date) <= y[l.date]
       /\ l.spent + Held(l) + TotalOver(j, l.date) <= Limit + y[l.date]
  BY <1>6, <1>8, <1>10, <1>13, <1>14, <1>15 DEF Balanced
<1>19. \A d \in Days : v[d] + TotalDue(j, d) <= Limit + y[d]
  BY <1>6, <1>8, <1>10, <1>13, <1>14, <1>15 DEF Balanced
<1>20. \A d \in Days : d > l.date => v[d] = 0 /\ y[d] = 0
  <2>1. \A d \in Days : d > l.date => d # day
    BY <1>14, <1>16 DEF Days
  <2> QED
    BY <1>6, <1>15, <2>1 DEF Balanced
<1> QED
  BY <1>1, <1>2, <1>6, <1>9, <1>17, <1>18, <1>19, <1>20 DEF InBalance, Balanced

\* A settlement charges what was used, or the whole estimate.
LEMMA SettleBalance ==
  ASSUME NEW k, NEW l, NEW u, NEW x, InBalance(k, l, u, x),
         NEW p \in Procs, k[p].day = l.date,
         NEW i \in DOMAIN l.held, l.held[i] = EstimateOf(k[p]), NEW a,
         \/ k[p].at = "answered" /\ a = k[p].usage
         \/ k[p].at = "failed" /\ a = l.held[i],
         NEW c, CallOK(c), c.at = "load"
  PROVE  InBalance([k EXCEPT ![p] = c], Settled(l, i, a), u, x)
<1>1. AllOK(k) /\ LedgerOK(l) /\ Balanced(k, l, u, x) /\ CallOK(k[p])
  BY DEF InBalance, AllOK
<1>2. PICK j : j = [k EXCEPT ![p] = c]
  OBVIOUS
<1>3. Differs(k, j, p, c)
  BY <1>1, <1>2, OneDiffers
<1>4. PICK e \in Nat : e = EstimateOf(k[p])
  BY <1>1, EstimateParts
<1>5. a \in Nat
  BY <1>1, <1>4, AmountAssumption DEF CallOK
<1>6. PICK m : m = Settled(l, i, a)
  OBVIOUS
<1>7. /\ LedgerOK(m) /\ m.date = l.date /\ m.spent = l.spent + a
      /\ Held(l) = Held(m) + e /\ Held(m) \in Nat
  BY <1>1, <1>4, <1>5, <1>6, SettledSum
<1>8. \A d \in Days : /\ TotalDue(j, d) = TotalDue(k, d) - DueOf(k[p], d)
                      /\ TotalOver(j, d) = TotalOver(k, d) - OverOf(k[p], d)
                      /\ {TotalDue(k, d), TotalOver(k, d), DueOf(k[p], d), OverOf(k[p], d)} \subseteq Nat
  <2> SUFFICES ASSUME NEW d \in Days
               PROVE  /\ TotalDue(j, d) = TotalDue(k, d) - DueOf(k[p], d)
                      /\ TotalOver(j, d) = TotalOver(k, d) - OverOf(k[p], d)
                      /\ {TotalDue(k, d), TotalOver(k, d), DueOf(k[p], d), OverOf(k[p], d)} \subseteq Nat
    OBVIOUS
  <2>1. TotalDue(k, d) \in Nat /\ TotalDue(j, d) = (TotalDue(k, d) - DueOf(k[p], d)) + DueOf(c, d)
    BY <1>3, DueChanges
  <2>2. TotalOver(k, d) \in Nat /\ TotalOver(j, d) = (TotalOver(k, d) - OverOf(k[p], d)) + OverOf(c, d)
    BY <1>3, OverChanges
  <2>3. DueOf(c, d) = 0 /\ OverOf(c, d) = 0
    BY NothingDue
  <2>4. DueOf(k[p], d) \in Nat /\ OverOf(k[p], d) \in Nat
    BY <1>1, AmountParts
  <2> QED
    BY <2>1, <2>2, <2>3, <2>4
<1>9. /\ DueOf(k[p], l.date) + a >= e
      /\ OverOf(k[p], l.date) + e >= a
  BY <1>4, <1>5 DEF DueOf, OverOf, Beyond
<1>10. l.spent \in Nat /\ l.date \in Days /\ Limit \in Nat
  BY <1>1, AmountAssumption DEF LedgerOK
<1>11. \A d \in Days : u[d] \in Nat /\ x[d] \in Nat
  BY DEF InBalance
<1>12. TotalOver(j, l.date) <= x[l.date]
  BY <1>1, <1>8, <1>10, <1>11 DEF Balanced
<1>13. m.spent + Held(m) + TotalOver(j, l.date) <= Limit + x[l.date]
  BY <1>1, <1>5, <1>7, <1>8, <1>9, <1>10, <1>11 DEF Balanced
<1>14. u[l.date] + TotalDue(j, l.date) <= x[l.date] + m.spent + Held(m)
  BY <1>1, <1>5, <1>7, <1>8, <1>9, <1>10, <1>11 DEF Balanced
<1>15. \A d \in Days : u[d] + TotalDue(j, d) <= Limit + x[d]
  BY <1>1, <1>8, <1>10, <1>11 DEF Balanced
<1>16. Balanced(j, m, u, x)
  BY <1>1, <1>7, <1>12, <1>13, <1>14, <1>15 DEF Balanced
<1> QED
  BY <1>2, <1>3, <1>6, <1>7, <1>16 DEF InBalance, Differs

\* A reservation that fits is due in full.
LEMMA ReserveBalance ==
  ASSUME NEW k, NEW l, NEW u, NEW x, InBalance(k, l, u, x),
         NEW p \in Procs, k[p].at = "reserve",
         NEW i, i \notin DOMAIN l.held,
         NEW c, CallOK(c), c.at = "sent", c.day = l.date, Fits(l, EstimateOf(c))
  PROVE  InBalance([k EXCEPT ![p] = c], WithReservation(l, i, EstimateOf(c)), u, x)
<1>1. AllOK(k) /\ LedgerOK(l) /\ Balanced(k, l, u, x)
  BY DEF InBalance
<1>2. PICK j : j = [k EXCEPT ![p] = c]
  OBVIOUS
<1>3. Differs(k, j, p, c)
  BY <1>1, <1>2, OneDiffers
<1>4. PICK e \in Nat : e = EstimateOf(c)
  BY EstimateParts
<1>5. PICK m : m = WithReservation(l, i, e)
  OBVIOUS
<1>6. /\ LedgerOK(m) /\ m.date = l.date /\ m.spent = l.spent
      /\ Held(m) = Held(l) + e /\ Held(l) \in Nat
  BY <1>1, <1>5, ReservedSum
<1>7. \A d \in Days : /\ TotalDue(j, d) = TotalDue(k, d) + DueOf(c, d)
                      /\ TotalOver(j, d) = TotalOver(k, d)
                      /\ {TotalDue(k, d), TotalOver(k, d)} \subseteq Nat
  <2> SUFFICES ASSUME NEW d \in Days
               PROVE  /\ TotalDue(j, d) = TotalDue(k, d) + DueOf(c, d)
                      /\ TotalOver(j, d) = TotalOver(k, d)
                      /\ {TotalDue(k, d), TotalOver(k, d)} \subseteq Nat
    OBVIOUS
  <2>1. TotalDue(k, d) \in Nat /\ TotalDue(j, d) = (TotalDue(k, d) - DueOf(k[p], d)) + DueOf(c, d)
    BY <1>3, DueChanges
  <2>2. TotalOver(k, d) \in Nat /\ TotalOver(j, d) = (TotalOver(k, d) - OverOf(k[p], d)) + OverOf(c, d)
    BY <1>3, OverChanges
  <2>3. DueOf(k[p], d) = 0 /\ OverOf(k[p], d) = 0
    BY NothingDue
  <2>4. OverOf(c, d) = 0
    BY DEF OverOf
  <2>5. DueOf(c, d) \in Nat
    BY AmountParts
  <2> QED
    BY <2>1, <2>2, <2>3, <2>4, <2>5
<1>8. \A d \in Days : DueOf(c, d) = IF d = l.date THEN e ELSE 0
  BY <1>4 DEF DueOf
<1>9. l.spent \in Nat /\ l.date \in Days /\ Limit \in Nat
  BY <1>1, AmountAssumption DEF LedgerOK
<1>10. \A d \in Days : u[d] \in Nat /\ x[d] \in Nat
  BY DEF InBalance
<1>11. l.spent + Held(l) + e <= Limit
  BY <1>4 DEF Fits
<1>12. TotalOver(j, l.date) <= x[l.date]
  BY <1>1, <1>7, <1>9 DEF Balanced
<1>13. m.spent + Held(m) + TotalOver(j, l.date) <= Limit + x[l.date]
  BY <1>6, <1>7, <1>9, <1>10, <1>11, <1>12
<1>14. u[l.date] + TotalDue(k, l.date) <= x[l.date] + l.spent + Held(l)
  BY <1>1 DEF Balanced
<1>15. TotalDue(j, l.date) = TotalDue(k, l.date) + e
  BY <1>7, <1>8, <1>9
<1>16. u[l.date] + TotalDue(j, l.date) <= x[l.date] + m.spent + Held(m)
  BY <1>6, <1>7, <1>9, <1>10, <1>14, <1>15
<1>17. ASSUME NEW d \in Days PROVE u[d] + TotalDue(j, d) <= Limit + x[d]
  <2>1. CASE d = l.date
    BY <2>1, <1>6, <1>7, <1>9, <1>10, <1>11, <1>14, <1>15
  <2>2. CASE d # l.date
    BY <2>2, <1>1, <1>7, <1>8, <1>10 DEF Balanced
  <2> QED
    BY <2>1, <2>2
<1>18. Balanced(j, m, u, x)
  BY <1>1, <1>6, <1>12, <1>13, <1>16, <1>17 DEF Balanced
<1> QED
  BY <1>2, <1>3, <1>4, <1>5, <1>6, <1>18 DEF InBalance, Differs

\* The ledger of a later day starts empty: the calls under way are of days before.
LEMMA NewDayBalance ==
  ASSUME NEW k, NEW l, NEW u, NEW x, InBalance(k, l, u, x), Backed(k, l),
         NEW day \in Days, day > l.date
  PROVE  InBalance(k, EmptyLedger(day), u, x) /\ Backed(k, EmptyLedger(day))
<1>1. AllOK(k) /\ LedgerOK(l) /\ Balanced(k, l, u, x)
  BY DEF InBalance
<1>2. PICK m : m = EmptyLedger(day)
  OBVIOUS
<1>3. DOMAIN m = {"date", "spent", "held"} /\ m.date = day /\ m.spent = 0 /\ DOMAIN m.held = {}
  BY <1>2 DEF EmptyLedger
<1>4. LedgerOK(m) /\ Held(m) = 0
  <2>1. Summable(m.held) /\ SumFunction(m.held) = 0
    BY <1>3, SumEmpty
  <2> QED
    BY <1>3, <2>1 DEF LedgerOK, Held
<1>5. \A q \in Procs : InFlight(k[q]) => k[q].day <= day /\ k[q].day # day
  <2> SUFFICES ASSUME NEW q \in Procs, InFlight(k[q]) PROVE k[q].day <= day /\ k[q].day # day
    OBVIOUS
  <2>1. k[q].day \in Int /\ l.date \in Int /\ day \in Int
    BY <1>1 DEF AllOK, Calls, LedgerOK, Days
  <2>2. k[q].day <= l.date
    BY DEF Backed
  <2> QED
    BY <2>1, <2>2
<1>6. \A q \in Procs : DueOf(k[q], day) = 0 /\ OverOf(k[q], day) = 0
  BY <1>5, NothingDue DEF InFlight
<1>7. TotalDue(k, day) = 0 /\ TotalOver(k, day) = 0
  <2>1. PICK f, g : f = [q \in Procs |-> DueOf(k[q], day)] /\ g = [q \in Procs |-> OverOf(k[q], day)]
    OBVIOUS
  <2>2. DOMAIN f = Procs /\ DOMAIN g = Procs /\ IsFiniteSet(Procs)
        /\ \A q \in Procs : f[q] = 0 /\ g[q] = 0
    BY <2>1, <1>6, ProcAssumption
  <2>3. SumFunction(f) = 0 /\ SumFunction(g) = 0
    BY <2>2, SumOfZeros
  <2> QED
    BY <2>1, <2>3 DEF TotalDue, TotalOver
<1>8. u[day] = 0 /\ x[day] = 0
  BY <1>1 DEF Balanced
<1>9. \A d \in Days : d > day => u[d] = 0 /\ x[d] = 0
  <2> SUFFICES ASSUME NEW d \in Days, d > day PROVE d > l.date
    BY <1>1 DEF Balanced
  <2>1. d \in Int /\ l.date \in Int /\ day \in Int
    BY <1>1 DEF LedgerOK, Days
  <2> QED
    BY <2>1
<1>10. Limit \in Nat
  BY AmountAssumption
<1>11. Balanced(k, m, u, x)
  <2>1. TotalOver(k, m.date) <= x[m.date] /\ u[m.date] + TotalDue(k, m.date) <= x[m.date] + m.spent + Held(m)
    BY <1>3, <1>4, <1>7, <1>8
  <2>2. m.spent + Held(m) + TotalOver(k, m.date) <= Limit + x[m.date]
    BY <1>3, <1>4, <1>7, <1>8, <1>10
  <2>3. \A d \in Days : d > m.date => u[d] = 0 /\ x[d] = 0
    BY <1>3, <1>9
  <2>4. \A d \in Days : u[d] + TotalDue(k, d) <= Limit + x[d]
    BY <1>1 DEF Balanced
  <2> QED
    BY <2>1, <2>2, <2>3, <2>4 DEF Balanced
<1>12. Backed(k, m)
  BY <1>3, <1>5 DEF Backed
<1> QED
  BY <1>1, <1>2, <1>4, <1>11, <1>12 DEF InBalance

-----------------------------------------------------------------------------
\* The same steps keep the reservations of the calls under way.
LEMMA QuietBacked ==
  ASSUME NEW k, NEW l, AllOK(k), Backed(k, l), NEW p \in Procs, NEW c, CallOK(c),
         InFlight(c) => InFlight(k[p]) /\ c.id = k[p].id /\ c.day = k[p].day /\ c.routes = k[p].routes
  PROVE  Backed([k EXCEPT ![p] = c], l)
<1>1. PICK j : j = [k EXCEPT ![p] = c]
  OBVIOUS
<1>2. Differs(k, j, p, c)
  BY <1>1, OneDiffers
<1>3. EstimateOf(c) = EstimateOf(k[p]) \/ ~InFlight(c)
  BY DEF EstimateOf
<1>4. ASSUME NEW q \in Procs, InFlight(j[q])
      PROVE  InFlight(k[q]) /\ j[q].id = k[q].id /\ j[q].day = k[q].day /\ EstimateOf(j[q]) = EstimateOf(k[q])
  BY <1>2, <1>3, <1>4 DEF Differs
<1> QED
  BY <1>1, <1>4 DEF Backed

LEMMA SettledBacked ==
  ASSUME NEW k, NEW l, AllOK(k), LedgerOK(l), Backed(k, l), NEW p \in Procs, NEW c, CallOK(c), ~InFlight(c),
         NEW i \in DOMAIN l.held, NEW a \in Nat,
         \A q \in Procs \ {p} : InFlight(k[q]) => k[q].id # i
  PROVE  Backed([k EXCEPT ![p] = c], Settled(l, i, a))
<1>1. PICK j : j = [k EXCEPT ![p] = c]
  OBVIOUS
<1>2. Differs(k, j, p, c)
  BY <1>1, OneDiffers
<1>3. PICK m : m = Settled(l, i, a)
  OBVIOUS
<1>4. m.date = l.date /\ DOMAIN m.held = DOMAIN l.held \ {i} /\ \A n \in DOMAIN m.held : m.held[n] = l.held[n]
  BY <1>3, SettledSum
<1>5. ASSUME NEW q \in Procs, InFlight(j[q])
      PROVE  InFlight(k[q]) /\ j[q] = k[q] /\ k[q].id # i
  BY <1>2, <1>5 DEF Differs
<1> QED
  BY <1>1, <1>3, <1>4, <1>5 DEF Backed

LEMMA ReservedBacked ==
  ASSUME NEW k, NEW l, AllOK(k), LedgerOK(l), Backed(k, l), NEW p \in Procs, NEW c, CallOK(c),
         NEW i, i \notin DOMAIN l.held, c.id = i, c.day = l.date, c.at = "sent",
         \A q \in Procs \ {p} : InFlight(k[q]) => k[q].id # i
  PROVE  Backed([k EXCEPT ![p] = c], WithReservation(l, i, EstimateOf(c)))
<1>1. PICK j : j = [k EXCEPT ![p] = c]
  OBVIOUS
<1>2. Differs(k, j, p, c)
  BY <1>1, OneDiffers
<1>3. PICK e \in Nat : e = EstimateOf(c)
  BY EstimateParts
<1>4. PICK m : m = WithReservation(l, i, e)
  OBVIOUS
<1>5. m.date = l.date /\ DOMAIN m.held = DOMAIN l.held \cup {i} /\ m.held[i] = e
      /\ \A n \in DOMAIN l.held : m.held[n] = l.held[n]
  BY <1>4, ReservedSum
<1>6. l.date \in Nat
  BY DEF LedgerOK, Days
<1>7. ASSUME NEW q \in Procs, InFlight(j[q])
      PROVE  /\ j[q].day <= m.date
             /\ j[q].id \in DOMAIN m.held <=> j[q].day = m.date
             /\ j[q].day = m.date => m.held[j[q].id] = EstimateOf(j[q])
  <2>1. CASE q = p
    BY <2>1, <1>2, <1>3, <1>5, <1>6 DEF Differs
  <2>2. CASE q # p
    <3>1. j[q] = k[q] /\ InFlight(k[q]) /\ k[q].id # i
      BY <2>2, <1>2, <1>7 DEF Differs
    <3> QED
      BY <3>1, <1>5 DEF Backed
  <2> QED
    BY <2>1, <2>2
<1> QED
  BY <1>1, <1>3, <1>4, <1>7 DEF Backed

-----------------------------------------------------------------------------
(* The invariant of the money.                                             *)

\* What is set aside are estimates.
Amounts == \A i \in DOMAIN ledger.held : ledger.held[i] \in Range(Estimate)

\* The reservations the calls may still make are within the bound.
EnoughIds == drawn + TotalNeed(call) <= MaxCalls

DeadKnown == orphans \subseteq 1 .. drawn

BudgetInv ==
  /\ IInv
  /\ TypeInv
  /\ InBalance(call, ledger, used, excess)
  /\ Backed(call, ledger)
  /\ Amounts
  /\ EnoughIds
  /\ DeadKnown

MoneyOK == InBalance(call, ledger, used, excess) /\ Backed(call, ledger) /\ Amounts

\* No two calls under way have the same reservation.
LEMMA InFlightIds ==
  ASSUME IInv, NEW p \in Procs, NEW q \in Procs, p # q, InFlight(call[p]), InFlight(call[q])
  PROVE  call[p].id # call[q].id
BY InFlightIsUnsettled DEF IInv, OwnReservation

LEMMA QuietMoney ==
  ASSUME BudgetInv, NEW p \in Procs, NEW c, Moved(p, c), Quiet(p, c) \/ Asked(p, c)
  PROVE  MoneyOK'
<1>1. ledger' = ledger /\ used' = used /\ excess' = excess /\ ~InFlight(c)
  BY DEF Quiet, Asked
<1>2. call' = [call EXCEPT ![p] = c] /\ CallOK(c) /\ c.at \notin {"sent", "answered"}
  BY <1>1 DEF Moved, InFlight
<1>3. InBalance(call, ledger, used, excess) /\ Backed(call, ledger) /\ AllOK(call)
  BY DEF BudgetInv, InBalance
<1>4. InBalance([call EXCEPT ![p] = c], ledger, used, excess)
  BY <1>2, <1>3, QuietBalance
<1>5. Backed([call EXCEPT ![p] = c], ledger)
  BY <1>1, <1>2, <1>3, QuietBacked
<1>6. Amounts'
  BY <1>1 DEF BudgetInv, Amounts
<1> QED
  BY <1>1, <1>2, <1>4, <1>5, <1>6 DEF MoneyOK

LEMMA RequestedMoney ==
  ASSUME BudgetInv, NEW p \in Procs, NEW c, Moved(p, c), Requested(p, c)
  PROVE  MoneyOK'
<1>1. /\ ledger' = ledger /\ call' = [call EXCEPT ![p] = c] /\ CallOK(c)
      /\ InFlight(call[p]) /\ call[p].at = "sent"
      /\ c.id = call[p].id /\ c.day = call[p].day /\ c.routes = call[p].routes
  BY DEF Moved, Requested, SameRequest
<1>2. PICK w \in Usages : Uses(p, w) /\ (c.at = "failed" \/ (c.at = "answered" /\ c.usage = w))
  BY DEF Requested
<1>3. InBalance(call, ledger, used, excess) /\ Backed(call, ledger) /\ AllOK(call)
  BY DEF BudgetInv, InBalance
<1>4. call[p].day <= ledger.date
  BY <1>1, <1>3 DEF Backed
<1>5. w \in Nat /\ EstimateOf(call[p]) \in Nat
  BY <1>1, <1>3, AmountAssumption, EstimateParts DEF AllOK
<1>6. PICK v : v = [used EXCEPT ![call[p].day] = @ + w]
  OBVIOUS
<1>7. PICK y : y = [excess EXCEPT ![call[p].day] = @ + Beyond(w, EstimateOf(call[p]))]
  OBVIOUS
<1>8. used' = v
  BY <1>2, <1>6 DEF Uses
<1>9. excess' = y
  <2>1. Beyond(w, EstimateOf(call[p])) =
          IF w - Estimate[Route(p)] > 0 THEN w - Estimate[Route(p)] ELSE 0
    BY <1>5 DEF Beyond, EstimateOf, Route
  <2> QED
    BY <1>2, <1>7, <2>1 DEF Uses
<1>10. InBalance([call EXCEPT ![p] = c], ledger, v, y)
  BY <1>1, <1>2, <1>3, <1>4, <1>5, <1>6, <1>7, RequestBalance
<1>11. Backed([call EXCEPT ![p] = c], ledger)
  BY <1>1, <1>3, QuietBacked
<1>12. Amounts'
  BY <1>1 DEF BudgetInv, Amounts
<1> QED
  BY <1>1, <1>8, <1>9, <1>10, <1>11, <1>12 DEF MoneyOK

LEMMA UnsettleableMoney ==
  ASSUME BudgetInv, NEW p \in Procs, NEW c, Moved(p, c), Unsettleable(p, c)
  PROVE  MoneyOK'
<1>1. /\ ledger' = ledger /\ used' = used /\ excess' = excess
      /\ call' = [call EXCEPT ![p] = c] /\ CallOK(c) /\ c.at \notin {"sent", "answered"}
      /\ InFlight(call[p]) /\ c.id = call[p].id /\ c.day = call[p].day /\ c.routes = call[p].routes
  BY DEF Moved, Unsettleable, SameRequest
<1>2. InBalance(call, ledger, used, excess) /\ Backed(call, ledger) /\ AllOK(call)
  BY DEF BudgetInv, InBalance
<1>3. InBalance([call EXCEPT ![p] = c], ledger, used, excess)
  BY <1>1, <1>2, QuietBalance
<1>4. Backed([call EXCEPT ![p] = c], ledger)
  BY <1>1, <1>2, QuietBacked
<1>5. Amounts'
  BY <1>1 DEF BudgetInv, Amounts
<1> QED
  BY <1>1, <1>3, <1>4, <1>5 DEF MoneyOK

\* What a settlement finds in the ledger, and charges.
LEMMA ChargedParts ==
  ASSUME BudgetInv, NEW p \in Procs, NEW c, Charged(p, c)
  PROVE  /\ ledger.date = Today(now) /\ LedgerOf(Today(now)) = ledger
         /\ call[p].day = ledger.date
         /\ call[p].id \in DOMAIN ledger.held
         /\ ledger.held[call[p].id] = EstimateOf(call[p])
         /\ \E a \in Usages \cup Range(Estimate) :
              /\ ledger' = Settled(ledger, call[p].id, a)
              /\ \/ call[p].at = "answered" /\ a = call[p].usage
                 \/ call[p].at = "failed" /\ a = ledger.held[call[p].id]
<1>1. call[p].id \in DOMAIN LedgerOf(Today(now)).held /\ InFlight(call[p])
  BY DEF Charged
<1>2. ledger.date = Today(now) /\ LedgerOf(Today(now)) = ledger
  <2>1. DOMAIN EmptyLedger(Today(now)).held = {}
    BY DEF EmptyLedger
  <2> QED
    BY <2>1, <1>1 DEF LedgerOf
<1>3. call[p].day = ledger.date /\ ledger.held[call[p].id] = EstimateOf(call[p])
  BY <1>1, <1>2 DEF BudgetInv, Backed
<1>4. CallOK(call[p])
  BY DEF BudgetInv, TypeInv, CallsOK
<1>5. call[p].at = "answered" => call[p].usage \in Usages
  BY <1>4 DEF CallOK
<1>6. ledger.held[call[p].id] \in Range(Estimate)
  BY <1>1, <1>2 DEF BudgetInv, Amounts
<1>7. \/ call[p].at = "answered" /\ ledger' = Settled(ledger, call[p].id, call[p].usage)
      \/ call[p].at = "failed" /\ ledger' = Settled(ledger, call[p].id, ledger.held[call[p].id])
  BY <1>2 DEF Charged
<1> QED
  BY <1>1, <1>2, <1>3, <1>5, <1>6, <1>7

LEMMA ChargedMoney ==
  ASSUME BudgetInv, NEW p \in Procs, NEW c, Moved(p, c), Charged(p, c)
  PROVE  MoneyOK'
<1>1. /\ used' = used /\ excess' = excess
      /\ call' = [call EXCEPT ![p] = c] /\ CallOK(c) /\ c.at = "load"
      /\ InFlight(call[p])
  BY DEF Moved, Charged
<1>2. ~InFlight(c)
  BY <1>1 DEF InFlight
<1>3. InBalance(call, ledger, used, excess) /\ Backed(call, ledger) /\ AllOK(call) /\ LedgerOK(ledger)
  BY DEF BudgetInv, InBalance
<1>4. PICK i \in DOMAIN ledger.held : i = call[p].id
  BY ChargedParts
<1>5. ledger.held[i] = EstimateOf(call[p]) /\ call[p].day = ledger.date
  BY <1>4, ChargedParts
<1>6. PICK a \in Usages \cup Range(Estimate) :
        /\ ledger' = Settled(ledger, i, a)
        /\ \/ call[p].at = "answered" /\ a = call[p].usage
           \/ call[p].at = "failed" /\ a = ledger.held[i]
  BY <1>4, ChargedParts
<1>7. a \in Nat
  BY <1>6, AmountAssumption DEF Range
<1>8. InBalance([call EXCEPT ![p] = c], Settled(ledger, i, a), used, excess)
  BY <1>1, <1>3, <1>5, <1>6, SettleBalance
<1>9. \A q \in Procs \ {p} : InFlight(call[q]) => call[q].id # i
  BY <1>1, <1>4, InFlightIds DEF BudgetInv
<1>10. Backed([call EXCEPT ![p] = c], Settled(ledger, i, a))
  BY <1>1, <1>2, <1>3, <1>7, <1>9, SettledBacked
<1>11. Amounts'
  <2>1. DOMAIN ledger'.held = DOMAIN ledger.held \ {i} /\ \A n \in DOMAIN ledger'.held : ledger'.held[n] = ledger.held[n]
    <3>1. PICK m : m = Settled(ledger, i, a)
      OBVIOUS
    <3>2. DOMAIN m.held = DOMAIN ledger.held \ {i} /\ \A n \in DOMAIN m.held : m.held[n] = ledger.held[n]
      BY <1>3, <1>7, <3>1, SettledSum
    <3> QED
      BY <1>6, <3>1, <3>2
  <2> QED
    BY <2>1 DEF BudgetInv, Amounts
<1> QED
  BY <1>1, <1>6, <1>8, <1>10, <1>11 DEF MoneyOK

\* The ledger of the day in which a reservation is made: the one that is
\* there, or an empty one.
LEMMA LedgerToday ==
  ASSUME BudgetInv
  PROVE  /\ InBalance(call, LedgerOf(Today(now)), used, excess)
         /\ Backed(call, LedgerOf(Today(now)))
         /\ LedgerOf(Today(now)).date = Today(now)
         /\ \A i \in DOMAIN LedgerOf(Today(now)).held :
              i \in 1 .. drawn /\ LedgerOf(Today(now)).held[i] \in Range(Estimate)
<1>1. CASE ledger.date = Today(now)
  BY <1>1 DEF LedgerOf, BudgetInv, Amounts, IInv, OwnReservation
<1>2. CASE ledger.date # Today(now)
  <2>1. PICK day \in Days : day = Today(now)
    BY DayParts DEF BudgetInv, TypeInv
  <2>2. ledger.date \in Int /\ day \in Int /\ ledger.date <= day
    BY <2>1 DEF BudgetInv, IInv, Dated, Days
  <2>3. day > ledger.date
    BY <1>2, <2>1, <2>2
  <2>4. InBalance(call, EmptyLedger(day), used, excess) /\ Backed(call, EmptyLedger(day))
    BY <2>3, NewDayBalance DEF BudgetInv
  <2>5. LedgerOf(Today(now)) = EmptyLedger(day)
    BY <1>2, <2>1 DEF LedgerOf
  <2>6. EmptyLedger(day).date = day /\ DOMAIN EmptyLedger(day).held = {}
    BY DEF EmptyLedger
  <2> QED
    BY <2>1, <2>4, <2>5, <2>6
<1> QED
  BY <1>1, <1>2

LEMMA ReservedMoney ==
  ASSUME BudgetInv, NEW p \in Procs, NEW c, Moved(p, c), Reserved(p, c)
  PROVE  MoneyOK'
<1>1. /\ used' = used /\ excess' = excess
      /\ call' = [call EXCEPT ![p] = c] /\ CallOK(c) /\ c.at = "sent"
      /\ call[p].at = "reserve" /\ c.routes = call[p].routes
  BY DEF Moved, Reserved
<1>2. PICK l : l = LedgerOf(Today(now))
  OBVIOUS
<1>3. PICK i : i = drawn + 1
  OBVIOUS
<1>4. /\ InBalance(call, l, used, excess) /\ Backed(call, l) /\ l.date = Today(now)
      /\ \A n \in DOMAIN l.held : n \in 1 .. drawn /\ l.held[n] \in Range(Estimate)
  BY <1>2, LedgerToday
<1>5. drawn \in Nat /\ i \notin 1 .. drawn /\ i \notin DOMAIN l.held
  BY <1>3, <1>4 DEF BudgetInv, IInv, OwnReservation
<1>6. AllOK(call) /\ LedgerOK(l)
  BY <1>4 DEF InBalance
<1>7. PICK e \in Range(Estimate) : e = EstimateOf(c)
  BY <1>1, EstimateParts
<1>8. e \in Nat /\ Estimate[Route(p)] = e
  BY <1>1, <1>7, AmountAssumption DEF EstimateOf, Route, Range
<1>9. c.id = i /\ c.day = l.date /\ Fits(l, e) /\ ledger' = WithReservation(l, i, e)
  BY <1>2, <1>3, <1>4, <1>8 DEF Reserved
<1>10. InBalance([call EXCEPT ![p] = c], WithReservation(l, i, e), used, excess)
  BY <1>1, <1>4, <1>5, <1>7, <1>9, ReserveBalance
<1>11. \A q \in Procs \ {p} : InFlight(call[q]) => call[q].id # i
  BY <1>5, InFlightIsUnsettled DEF BudgetInv, IInv, OwnReservation
<1>12. Backed([call EXCEPT ![p] = c], WithReservation(l, i, e))
  BY <1>1, <1>4, <1>5, <1>6, <1>7, <1>9, <1>11, ReservedBacked
<1>13. Amounts'
  <2>1. PICK m : m = WithReservation(l, i, e)
    OBVIOUS
  <2>2. DOMAIN m.held = DOMAIN l.held \cup {i} /\ m.held[i] = e
        /\ \A n \in DOMAIN l.held : m.held[n] = l.held[n]
    BY <1>5, <1>6, <1>8, <2>1, ReservedSum
  <2>3. \A n \in DOMAIN m.held : m.held[n] \in Range(Estimate)
    BY <1>4, <1>7, <2>2
  <2> QED
    BY <1>9, <2>1, <2>3 DEF Amounts
<1> QED
  BY <1>1, <1>9, <1>10, <1>12, <1>13 DEF MoneyOK

-----------------------------------------------------------------------------
\* The identifiers suffice: Room leaves some for every route to be tried.
LEMMA EnoughStays ==
  ASSUME BudgetInv, NEW p \in Procs, NEW c, Moved(p, c)
  PROVE  EnoughIds'
<1>1. call' = [call EXCEPT ![p] = c] /\ CallOK(c) /\ CallOK(call[p]) /\ AllOK(call)
  BY DEF Moved, BudgetInv, InBalance, AllOK
<1>2. PICK j : j = [call EXCEPT ![p] = c]
  OBVIOUS
<1>3. TotalNeed(call) \in Nat /\ TotalNeed(j) = (TotalNeed(call) - NeedOf(call[p])) + NeedOf(c)
  <2>1. Differs(call, j, p, c)
    BY <1>1, <1>2, OneDiffers
  <2> QED
    BY <2>1, NeedChanges
<1>4. NeedOf(call[p]) \in Nat /\ NeedOf(c) \in Nat /\ drawn \in Nat /\ MaxCalls \in Nat
  BY <1>1, RouteParts, BoundAssumption DEF BudgetInv, IInv, OwnReservation
<1>5. drawn + TotalNeed(call) <= MaxCalls
  BY DEF BudgetInv, EnoughIds
<1>6. drawn' + TotalNeed(j) <= MaxCalls
  <2>1. CASE Quiet(p, c)
    BY <2>1, <1>3, <1>4, <1>5 DEF Quiet
  <2>2. CASE Asked(p, c)
    <3>1. drawn' = drawn /\ NeedOf(call[p]) = 0 /\ NeedOf(c) = Len(c.routes) /\ Room(Len(c.routes))
      BY <2>2 DEF Asked, NeedOf
    <3>2. PICK f, g : f = [q \in Procs |-> NeedOf(call[q])] /\ g = [q \in Procs |-> Len(call[q].routes)]
      OBVIOUS
    <3>3. \A q \in Procs : CallOK(call[q])
      BY <1>1 DEF AllOK
    <3>4. ASSUME NEW q \in Procs PROVE f[q] \in Nat /\ g[q] \in Nat /\ f[q] <= g[q]
      <4>1. Len(call[q].routes) \in Nat /\ NeedOf(call[q]) \in Nat
        BY <3>3, RouteParts
      <4> QED
        BY <4>1, <3>2 DEF NeedOf
    <3>5. Summable(f) /\ Summable(g) /\ DOMAIN f = DOMAIN g /\ \A q \in DOMAIN f : f[q] <= g[q]
      BY <3>2, <3>4, ProcAssumption DEF Summable
    <3>6. SumFunction(f) <= SumFunction(g) /\ SumFunction(g) \in Nat
      BY <3>5, SumGrows, SumType
    <3>7. TotalNeed(call) = SumFunction(f) /\ drawn + SumFunction(g) + NeedOf(c) <= MaxCalls
      BY <3>1, <3>2 DEF TotalNeed, Room
    <3> QED
      BY <3>1, <3>6, <3>7, <1>3, <1>4
  <2>3. CASE Requested(p, c) \/ Unsettleable(p, c) \/ Charged(p, c)
    <3>1. drawn' = drawn /\ c.routes = call[p].routes
          /\ c.at \notin {"idle", "next", "reserve"} /\ call[p].at \notin {"idle", "next", "reserve"}
      BY <2>3 DEF Requested, Unsettleable, SameRequest, Charged, InFlight
    <3>2. NeedOf(c) = NeedOf(call[p])
      BY <3>1 DEF NeedOf
    <3> QED
      BY <3>1, <3>2, <1>3, <1>4, <1>5
  <2>4. CASE Reserved(p, c)
    <3>1. drawn' = drawn + 1 /\ c.routes = call[p].routes /\ c.at = "sent" /\ call[p].at = "reserve"
      BY <2>4 DEF Reserved
    <3>2. Len(c.routes) \in Nat
      BY <1>1, RouteParts
    <3>3. NeedOf(c) = NeedOf(call[p]) - 1
      BY <3>1, <3>2 DEF NeedOf
    <3> QED
      BY <3>1, <3>3, <1>3, <1>4, <1>5
  <2> QED
    BY <2>1, <2>2, <2>3, <2>4 DEF Moved
<1> QED
  BY <1>1, <1>2, <1>6 DEF EnoughIds

LEMMA MovedMoney ==
  ASSUME BudgetInv, NEW p \in Procs, NEW c, Moved(p, c)
  PROVE  MoneyOK'
BY QuietMoney, RequestedMoney, UnsettleableMoney, ChargedMoney, ReservedMoney DEF Moved

LEMMA MovedTypes ==
  ASSUME TypeInv, NEW p \in Procs, NEW c, Moved(p, c)
  PROVE  TypeInv'
<1>1. AllOK(call) /\ CallOK(c) /\ call' = [call EXCEPT ![p] = c]
  BY DEF Moved, TypeInv, CallsOK, AllOK
<1>2. PICK j : j = [call EXCEPT ![p] = c]
  OBVIOUS
<1>3. AllOK(j)
  BY <1>1, <1>2, OneDiffers DEF Differs
<1>4. CallsOK'
  BY <1>1, <1>2, <1>3 DEF CallsOK, AllOK
<1> QED
  BY <1>4 DEF Moved, TypeInv

\* Only a crash adds orphans: the reservation of its call, if it is there.
LEMMA DeadStay ==
  ASSUME BudgetInv, NEW p \in Procs, Grouped(p)
  PROVE  DeadKnown'
<1>1. orphans \subseteq 1 .. drawn /\ drawn \in Nat /\ \A i \in DOMAIN ledger.held : i \in 1 .. drawn
  BY DEF BudgetInv, DeadKnown, IInv, OwnReservation
<1>2. CASE Crash(p)
  BY <1>1, <1>2 DEF Crash, DeadKnown
<1>3. CASE Reserve(p)
  BY <1>1, <1>3 DEF Reserve, DeadKnown, history
<1>4. CASE ~Crash(p) /\ ~Reserve(p)
  <2>1. UNCHANGED <<orphans, drawn>>
    <3>1. CASE Asks(p)
      BY <3>1 DEF Asks, BeginTask, BeginCall, history
    <3>2. CASE GiveUp(p) \/ PreflightRefuses(p) \/ CapacityRefuses(p) \/ BudgetRefuses(p)
               \/ NothingToHeal(p) \/ RenameFails(p) \/ WriteHealth(p)
      BY <3>2 DEF GiveUp, PreflightRefuses, CapacityRefuses, BudgetRefuses, NothingToHeal, RenameFails,
                  WriteHealth, history
    <3>3. CASE LoadCapacity(p) \/ WriteCapacity(p) \/ RenameCapacity(p) \/ LoadHealth(p)
               \/ TruncateHealth(p) \/ CapacityAllows(p) \/ CapacityInvalid(p)
      BY <3>3 DEF LoadCapacity, WriteCapacity, RenameCapacity, LoadHealth, TruncateHealth,
                  CapacityAllows, CapacityInvalid, history
    <3>4. CASE Request(p) \/ SettleUnknown(p) \/ SettleAnswer(p) \/ SettleFailure(p)
      BY <3>4 DEF Request, Answered, RequestFails, Uses, SettleUnknown, SettleAnswer, SettleFailure, history
    <3> QED
      BY <1>4, <3>1, <3>2, <3>3, <3>4 DEF Grouped
  <2> QED
    BY <1>1, <2>1 DEF DeadKnown
<1> QED
  BY <1>2, <1>3, <1>4

LEMMA BudgetStart == Init => BudgetInv
<1> SUFFICES ASSUME Init PROVE BudgetInv
  OBVIOUS
<1>1. IInv
  BY Start
<1>2. 0 \in Days /\ 0 \in Times /\ MaxCalls \in Nat /\ MaxTime \in Nat /\ Limit \in Nat
  BY DayParts, BoundAssumption, AmountAssumption
<1>3. FilesOK
  BY <1>2, HealthParts DEF Init, FilesOK, Capacities, NoBlock
<1>4. CallOK(NoCall) /\ NoCall \in Calls
  BY NoCallOK DEF CallOK
<1>5. AllOK(call)
  BY <1>4 DEF Init, AllOK
<1>6. TypeInv
  BY <1>2, <1>3, <1>5 DEF Init, TypeInv, CallsOK, AllOK
<1>7. \A p \in Procs : call[p] = NoCall /\ ~InFlight(call[p]) /\ NeedOf(call[p]) = 0
                       /\ call[p].at = "idle"
  BY IdleMoves DEF Init, NoCall
<1>8. DOMAIN ledger = {"date", "spent", "held"} /\ ledger.date = 0 /\ ledger.spent = 0
      /\ DOMAIN ledger.held = {}
  BY DEF Init, EmptyLedger
<1>9. LedgerOK(ledger) /\ Held(ledger) = 0
  <2>1. Summable(ledger.held) /\ SumFunction(ledger.held) = 0
    BY <1>8, SumEmpty
  <2> QED
    BY <1>2, <1>8, <2>1 DEF LedgerOK, Held
<1>10. ASSUME NEW d \in Days PROVE TotalDue(call, d) = 0 /\ TotalOver(call, d) = 0
  <2>1. PICK f, g : f = [q \in Procs |-> DueOf(call[q], d)] /\ g = [q \in Procs |-> OverOf(call[q], d)]
    OBVIOUS
  <2>2. \A q \in Procs : DueOf(call[q], d) = 0 /\ OverOf(call[q], d) = 0
    BY <1>7, NothingDue
  <2>3. DOMAIN f = Procs /\ DOMAIN g = Procs /\ IsFiniteSet(Procs)
        /\ \A q \in Procs : f[q] = 0 /\ g[q] = 0
    BY <2>1, <2>2, ProcAssumption
  <2>4. SumFunction(f) = 0 /\ SumFunction(g) = 0
    BY <2>3, SumOfZeros
  <2> QED
    BY <2>1, <2>4 DEF TotalDue, TotalOver
<1>11. used \in [Days -> Nat] /\ excess \in [Days -> Nat] /\ \A d \in Days : used[d] = 0 /\ excess[d] = 0
  BY DEF Init
<1>12. Balanced(call, ledger, used, excess)
  <2>1. /\ TotalOver(call, ledger.date) <= excess[ledger.date]
        /\ ledger.spent + Held(ledger) + TotalOver(call, ledger.date) <= Limit + excess[ledger.date]
        /\ used[ledger.date] + TotalDue(call, ledger.date) <= excess[ledger.date] + ledger.spent + Held(ledger)
    BY <1>2, <1>8, <1>9, <1>10, <1>11
  <2>2. \A d \in Days : used[d] + TotalDue(call, d) <= Limit + excess[d]
    BY <1>2, <1>10, <1>11
  <2>3. \A d \in Days : d > ledger.date => used[d] = 0 /\ excess[d] = 0
    BY <1>11
  <2> QED
    BY <2>1, <2>2, <2>3 DEF Balanced
<1>13. InBalance(call, ledger, used, excess)
  BY <1>5, <1>9, <1>11, <1>12 DEF InBalance
<1>14. Backed(call, ledger) /\ Amounts
  BY <1>7, <1>8 DEF Backed, Amounts
<1>15. EnoughIds
  <2>1. PICK f : f = [q \in Procs |-> NeedOf(call[q])]
    OBVIOUS
  <2>2. SumFunction(f) = 0
    <3>1. DOMAIN f = Procs /\ IsFiniteSet(Procs) /\ \A q \in Procs : f[q] = 0
      BY <2>1, <1>7, ProcAssumption
    <3> QED
      BY <3>1, SumOfZeros
  <2> QED
    BY <1>2, <2>1, <2>2 DEF Init, EnoughIds, TotalNeed
<1>16. DeadKnown
  BY DEF Init, DeadKnown
<1> QED
  BY <1>1, <1>6, <1>13, <1>14, <1>15, <1>16 DEF BudgetInv

LEMMA BudgetStep == BudgetInv /\ [Next]_vars => BudgetInv'
<1> SUFFICES ASSUME BudgetInv, [Next]_vars PROVE BudgetInv'
  OBVIOUS
<1>1. IInv'
  BY Step DEF BudgetInv
<1>2. CASE Tick \/ UNCHANGED vars
  <2>1. UNCHANGED <<ledger, capacity, temp, health, call, drawn, used, excess, orphans>>
    BY <1>2 DEF Tick, vars, files, history
  <2>2. now' \in 0 .. MaxTime
    BY <1>2, BoundAssumption DEF Tick, vars, BudgetInv, TypeInv
  <2>3. TypeInv'
    BY <2>1, <2>2 DEF BudgetInv, TypeInv, FilesOK, CallsOK
  <2> QED
    BY <1>1, <2>1, <2>3 DEF BudgetInv, Amounts, EnoughIds, DeadKnown
<1>3. ASSUME NEW p \in Procs, Grouped(p) PROVE BudgetInv'
  <2>1. PICK c : Moved(p, c)
    BY <1>3, EveryMove DEF BudgetInv
  <2>2. TypeInv'
    BY <2>1, MovedTypes DEF BudgetInv
  <2>3. MoneyOK'
    BY <2>1, MovedMoney
  <2>4. EnoughIds'
    BY <2>1, EnoughStays
  <2>5. DeadKnown'
    BY <1>3, DeadStay
  <2> QED
    BY <1>1, <2>2, <2>3, <2>4, <2>5 DEF BudgetInv, MoneyOK
<1> QED
  BY <1>2, <1>3, NextByGroup

\* The totals are naturals.
LEMMA TotalTypes ==
  ASSUME NEW k, AllOK(k), NEW d
  PROVE  TotalDue(k, d) \in Nat /\ TotalOver(k, d) \in Nat /\ TotalNeed(k) \in Nat
<1>1. PICK f, g, h : /\ f = [q \in Procs |-> DueOf(k[q], d)]
                     /\ g = [q \in Procs |-> OverOf(k[q], d)]
                     /\ h = [q \in Procs |-> NeedOf(k[q])]
  OBVIOUS
<1>2. \A q \in Procs : f[q] \in Nat /\ g[q] \in Nat /\ h[q] \in Nat
  <2>1. \A q \in Procs : CallOK(k[q])
    BY DEF AllOK
  <2> QED
    BY <1>1, <2>1, AmountParts
<1>3. Summable(f) /\ Summable(g) /\ Summable(h)
  BY <1>1, <1>2, ProcAssumption DEF Summable
<1> QED
  BY <1>1, <1>3, SumType DEF TotalDue, TotalOver, TotalNeed

\* The invariant of the money holds of every behaviour.
THEOREM MoneyInvariant == Spec => []BudgetInv
BY BudgetStart, BudgetStep, PTL DEF Spec

\* The ledger, the files and the calls have their types, and the identifiers
\* that are drawn stay within the bound.
THEOREM CallsTypeCorrect == Spec => []TypeOK
<1>1. BudgetInv => TypeOK
  <2> SUFFICES ASSUME BudgetInv PROVE TypeOK
    OBVIOUS
  <2>1. AllOK(call) /\ LedgerOK(ledger) /\ IInv /\ TypeInv
    BY DEF BudgetInv, InBalance
  <2>2. drawn \in 0 .. MaxCalls
    <3>1. TotalNeed(call) \in Nat /\ drawn \in Nat /\ MaxCalls \in Nat
      BY <2>1, TotalTypes, BoundAssumption DEF IInv, OwnReservation
    <3> QED
      BY <3>1 DEF BudgetInv, EnoughIds
  <2>3. ledger.date \in Days /\ ledger.spent \in Nat /\ \A i \in DOMAIN ledger.held : ledger.held[i] \in Nat
    BY <2>1 DEF LedgerOK, Summable
  <2>4. DOMAIN ledger.held \subseteq 1 .. drawn /\ orphans \subseteq 1 .. drawn
    BY <2>1 DEF BudgetInv, DeadKnown, IInv, OwnReservation
  <2>5. used \in [Days -> Nat] /\ excess \in [Days -> Nat]
    BY DEF BudgetInv, InBalance
  <2>6. ASSUME NEW p \in Procs
        PROVE  /\ call[p].at \in Places /\ call[p].routes \in Seq(Routes)
               /\ call[p].day \in Days /\ call[p].window \in Times
               /\ call[p].capacity \in Capacities \cup {NoFile}
               /\ call[p].health \in Healths \cup {Torn}
    <3>1. call[p] \in Calls
      BY <2>1 DEF AllOK
    <3> QED
      BY <3>1 DEF Calls
  <2>7. ASSUME NEW p \in Procs PROVE call[p].id \in 0 .. drawn
    BY <2>1, <2>2 DEF IInv, OwnReservation, NoId
  <2> QED
    BY <2>1, <2>2, <2>3, <2>4, <2>5, <2>6, <2>7 DEF TypeOK, TypeInv, FilesOK
<1> QED
  BY <1>1, MoneyInvariant, PTL

\* What the requests of a day really used stays within the budget of that day,
\* but for what they used beyond their estimates; and so does what the ledger
\* has spent and set aside.
THEOREM DayStaysWithinLimit == Spec => []DayWithinLimit
<1>1. BudgetInv => DayWithinLimit
  <2> SUFFICES ASSUME BudgetInv PROVE DayWithinLimit
    OBVIOUS
  <2>1. /\ AllOK(call) /\ LedgerOK(ledger) /\ Balanced(call, ledger, used, excess)
        /\ used \in [Days -> Nat] /\ excess \in [Days -> Nat]
    BY DEF BudgetInv, InBalance
  <2>2. Limit \in Nat /\ ledger.date \in Days /\ ledger.spent \in Nat /\ Held(ledger) \in Nat
    BY <2>1, SumType, AmountAssumption DEF LedgerOK, Held
  <2>3. \A d \in Days : used[d] <= Limit + excess[d]
    <3> SUFFICES ASSUME NEW d \in Days PROVE used[d] <= Limit + excess[d]
      OBVIOUS
    <3>1. TotalDue(call, d) \in Nat /\ used[d] \in Nat /\ excess[d] \in Nat
      BY <2>1, TotalTypes
    <3> QED
      BY <2>1, <2>2, <3>1 DEF Balanced
  <2>4. ledger.spent + Held(ledger) <= Limit + excess[ledger.date]
    <3>1. TotalOver(call, ledger.date) \in Nat /\ excess[ledger.date] \in Nat
      BY <2>1, <2>2, TotalTypes
    <3> QED
      BY <2>1, <2>2, <3>1 DEF Balanced
  <2> QED
    BY <2>3, <2>4 DEF DayWithinLimit
<1> QED
  BY <1>1, MoneyInvariant, PTL

-----------------------------------------------------------------------------
(* The ledger implements the purse of a day.                               *)

\* The instance sums as the ledger does.
LEMMA PurseSums == \A f : Purse!SumFunction(f) = SumFunction(f)
BY DEF SumFunction, SumFunctionOnSet, FoldFunctionOnSet, MapThenFoldSet,
       Purse!SumFunction, Purse!SumFunctionOnSet, Purse!FoldFunctionOnSet, Purse!MapThenFoldSet

LEMMA PurseRests ==
  ASSUME BudgetInv, ledger' = ledger, now' = now
  PROVE  UNCHANGED Purse!vars
<1>1. LedgerOf(Today(now))' = LedgerOf(Today(now))
  BY DEF LedgerOf, EmptyLedger, Today
<1> QED
  BY <1>1 DEF Purse!vars

LEMMA PurseTicks ==
  ASSUME BudgetInv, Tick
  PROVE  Purse!NewDay \/ UNCHANGED Purse!vars
<1>1. ledger' = ledger /\ now' = now + 1
  BY DEF Tick
<1>2. CASE Today(now)' = Today(now)
  <2>1. LedgerOf(Today(now))' = LedgerOf(Today(now))
    BY <1>1, <1>2 DEF LedgerOf, EmptyLedger
  <2> QED
    BY <2>1 DEF Purse!vars
<1>3. CASE Today(now)' # Today(now)
  <2>1. now \in Nat /\ ledger.date \in Int /\ ledger.date <= Today(now)
    BY DEF BudgetInv, IInv, Dated
  <2>2. Today(now) \in Nat /\ Today(now + 1) \in Nat /\ Today(now) <= Today(now + 1)
    BY <2>1, DayGoesOn
  <2>3. Today(now)' = Today(now + 1)
    BY <1>1 DEF Today
  <2>4. ledger'.date # Today(now)'
    BY <1>1, <1>3, <2>1, <2>2, <2>3
  <2>5. LedgerOf(Today(now))' = EmptyLedger(Today(now))'
    BY <2>4 DEF LedgerOf
  <2>6. EmptyLedger(Today(now))'.spent = 0 /\ EmptyLedger(Today(now))'.held = <<>>
    BY DEF EmptyLedger
  <2> QED
    BY <2>5, <2>6 DEF Purse!NewDay
<1> QED
  BY <1>2, <1>3

LEMMA PurseSettles ==
  ASSUME BudgetInv, NEW p \in Procs, NEW c, Moved(p, c), Charged(p, c)
  PROVE  Purse!Next
<1>1. LedgerOK(ledger)
  BY DEF BudgetInv, InBalance
<1>2. PICK i \in DOMAIN ledger.held : i = call[p].id
  BY ChargedParts
<1>3. PICK a \in Usages \cup Range(Estimate) : ledger' = Settled(ledger, i, a)
  BY <1>2, ChargedParts
<1>4. ledger.date = Today(now) /\ LedgerOf(Today(now)) = ledger
  BY ChargedParts
<1>5. PICK h : h = Without(ledger.held, i)
  OBVIOUS
<1>6. PICK m : m = [ledger EXCEPT !.held = h]
  OBVIOUS
<1>7. ledger' = [m EXCEPT !.spent = ledger.spent + a]
  BY <1>1, <1>3, <1>5, <1>6 DEF Settled, LedgerOK
<1>8. DOMAIN m = DOMAIN ledger /\ m.held = h /\ m.date = ledger.date
  BY <1>1, <1>6 DEF LedgerOK
<1>9. ledger'.held = h /\ ledger'.spent = ledger.spent + a /\ ledger'.date = ledger.date
  BY <1>1, <1>7, <1>8 DEF LedgerOK
<1>10. Today(now)' = Today(now)
  BY DEF Moved, Today
<1>11. LedgerOf(Today(now))' = ledger'
  BY <1>4, <1>9, <1>10 DEF LedgerOf
<1>12. Purse!Settle(i, a)
  BY <1>4, <1>5, <1>9, <1>11 DEF Purse!Settle, Purse!Without, Without, Purse!Restrict, Restrict
<1>13. i \in Ids
  <2>1. EnoughIds /\ TotalNeed(call) \in Nat
    BY TotalTypes DEF BudgetInv, InBalance
  <2>2. i \in 1 .. drawn /\ drawn \in Nat /\ MaxCalls \in Nat
    BY BoundAssumption DEF BudgetInv, IInv, OwnReservation
  <2> QED
    BY <2>1, <2>2 DEF EnoughIds, Ids
<1> QED
  BY <1>12, <1>13 DEF Purse!Next

LEMMA PurseSetsAside ==
  ASSUME BudgetInv, BudgetInv', NEW p \in Procs, NEW c, Moved(p, c), Reserved(p, c)
  PROVE  Purse!Next
<1>1. PICK l : l = LedgerOf(Today(now))
  OBVIOUS
<1>2. PICK i : i = drawn + 1
  OBVIOUS
<1>3. /\ l.date = Today(now) /\ LedgerOK(l)
      /\ \A n \in DOMAIN l.held : n \in 1 .. drawn
  BY <1>1, LedgerToday DEF InBalance
<1>4. CallOK(call[p]) /\ call[p].at = "reserve"
  BY DEF BudgetInv, TypeInv, CallsOK, Reserved
<1>5. PICK e \in Range(Estimate) : e = Estimate[Route(p)]
  BY <1>4, EstimateParts DEF EstimateOf, Route
<1>6. Fits(l, e) /\ ledger' = WithReservation(l, i, e)
  BY <1>1, <1>2, <1>5 DEF Reserved
<1>7. PICK h : h = [j \in DOMAIN l.held \cup {i} |-> IF j = i THEN e ELSE l.held[j]]
  OBVIOUS
<1>8. ledger' = [l EXCEPT !.held = h]
  BY <1>6, <1>7 DEF WithReservation
<1>9. ledger'.held = h /\ ledger'.spent = l.spent /\ ledger'.date = l.date
  BY <1>3, <1>8 DEF LedgerOK
<1>10. Today(now)' = Today(now)
  BY DEF Moved, Today
<1>11. LedgerOf(Today(now))' = ledger'
  BY <1>3, <1>9, <1>10 DEF LedgerOf
<1>12. drawn \in Nat /\ i \notin DOMAIN l.held
  BY <1>2, <1>3 DEF BudgetInv, IInv, OwnReservation
<1>13. l.spent + Purse!SumFunction(l.held) + e <= Limit
  BY <1>6, PurseSums DEF Fits, Held
<1>14. Purse!SetAside(i, e)
  BY <1>1, <1>7, <1>9, <1>11, <1>12, <1>13 DEF Purse!SetAside
<1>15. i \in Ids
  <2>1. drawn' = drawn + 1 /\ drawn' + TotalNeed(call') <= MaxCalls
    BY DEF BudgetInv, EnoughIds, Reserved
  <2>2. TotalNeed(call') \in Nat /\ MaxCalls \in Nat
    <3>1. AllOK(call')
      BY DEF BudgetInv, InBalance
    <3>2. PICK k : k = call'
      OBVIOUS
    <3> QED
      BY <3>1, <3>2, TotalTypes, BoundAssumption
  <2> QED
    BY <1>2, <1>12, <2>1, <2>2 DEF Ids
<1> QED
  BY <1>14, <1>15 DEF Purse!Next

\* The budget ledger, read and rewritten by all processes and started anew each
\* day, implements a purse in which money is set aside only when all of it fits
\* and is settled at most once.
THEOREM PurseImplemented == Spec => ImplementsDailyPurse
<1>1. Init => Purse!Init
  <2> SUFFICES ASSUME Init PROVE Purse!Init
    OBVIOUS
  <2>1. ledger = EmptyLedger(0) /\ LedgerOf(Today(now)).spent = 0 /\ LedgerOf(Today(now)).held = <<>>
    BY DEF Init, LedgerOf, EmptyLedger
  <2> QED
    BY <2>1 DEF Purse!Init
<1>2. BudgetInv /\ BudgetInv' /\ [Next]_vars => [Purse!Next]_(Purse!vars)
  <2> SUFFICES ASSUME BudgetInv, BudgetInv', [Next]_vars PROVE Purse!Next \/ UNCHANGED Purse!vars
    OBVIOUS
  <2>1. CASE UNCHANGED vars
    BY <2>1, PurseRests DEF vars
  <2>2. CASE Tick
    BY <2>2, PurseTicks DEF Purse!Next
  <2>3. ASSUME NEW p \in Procs, Grouped(p) PROVE Purse!Next \/ UNCHANGED Purse!vars
    <3>1. PICK c : Moved(p, c)
      BY <2>3, EveryMove DEF BudgetInv
    <3>2. CASE Charged(p, c)
      BY <3>1, <3>2, PurseSettles
    <3>3. CASE Reserved(p, c)
      BY <3>1, <3>3, PurseSetsAside
    <3>4. CASE Quiet(p, c) \/ Asked(p, c) \/ Requested(p, c) \/ Unsettleable(p, c)
      <4>1. ledger' = ledger /\ now' = now
        BY <3>1, <3>4 DEF Moved, Quiet, Asked, Requested, Unsettleable, SameRequest
      <4> QED
        BY <4>1, PurseRests
    <3> QED
      BY <3>1, <3>2, <3>3, <3>4 DEF Moved
  <2> QED
    BY <2>1, <2>2, <2>3, NextByGroup
<1> QED
  BY <1>1, <1>2, MoneyInvariant, PTL DEF Spec, ImplementsDailyPurse
=============================================================================
