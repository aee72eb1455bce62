-------------------------- MODULE SettlementProofs --------------------------
(***************************************************************************)
(* What holds of Settlement for every contract, list of payees, set of     *)
(* holders and window: the outcome is reversed once, the journal tells of  *)
(* that reversal, the money moved is what the outcome asks for, and the    *)
(* books close.                                                            *)
(***************************************************************************)
EXTENDS Settlement, Induction, FiniteSetTheorems

Undecided == {"Unknown", "Disputed", "Timeout"}

\* The lists, and the ids of the money ledger.
ListsOK ==
    /\ IsList(money) /\ next_money_id = Len(money) + 1
    /\ IsList(chain) /\ IsList(journal) /\ IsList(history)

\* Nobody has a copy before the settlement; a copy in its window is the one the
\* adapter gave, and a settled outcome is a success or was one.
CopiesOK ==
    /\ held = [h \in Holders |-> held[h]]
    /\ settled = NotSettled => \A h \in Holders : held[h] = NoClass
    /\ settled # NotSettled => current \in {"Success", "Reversed"}
    /\ \A h \in Holders : Finality!InWindow(held[h]) =>
          settled.adapter = "Stripe" /\ held[h] = Finality!WithinReversalWindow(settled.at + Window)

ReversedCopies == {h \in Holders : held[h].class = "Reversed"}

\* What the entry of this settlement's reversal says.
Told(e) ==
    /\ e.settlement_id = This
    /\ history[Len(history)] = [from |-> e.original_outcome, to |-> "Reversed"]
    /\ e.reversal_verity_id \in DOMAIN chain
    /\ chain[e.reversal_verity_id].content_hash.outcome = "Reversed"
    /\ IF settled = NotSettled THEN ReversedCopies = {}
       ELSE /\ settled.adapter = "Stripe"
            /\ e.reversed_at < settled.at + Window
            /\ ReversedCopies # {}
            /\ \A h \in ReversedCopies :
                  held[h] = Finality!Reversed(e.reversed_at, e.reason,
                                              Finality!WithinReversalWindow(settled.at + Window))

ReversalOK ==
    IF current = "Reversed"
    THEN \E i \in DOMAIN journal : Journal!EntriesForSettlement(This) = {i} /\ Told(journal[i])
    ELSE Journal!EntriesForSettlement(This) = {} /\ ReversedCopies = {}

\* Who has been paid by now: nobody before a SUCCESS and after a FAIL, then the
\* first payees, one by one, and no others after a reversal.
PayoutsOK ==
    /\ current \in Undecided \cup {"Fail"} => Credited = {}
    /\ current \in {"Success", "Fail"} => Len(money) >= 1
    /\ current = "Success" => Credited = 1..(Len(money) - 1)
    /\ current = "Reversed" =>
          \E k \in 0..Len(Payees) : Credited = 1..k /\ Len(money) >= k + 1

IInv ==
    /\ current \in Undecided \cup {"Success", "Fail", "Reversed"}
    /\ ListsOK
    /\ CopiesOK
    /\ ReversalOK
    /\ PayoutsOK
    /\ MoneyFollowsOutcome

\* A copy nobody gave away is in no window, not pending and not reversed.
LEMMA NoClassIsNone ==
    /\ ~Finality!InWindow(NoClass) /\ ~Finality!ConfirmOk(NoClass) /\ NoClass.class # "Reversed"
  BY DEF NoClass, Finality!InWindow, Finality!ConfirmOk
----------------------------------------------------------------------------
(***************************************************************************)
(* The movements due, place by place.  A payout is taken back in the place *)
(* that mirrors its own, so what is due of a reversal begins with all that *)
(* was moved before it.                                                    *)
(***************************************************************************)
PaidTo(i) == Movement(Payees[i], "Credit", Parts[i])
TakenFrom(i) == Movement(Payees[i], "Debit", Parts[i])

\* What an outcome asks for when k payouts were made.
DueFor(outcome, k) ==
    CASE outcome = "Success" -> <<Hold>> \o PaidOut(Len(Payees))
      [] outcome = "Fail" -> <<Hold, Returned>>
      [] outcome = "Reversed" -> <<Hold>> \o PaidOut(k) \o TakenBack(k) \o <<Returned>>
      [] OTHER -> <<Hold>>

\* Due asks for that, now and in the next state.
LEMMA DueIs ==
    ASSUME UNCHANGED contract
    PROVE  Due = DueFor(current, PayoutsMade) /\ Due' = DueFor(current', PayoutsMade')
  BY DEF Due, DueFor, Hold, PaidOut, TakenBack, Returned, Parts

\* One movement is a list, and so are payouts and what is taken back.
LEMMA MovementLists ==
    /\ \A x : IsList(<<x>>) /\ Len(<<x>>) = 1 /\ <<x>>[1] = x
    /\ \A x, y : IsList(<<x, y>>) /\ Len(<<x, y>>) = 2 /\ <<x, y>>[1] = x /\ <<x, y>>[2] = y
    /\ \A k \in Nat :
          /\ IsList(PaidOut(k)) /\ Len(PaidOut(k)) = k
          /\ IsList(TakenBack(k)) /\ Len(TakenBack(k)) = k
          /\ \A i \in 1..k : PaidOut(k)[i] = PaidTo(i) /\ TakenBack(k)[i] = TakenFrom(k + 1 - i)
  <1>1. \A x : IsList(<<x>>) /\ Len(<<x>>) = 1 /\ <<x>>[1] = x
    BY DEF IsList
  <1>2. \A x, y : IsList(<<x, y>>) /\ Len(<<x, y>>) = 2 /\ <<x, y>>[1] = x /\ <<x, y>>[2] = y
    BY DEF IsList
  <1>3. ASSUME NEW k \in Nat
        PROVE  /\ IsList(PaidOut(k)) /\ Len(PaidOut(k)) = k
               /\ IsList(TakenBack(k)) /\ Len(TakenBack(k)) = k
               /\ \A i \in 1..k : PaidOut(k)[i] = PaidTo(i) /\ TakenBack(k)[i] = TakenFrom(k + 1 - i)
    <2>1. PaidOut(k) = [i \in 1..k |-> PaidTo(i)] /\ TakenBack(k) = [i \in 1..k |-> TakenFrom(k + 1 - i)]
      BY DEF PaidOut, TakenBack, PaidTo, TakenFrom
    <2>2. \A i \in 1..k : PaidOut(k)[i] = PaidTo(i) /\ TakenBack(k)[i] = TakenFrom(k + 1 - i)
      BY <2>1
    <2>3. PaidOut(k) = [i \in 1..k |-> PaidOut(k)[i]] /\ TakenBack(k) = [i \in 1..k |-> TakenBack(k)[i]]
      BY <2>1, <2>2
    <2>. QED BY <2>2, <2>3, ListOf
  <1>. QED BY <1>1, <1>2, <1>3

\* Each movement an outcome asks for, by its place.
DuePlaces(due, outcome, k) ==
    /\ IsList(due) /\ Len(due) \in Nat /\ Len(due) >= 1 /\ due[1] = Hold
    /\ outcome \notin {"Success", "Fail", "Reversed"} => Len(due) = 1
    /\ outcome = "Fail" => Len(due) = 2 /\ due[2] = Returned
    /\ outcome = "Success" =>
          /\ Len(due) = Len(Payees) + 1
          /\ \A i \in 1..Len(Payees) : due[1 + i] = PaidTo(i)
    /\ outcome = "Reversed" =>
          /\ Len(due) = 2 * k + 2
          /\ \A i \in 1..k : due[1 + i] = PaidTo(i) /\ due[k + 1 + i] = TakenFrom(k + 1 - i)
          /\ due[2 * k + 2] = Returned

\* The hold comes first, then the payouts, then their mirror image.
LEMMA DueShape == ASSUME NEW outcome, NEW k \in Nat PROVE DuePlaces(DueFor(outcome, k), outcome, k)
  <1>1. IsList(<<Hold>>) /\ Len(<<Hold>>) = 1 /\ <<Hold>>[1] = Hold
    BY MovementLists
  <1>2. ASSUME NEW m \in Nat
        PROVE  /\ IsList(<<Hold>> \o PaidOut(m)) /\ Len(<<Hold>> \o PaidOut(m)) = m + 1
               /\ (<<Hold>> \o PaidOut(m))[1] = Hold
               /\ \A i \in 1..m : (<<Hold>> \o PaidOut(m))[1 + i] = PaidTo(i)
    <2>. DEFINE a == <<Hold>> \o PaidOut(m)
    <2>1. /\ IsList(a) /\ Len(a) = 1 + Len(PaidOut(m))
          /\ \A i \in 1..1 : a[i] = <<Hold>>[i]
          /\ \A i \in 1..Len(PaidOut(m)) : a[1 + i] = PaidOut(m)[i]
      <3>1. IsList(PaidOut(m))
        BY MovementLists
      <3>2. /\ IsList(a) /\ Len(a) = Len(<<Hold>>) + Len(PaidOut(m))
            /\ \A i \in 1..Len(<<Hold>>) : a[i] = <<Hold>>[i]
            /\ \A i \in 1..Len(PaidOut(m)) : a[Len(<<Hold>>) + i] = PaidOut(m)[i]
        BY ONLY <1>1, <3>1, ConcatLists DEF a
      <3>. HIDE DEF a
      <3>. QED BY ONLY <1>1, <3>2
    <2>2. Len(PaidOut(m)) = m /\ \A i \in 1..m : PaidOut(m)[i] = PaidTo(i)
      BY MovementLists
    <2>. HIDE DEF a
    <2>3. IsList(a) /\ Len(a) = m + 1 /\ a[1] = Hold /\ \A i \in 1..m : a[1 + i] = PaidTo(i)
      BY <1>1, <2>1, <2>2
    <2>. QED BY <2>3 DEF a
  <1>. DEFINE a == <<Hold>> \o PaidOut(k)
              b == a \o TakenBack(k)
              c == b \o <<Returned>>
  <1>3. IsList(a) /\ Len(a) = k + 1 /\ a[1] = Hold /\ \A i \in 1..k : a[1 + i] = PaidTo(i)
    BY <1>2
  <1>4. /\ IsList(b) /\ Len(b) = 2 * k + 1
        /\ \A i \in 1..(k + 1) : b[i] = a[i]
        /\ \A i \in 1..k : b[k + 1 + i] = TakenFrom(k + 1 - i)
    <2>. DEFINE t == TakenBack(k)
    <2>1. IsList(t) /\ Len(t) = k /\ \A i \in 1..k : t[i] = TakenFrom(k + 1 - i)
      BY MovementLists
    <2>. HIDE DEF a, t
    <2>0. IsList(a) /\ IsList(t)
      BY <1>3, <2>1
    <2>2. /\ IsList(a \o t) /\ Len(a \o t) = Len(a) + Len(t)
          /\ \A i \in 1..Len(a) : (a \o t)[i] = a[i]
          /\ \A i \in 1..Len(t) : (a \o t)[Len(a) + i] = t[i]
      BY ONLY <2>0, ConcatLists
    <2>3. b = a \o t
      BY DEF t
    <2>. HIDE DEF b
    <2>. QED BY <1>3, <2>1, <2>2, <2>3
  <1>5. /\ IsList(c) /\ Len(c) = 2 * k + 2
        /\ \A i \in 1..(2 * k + 1) : c[i] = b[i]
        /\ c[2 * k + 2] = Returned
    <2>. HIDE DEF b
    <2>1. IsList(<<Returned>>) /\ Len(<<Returned>>) = 1 /\ <<Returned>>[1] = Returned
      BY MovementLists
    <2>2. /\ IsList(c) /\ Len(c) = Len(b) + Len(<<Returned>>)
          /\ \A i \in 1..Len(b) : c[i] = b[i]
          /\ \A i \in 1..Len(<<Returned>>) : c[Len(b) + i] = <<Returned>>[i]
      BY ONLY <1>4, <2>1, ConcatLists DEF c
    <2>. HIDE DEF c
    <2>3. c[2 * k + 2] = Returned
      <3>1. 1 \in 1..1 /\ (2 * k + 1) + 1 = 2 * k + 2
        OBVIOUS
      <3>. QED BY <1>4, <2>1, <2>2, <3>1
    <2>. QED BY <1>4, <2>1, <2>2, <2>3
  <1>6. c[1] = Hold /\ \A i \in 1..k : c[1 + i] = PaidTo(i) /\ c[k + 1 + i] = TakenFrom(k + 1 - i)
    <2>. HIDE DEF a, b, c
    <2>1. \A i \in 1..k : /\ 1 + i \in 1..(k + 1) /\ 1 + i \in 1..(2 * k + 1)
                          /\ k + 1 + i \in 1..(2 * k + 1)
      OBVIOUS
    <2>2. 1 \in 1..(k + 1) /\ 1 \in 1..(2 * k + 1)
      OBVIOUS
    <2>. QED BY <1>3, <1>4, <1>5, <2>1, <2>2
  <1>7. /\ outcome = "Success" => DueFor(outcome, k) = <<Hold>> \o PaidOut(Len(Payees))
        /\ outcome = "Fail" => DueFor(outcome, k) = <<Hold, Returned>>
        /\ outcome = "Reversed" => DueFor(outcome, k) = c
        /\ outcome \notin {"Success", "Fail", "Reversed"} => DueFor(outcome, k) = <<Hold>>
    BY DEF DueFor
  <1>. HIDE DEF c, DueFor
  <1>. DEFINE due == DueFor(outcome, k)
  <1>8. CASE outcome = "Success"
    <2>. DEFINE p == <<Hold>> \o PaidOut(Len(Payees))
    <2>1. Len(Payees) \in Nat
      BY SettlementAssumption
    <2>2. IsList(p) /\ Len(p) = Len(Payees) + 1 /\ p[1] = Hold /\ \A i \in 1..Len(Payees) : p[1 + i] = PaidTo(i)
      BY <1>2, <2>1
    <2>3. due = p
      BY <1>7, <1>8
    <2>. HIDE DEF p, due
    <2>4. DuePlaces(due, outcome, k)
      BY <1>8, <2>1, <2>2, <2>3 DEF DuePlaces
    <2>. QED BY <2>4 DEF due
  <1>9. CASE outcome = "Fail"
    <2>. DEFINE p == <<Hold, Returned>>
    <2>1. IsList(p) /\ Len(p) = 2 /\ p[1] = Hold /\ p[2] = Returned
      BY MovementLists
    <2>2. due = p
      BY <1>7, <1>9
    <2>. HIDE DEF p, due
    <2>3. DuePlaces(due, outcome, k)
      BY <1>9, <2>1, <2>2 DEF DuePlaces
    <2>. QED BY <2>3 DEF due
  <1>10. CASE outcome = "Reversed"
    <2>1. due = c
      BY <1>7, <1>10
    <2>. HIDE DEF due
    <2>2. Len(due) = 2 * k + 2 /\ Len(due) \in Nat /\ Len(due) >= 1
      BY <1>5, <2>1
    <2>3. DuePlaces(due, outcome, k)
      BY <1>5, <1>6, <1>10, <2>1, <2>2 DEF DuePlaces
    <2>. QED BY <2>3 DEF due
  <1>11. CASE outcome \notin {"Success", "Fail", "Reversed"}
    <2>. DEFINE p == <<Hold>>
    <2>1. IsList(p) /\ Len(p) = 1 /\ p[1] = Hold /\ due = p
      BY <1>1, <1>7, <1>11
    <2>. HIDE DEF p, due
    <2>2. DuePlaces(due, outcome, k)
      BY <1>11, <2>1 DEF DuePlaces
    <2>. QED BY <2>2 DEF due
  <1>. QED BY <1>8, <1>9, <1>10, <1>11

\* The first k payees are k.
LEMMA PayoutsCounted == ASSUME NEW k \in Nat, Credited = 1..k PROVE PayoutsMade = k
  <1>1. Cardinality(1..k) = k
    BY FS_Interval
  <1>. QED BY <1>1 DEF PayoutsMade

\* How many payouts there are, and with it what is due.
LEMMA DueNow ==
    ASSUME IInv
    PROVE  \E k \in 0..Len(Payees) :
              /\ DuePlaces(Due, current, k)
              /\ current = "Reversed" => PayoutsMade = k /\ Credited = 1..k /\ Len(money) >= k + 1
  <1>1. Len(Payees) \in Nat
    BY SettlementAssumption
  <1>2. CASE current = "Reversed"
    <2>1. PICK k \in 0..Len(Payees) : Credited = 1..k /\ Len(money) >= k + 1
      BY <1>2 DEF IInv, PayoutsOK
    <2>2. k \in Nat /\ PayoutsMade = k
      BY <1>1, <2>1, PayoutsCounted
    <2>3. Due = DueFor(current, k)
      BY <2>2 DEF Due, DueFor
    <2>. QED BY <2>1, <2>2, <2>3, DueShape
  <1>3. CASE current # "Reversed"
    <2>1. Due = DueFor(current, 0)
      BY <1>3 DEF Due, DueFor
    <2>. QED BY <1>1, <1>3, <2>1, DueShape
  <1>. QED BY <1>2, <1>3

\* Movements made stay the first of those due when these are due still.
LEMMA MoneyStays ==
    ASSUME IInv, UNCHANGED money,
           Len(money) <= Len(Due'), \A i \in 1..Len(money) : Due'[i] = Due[i]
    PROVE  MoneyFollowsOutcome'
  <1>1. \A i \in DOMAIN money : money[i] = [Due[i] EXCEPT !.entry_id = i]
    BY DEF IInv, MoneyFollowsOutcome
  <1>2. DOMAIN money = 1..Len(money)
    BY ListDomain DEF IInv, ListsOK
  <1>3. \A i \in DOMAIN money : money[i] = [(Due')[i] EXCEPT !.entry_id = i]
    BY <1>1, <1>2
  <1>. QED BY <1>3 DEF MoneyFollowsOutcome

\* A step that neither decides nor moves leaves what is due and who is paid.
LEMMA MoneyQuiet ==
    ASSUME IInv, UNCHANGED <<contract, money, current>>
    PROVE  PayoutsOK' /\ MoneyFollowsOutcome'
  <1>1. Credited' = Credited
    BY DEF Credited
  <1>2. PayoutsOK'
    BY <1>1 DEF IInv, PayoutsOK
  <1>3. Due' = Due
    BY <1>1, DueIs DEF PayoutsMade
  <1>. QED BY <1>2, <1>3 DEF IInv, MoneyFollowsOutcome

\* A verdict finds the hold and no more, which every outcome begins with.
LEMMA MoneyDecided ==
    ASSUME IInv, UNCHANGED <<contract, money>>, money # <<>>,
           current \in Undecided, current' \in Undecided \cup {"Success", "Fail"}
    PROVE  PayoutsOK' /\ MoneyFollowsOutcome'
  <1>1. PICK k \in 0..Len(Payees) : DuePlaces(Due, current, k)
    BY DueNow
  <1>2. Len(Due) = 1 /\ Due[1] = Hold
    BY <1>1 DEF DuePlaces, Undecided
  <1>3. Len(money) = 1
    <2>1. IsList(money) /\ Len(money) \in Nat /\ Len(money) <= Len(Due)
      BY ListDomain DEF IInv, ListsOK, MoneyFollowsOutcome
    <2>2. Len(money) # 0
      BY <2>1 DEF IsList
    <2>. QED BY <1>2, <2>1, <2>2
  <1>4. Credited' = Credited /\ Credited = {}
    BY DEF Credited, IInv, PayoutsOK
  <1>5. PayoutsOK'
    BY <1>3, <1>4 DEF PayoutsOK, Undecided
  <1>6. Due' = DueFor(current', 0)
    BY DueIs DEF DueFor, Undecided
  <1>7. DuePlaces(Due', current', 0)
    BY <1>6, DueShape
  <1>8. Len(money) <= Len(Due') /\ \A i \in 1..Len(money) : Due'[i] = Due[i]
    <2>1. Len(Due') \in Nat /\ Len(Due') >= 1 /\ Due'[1] = Hold
      <3>1. Hold' = Hold
        BY DEF Hold
      <3>. QED BY <1>7, <3>1 DEF DuePlaces
    <2>. QED BY <1>2, <1>3, <2>1
  <1>. QED BY <1>5, <1>8, MoneyStays

\* A reversal finds the hold and the payouts there are, and begins with them; of
\* a FAIL it finds the hold and perhaps its return, which is all it asks for.
LEMMA MoneyReversed ==
    ASSUME IInv, UNCHANGED <<contract, money>>, current \in {"Success", "Fail"}, current' = "Reversed"
    PROVE  PayoutsOK' /\ MoneyFollowsOutcome'
  <1>. DEFINE n == Len(money)
  <1>1. /\ Len(Payees) \in Nat /\ n \in Nat /\ n >= 1
    BY SettlementAssumption, ListDomain DEF IInv, ListsOK, PayoutsOK
  <1>2. DuePlaces(Due, current, 0) /\ n <= Len(Due)
    <2>1. Due = DueFor(current, 0)
      BY DEF Due, DueFor
    <2>. QED BY <2>1, DueShape DEF IInv, MoneyFollowsOutcome
  <1>3. PICK k \in 0..Len(Payees) :
          /\ Credited = 1..k /\ n >= k + 1
          /\ current = "Success" => n = k + 1
          /\ current = "Fail" => k = 0 /\ n <= 2
    <2>1. CASE current = "Success"
      <3>1. n - 1 \in 0..Len(Payees) /\ Credited = 1..(n - 1)
        BY <1>1, <1>2, <2>1 DEF IInv, PayoutsOK, DuePlaces
      <3>. QED BY <1>1, <2>1, <3>1
    <2>2. CASE current = "Fail"
      <3>1. Len(Due) = 2
        BY <1>2, <2>2 DEF DuePlaces
      <3>2. Credited = {}
        BY <2>2 DEF IInv, PayoutsOK
      <3>3. 1..0 = {} /\ 0 \in 0..Len(Payees)
        BY <1>1
      <3>. QED BY <1>1, <1>2, <2>2, <3>1, <3>2, <3>3
    <2>. QED BY <2>1, <2>2
  <1>4. Credited' = Credited
    BY DEF Credited
  <1>5. PayoutsOK'
    BY <1>3, <1>4 DEF PayoutsOK, Undecided
  <1>6. k \in Nat /\ PayoutsMade' = k
    <2>1. k \in Nat /\ PayoutsMade = k
      BY <1>1, <1>3, PayoutsCounted
    <2>. QED BY <1>4, <2>1 DEF PayoutsMade
  <1>7. DuePlaces(Due', "Reversed", k)
    BY <1>6, DueIs, DueShape
  <1>8. /\ Len(Due') = 2 * k + 2 /\ Due'[1] = Due[1]
        /\ current = "Success" => \A i \in 1..k : Due'[1 + i] = Due[1 + i]
        /\ current = "Fail" => Due'[2] = Due[2]
    <2>1. \A i \in 1..k : i \in 1..Len(Payees)
      BY <1>1
    <2>2. k = 0 => 2 * k + 2 = 2
      OBVIOUS
    <2>. QED BY <1>2, <1>3, <1>7, <2>1, <2>2 DEF DuePlaces
  <1>9. n <= Len(Due') /\ \A i \in 1..n : Due'[i] = Due[i]
    <2>1. n <= Len(Due')
      BY <1>1, <1>3, <1>6, <1>8
    <2>2. ASSUME NEW i \in 1..n PROVE Due'[i] = Due[i]
      <3>1. CASE i = 1
        BY <1>8, <3>1
      <3>2. CASE i # 1 /\ current = "Success"
        <4>1. i - 1 \in 1..k /\ 1 + (i - 1) = i
          BY <1>1, <1>3, <1>6, <3>2
        <4>. QED BY <1>8, <3>2, <4>1
      <3>3. CASE i # 1 /\ current = "Fail"
        <4>1. i = 2
          BY <1>1, <1>3, <3>3
        <4>. QED BY <1>8, <3>3, <4>1
      <3>. QED BY <3>1, <3>2, <3>3
    <2>. QED BY <2>1, <2>2
  <1>. QED BY <1>5, <1>9, MoneyStays
----------------------------------------------------------------------------
\* What the journal tells stays true while no copy is reversed, or put back, and
\* the chain only grows.
LEMMA ReversalKept ==
    ASSUME ReversalOK, UNCHANGED journal,
           UNCHANGED <<settled, history>> \/ current # "Reversed",
           current' = "Reversed" <=> current = "Reversed",
           DOMAIN chain \subseteq DOMAIN chain',
           \A i \in DOMAIN chain : chain'[i] = chain[i],
           \A h \in Holders : held[h].class = "Reversed" \/ held'[h].class = "Reversed"
                                => held'[h] = held[h]
    PROVE  ReversalOK'
  <1>1. Journal!EntriesForSettlement(This)' = Journal!EntriesForSettlement(This)
    BY DEF Journal!EntriesForSettlement
  <1>2. ReversedCopies' = ReversedCopies /\ \A h \in ReversedCopies : held'[h] = held[h]
    BY DEF ReversedCopies
  <1>3. CASE current = "Reversed"
    <2>1. PICK i \in DOMAIN journal : Journal!EntriesForSettlement(This) = {i} /\ Told(journal[i])
      BY <1>3 DEF ReversalOK
    <2>2. Told(journal[i])'
      BY <2>1, <1>2, <1>3 DEF Told
    <2>. QED BY <1>1, <1>3, <2>1, <2>2 DEF ReversalOK
  <1>4. CASE current # "Reversed"
    BY <1>1, <1>2, <1>4 DEF ReversalOK
  <1>. QED BY <1>3, <1>4

\* A step of the outcome and its receipt: a row of the table, and one entry more.
LEMMA StepShape ==
    ASSUME ListsOK, NEW outcome, Step(outcome)
    PROVE  /\ current' = outcome /\ Outcome!IsValidTransition(current, outcome)
           /\ IsList(history') /\ history'[Len(history')] = [from |-> current, to |-> outcome]
           /\ IsList(chain') /\ DOMAIN chain \subseteq DOMAIN chain'
           /\ \A i \in DOMAIN chain : chain'[i] = chain[i]
           /\ Len(chain) + 1 \in DOMAIN chain'
           /\ chain'[Len(chain) + 1].content_hash.outcome = outcome
  <1>. DEFINE e == Chain!Entry(Len(chain) + 1, Receipt(outcome), Chain!LatestHash, Len(chain) + 1)
  <1>1. chain' = Append(chain, e)
    BY DEF Step, Chain!AppendOk
  <1>2. e.content_hash.outcome = outcome
    BY DEF Chain!Entry, Receipt
  <1>. HIDE DEF e
  <1>3. /\ IsList(chain') /\ DOMAIN chain' = 1..(Len(chain) + 1)
        /\ chain'[Len(chain) + 1] = e
        /\ \A i \in 1..Len(chain) : chain'[i] = chain[i]
    BY <1>1, AppendToList DEF ListsOK
  <1>4. Len(chain) \in Nat /\ DOMAIN chain = 1..Len(chain)
    BY ListDomain DEF ListsOK
  <1>5. /\ current' = outcome /\ Outcome!IsValidTransition(current, outcome)
        /\ history' = Append(history, [from |-> current, to |-> outcome])
    BY DEF Step, Outcome!TransitionOk
  <1>6. IsList(history') /\ history'[Len(history')] = [from |-> current, to |-> outcome]
    <2>. DEFINE step == [from |-> current, to |-> outcome]
    <2>. HIDE DEF step
    <2>1. history' = Append(history, step)
      BY <1>5 DEF step
    <2>2. IsList(history') /\ Len(history') = Len(history) + 1 /\ history'[Len(history) + 1] = step
      BY <2>1, AppendToList DEF ListsOK
    <2>. QED BY <2>2 DEF step
  <1>. QED BY <1>2, <1>3, <1>4, <1>5, <1>6

\* Only a SUCCESS or a FAIL is reversed, and the steps before it are none.
LEMMA FromVerdict ==
    ASSUME IInv, NEW outcome, Outcome!IsValidTransition(current, outcome)
    PROVE  /\ outcome = "Reversed" => current \in {"Success", "Fail"}
           /\ outcome # "Reversed" => current \in Undecided
  BY DEF IInv, Undecided, Outcome!IsValidTransition, Outcome!FromUnknown, Outcome!FromDecided,
     Outcome!FromDisputed, Outcome!FromTimeout, Outcome!Decided

\* Before anything is due beyond the hold, nothing has been decided or settled.
LEMMA InitIInv == Init => IInv
  <1>. SUFFICES ASSUME Init PROVE IInv
    OBVIOUS
  <1>1. /\ money = <<>> /\ next_money_id = 1 /\ chain = <<>> /\ journal = <<>>
        /\ current = "Unknown" /\ history = <<>> /\ settled = NotSettled
        /\ held = [h \in Holders |-> NoClass]
    BY DEF Init, Ledger!Init, Evidence!Init, Outcome!Init, Chain!Init, Journal!Init
  <1>2. ListsOK
    BY <1>1 DEF ListsOK, IsList
  <1>3. CopiesOK
    BY <1>1, NoClassIsNone DEF CopiesOK
  <1>4. ReversalOK
    BY <1>1, NoClassIsNone DEF ReversalOK, ReversedCopies, Journal!EntriesForSettlement
  <1>5. PayoutsOK
    BY <1>1 DEF PayoutsOK, Credited, Undecided
  <1>6. MoneyFollowsOutcome
    <2>1. Due = DueFor(current, 0)
      BY <1>1 DEF Due, DueFor
    <2>2. Len(Due) \in Nat
      BY <2>1, DueShape DEF DuePlaces
    <2>. QED BY <1>1, <2>2 DEF MoneyFollowsOutcome
  <1>. QED BY <1>1, <1>2, <1>3, <1>4, <1>5, <1>6 DEF IInv, Undecided

\* A credit of the next payee is one payout more; the other movements are none.
LEMMA MovePays ==
    ASSUME IInv, Move
    PROVE  PayoutsOK' /\ (current = "Reversed" => Credited' = Credited)
  <1>. DEFINE n == Len(money)
              e == [Due[n + 1] EXCEPT !.entry_id = next_money_id]
  <1>1. n < Len(Due) /\ money' = Append(money, e) /\ current' = current
    BY DEF Move, Ledger!AppendEntry, outcomeVars
  <1>2. /\ IsList(money) /\ n \in Nat /\ DOMAIN money = 1..n /\ n + 1 \in 1..Len(Due)
        /\ Len(Payees) \in Nat /\ DOMAIN Payees = 1..Len(Payees)
        /\ \A i, j \in DOMAIN Payees : Payees[i] = Payees[j] => i = j
        /\ \A i \in DOMAIN Payees : Payees[i] # Payer
    <2>1. PICK k \in 0..Len(Payees) : DuePlaces(Due, current, k)
      BY DueNow
    <2>. QED BY <1>1, <2>1, ListDomain, SettlementAssumption, ContractsAssumption
         DEF IInv, ListsOK, DuePlaces
  <1>3. PICK k \in 0..Len(Payees) :
          /\ DuePlaces(Due, current, k)
          /\ current = "Reversed" => PayoutsMade = k /\ Credited = 1..k /\ n >= k + 1
    BY DueNow
  <1>4. \A agent, direction, value : Due[n + 1] = Movement(agent, direction, value) =>
            e.agent_id = agent /\ e.direction = direction
    BY DEF Movement
  <1>5. current \in Undecided \cup {"Fail"} => e.agent_id = Payer
    <2>1. ASSUME current \in Undecided PROVE Due[n + 1] = Hold
      <3>1. Len(Due) = 1
        BY <1>3, <2>1 DEF DuePlaces, Undecided
      <3>2. n + 1 = 1
        BY <1>2, <3>1
      <3>. QED BY <1>3, <3>2 DEF DuePlaces
    <2>2. ASSUME current = "Fail" PROVE Due[n + 1] = Returned
      <3>1. Len(Due) = 2
        BY <1>3, <2>2 DEF DuePlaces
      <3>2. n >= 1
        BY <2>2 DEF IInv, PayoutsOK
      <3>3. n + 1 = 2
        BY <1>2, <3>1, <3>2
      <3>. QED BY <1>3, <2>2, <3>3 DEF DuePlaces
    <2>. QED BY <1>4, <2>1, <2>2 DEF Hold, Returned
  <1>6. current = "Success" =>
          n \in 1..Len(Payees) /\ e.agent_id = Payees[n] /\ e.direction = "Credit"
    <2>. SUFFICES ASSUME current = "Success"
                  PROVE  n \in 1..Len(Payees) /\ e.agent_id = Payees[n] /\ e.direction = "Credit"
      OBVIOUS
    <2>1. n \in 1..Len(Payees) /\ n + 1 = 1 + n
      BY <1>2, <1>3 DEF DuePlaces, IInv, PayoutsOK
    <2>2. Due[n + 1] = PaidTo(n)
      BY <1>3, <2>1 DEF DuePlaces
    <2>. QED BY <1>4, <2>1, <2>2 DEF PaidTo
  <1>7. current = "Reversed" => e.agent_id = Payer \/ e.direction = "Debit"
    <2>. SUFFICES ASSUME current = "Reversed" PROVE e.agent_id = Payer \/ e.direction = "Debit"
      OBVIOUS
    <2>1. k \in Nat /\ n + 1 >= k + 2 /\ n + 1 <= 2 * k + 2
      BY <1>2, <1>3 DEF DuePlaces
    <2>2. CASE n + 1 = 2 * k + 2
      <3>1. Due[n + 1] = Returned
        BY <1>3, <2>2 DEF DuePlaces
      <3>. QED BY <1>4, <3>1 DEF Returned
    <2>3. CASE n + 1 # 2 * k + 2
      <3>. DEFINE i == n - k
      <3>1. i \in 1..k /\ k + 1 + i = n + 1
        BY <1>2, <2>1, <2>3
      <3>. HIDE DEF i
      <3>2. Due[k + 1 + i] = TakenFrom(k + 1 - i)
        BY <1>3, <3>1 DEF DuePlaces
      <3>. QED BY <1>4, <3>1, <3>2 DEF TakenFrom
    <2>. QED BY <2>2, <2>3
  <1>. HIDE DEF e
  <1>8. /\ Len(money') = n + 1 /\ DOMAIN money' = 1..(n + 1)
        /\ money'[n + 1] = e /\ \A j \in 1..n : money'[j] = money[j]
    BY <1>1, <1>2, AppendToList
  <1>9. Credited' = Credited \cup {i \in DOMAIN Payees : e.agent_id = Payees[i] /\ e.direction = "Credit"}
    <2>1. ASSUME NEW i \in DOMAIN Payees
          PROVE  (\E j \in DOMAIN money' : money'[j].agent_id = Payees[i] /\ money'[j].direction = "Credit")
                   <=> \/ \E j \in DOMAIN money : money[j].agent_id = Payees[i] /\ money[j].direction = "Credit"
                       \/ e.agent_id = Payees[i] /\ e.direction = "Credit"
      <3>1. \A j : j \in 1..(n + 1) <=> j \in 1..n \/ j = n + 1
        BY <1>2
      <3>. QED BY <1>2, <1>8, <3>1
    <2>. QED BY <2>1 DEF Credited
  <1>10. e.agent_id = Payer \/ e.direction = "Debit" => Credited' = Credited
    BY <1>2, <1>9
  <1>11. CASE current \in Undecided \cup {"Fail"}
    BY <1>1, <1>2, <1>5, <1>8, <1>10, <1>11 DEF IInv, PayoutsOK, Undecided
  <1>12. CASE current = "Success"
    <2>1. Credited' = 1..(n - 1) \cup {n}
      <3>1. {i \in DOMAIN Payees : e.agent_id = Payees[i] /\ e.direction = "Credit"} = {n}
        BY <1>2, <1>6, <1>12
      <3>. QED BY <1>9, <1>12, <3>1 DEF IInv, PayoutsOK
    <2>2. 1..(n - 1) \cup {n} = 1..((n + 1) - 1)
      BY <1>6, <1>12
    <2>. QED BY <1>1, <1>2, <1>8, <1>12, <2>1, <2>2 DEF PayoutsOK, Undecided
  <1>13. CASE current = "Reversed"
    <2>1. Credited' = Credited
      BY <1>7, <1>10, <1>13
    <2>2. n + 1 >= k + 1
      BY <1>2, <1>3, <1>13
    <2>. QED BY <1>1, <1>3, <1>8, <1>13, <2>1, <2>2 DEF PayoutsOK, Undecided
  <1>. QED BY <1>11, <1>12, <1>13 DEF IInv

\* The next movement due is appended under the next id.
LEMMA MoveKeeps == ASSUME IInv, Move PROVE IInv'
  <1>. DEFINE n == Len(money)
              e == [Due[n + 1] EXCEPT !.entry_id = next_money_id]
  <1>1. /\ n < Len(Due) /\ money' = Append(money, e) /\ next_money_id' = next_money_id + 1
        /\ UNCHANGED <<contract, current, history, chain, clock, settled, held, journal>>
    BY DEF Move, Ledger!AppendEntry, outcomeVars, finalityVars
  <1>2. /\ IsList(money) /\ n \in Nat /\ DOMAIN money = 1..n /\ next_money_id = n + 1
        /\ Len(Due) \in Nat /\ Due' = Due
    <2>1. Due' = Due
      <3>1. current = "Reversed" => PayoutsMade' = PayoutsMade
        BY MovePays DEF PayoutsMade
      <3>. QED BY <1>1, <3>1, DueIs DEF DueFor
    <2>2. Len(Due) \in Nat
      BY DueNow DEF DuePlaces
    <2>. QED BY <2>1, <2>2, ListDomain DEF IInv, ListsOK
  <1>3. e = [Due[n + 1] EXCEPT !.entry_id = n + 1]
    BY <1>2
  <1>. HIDE DEF e
  <1>4. /\ IsList(money') /\ Len(money') = n + 1 /\ DOMAIN money' = 1..(n + 1)
        /\ money'[n + 1] = e /\ \A i \in 1..n : money'[i] = money[i]
    BY <1>1, <1>2, AppendToList
  <1>5. MoneyFollowsOutcome'
    <2>. SUFFICES ASSUME NEW i \in 1..(n + 1)
                  PROVE  money'[i] = [Due[i] EXCEPT !.entry_id = i]
      BY <1>1, <1>2, <1>4 DEF MoneyFollowsOutcome
    <2>1. CASE i = n + 1
      BY <2>1, <1>3, <1>4
    <2>2. CASE i \in 1..n
      BY <2>2, <1>2, <1>4 DEF IInv, MoneyFollowsOutcome
    <2>. QED BY <2>1, <2>2, <1>2
  <1>6. ListsOK'
    BY <1>1, <1>2, <1>4 DEF IInv, ListsOK
  <1>7. CopiesOK'
    BY <1>1 DEF IInv, CopiesOK
  <1>8. ReversalOK'
    BY <1>1, ReversalKept DEF IInv
  <1>. QED BY <1>1, <1>5, <1>6, <1>7, <1>8, MovePays DEF IInv

\* A verdict is given once, and only when nothing is settled yet.
LEMMA DecideKeeps == ASSUME IInv, NEW outcome, Decide(outcome) PROVE IInv'
  <1>1. /\ UNCHANGED <<contract, money, next_money_id, settled, held, journal>>
        /\ money # <<>> /\ Step(outcome)
        /\ outcome \in Undecided \cup {"Success", "Fail"}
    BY DEF Decide, Supported, moneyVars, finalityVars, Undecided
  <1>2. /\ current' = outcome /\ Outcome!IsValidTransition(current, outcome)
        /\ IsList(history') /\ IsList(chain') /\ DOMAIN chain \subseteq DOMAIN chain'
        /\ \A i \in DOMAIN chain : chain'[i] = chain[i]
    BY <1>1, StepShape DEF IInv
  <1>3. current \in Undecided
    BY <1>1, <1>2, FromVerdict DEF Undecided
  <1>4. PayoutsOK' /\ MoneyFollowsOutcome'
    BY <1>1, <1>2, <1>3, MoneyDecided
  <1>5. ListsOK'
    BY <1>1, <1>2 DEF IInv, ListsOK
  <1>6. CopiesOK'
    BY <1>1, <1>3 DEF IInv, CopiesOK, Undecided
  <1>7. ReversalOK'
    <2>1. current # "Reversed" /\ current' # "Reversed"
      BY <1>1, <1>2, <1>3 DEF Undecided
    <2>. QED BY <1>1, <1>2, <2>1, ReversalKept DEF IInv
  <1>. QED BY <1>1, <1>2, <1>4, <1>5, <1>6, <1>7 DEF IInv

\* The holders get the class of the adapter; none of those is reversed.
LEMMA SettleKeeps == ASSUME IInv, NEW adapter \in Finality!AdapterType, Settle(adapter) PROVE IInv'
  <1>. DEFINE f == Finality!DefaultFinality(adapter, clock)
  <1>1. /\ settled = NotSettled /\ current = "Success"
        /\ settled' = [adapter |-> adapter, at |-> clock]
        /\ held' = [h \in Holders |-> f]
        /\ UNCHANGED <<contract, money, next_money_id, current, history, chain, journal>>
    BY DEF Settle, moneyVars, outcomeVars
  <1>2. /\ settled'.adapter = adapter /\ settled'.at = clock /\ adapter # "none"
        /\ settled' # NotSettled
    BY <1>1 DEF NotSettled, Finality!AdapterType
  <1>3. /\ f.class # "Reversed"
        /\ Finality!InWindow(f) =>
              adapter = "Stripe" /\ f = Finality!WithinReversalWindow(clock + Window)
    BY DEF Finality!AdapterType, Finality!DefaultFinality, Finality!InWindow, Finality!Final,
       Finality!WithinReversalWindow, Finality!PendingConfirmation
  <1>. HIDE DEF f
  <1>4. \A h \in Holders : held'[h] = f /\ held[h] = NoClass
    BY <1>1 DEF IInv, CopiesOK
  <1>5. CopiesOK'
    <2>1. ASSUME NEW h \in Holders, Finality!InWindow(held[h])'
          PROVE  (settled.adapter = "Stripe"
                    /\ held[h] = Finality!WithinReversalWindow(settled.at + Window))'
      <3>1. Finality!InWindow(f)
        BY <1>4, <2>1 DEF Finality!InWindow
      <3>. QED BY <1>2, <1>3, <1>4, <3>1 DEF Finality!WithinReversalWindow
    <2>. QED BY <1>1, <1>2, <1>4, <2>1 DEF CopiesOK
  <1>6. ReversalOK'
    <2>1. \A h \in Holders : held[h].class # "Reversed" /\ held'[h].class # "Reversed"
      BY <1>3, <1>4, NoClassIsNone
    <2>. QED BY <1>1, <2>1, ReversalKept DEF IInv
  <1>7. PayoutsOK' /\ MoneyFollowsOutcome'
    BY <1>1, MoneyQuiet
  <1>8. ListsOK'
    BY <1>1 DEF IInv, ListsOK
  <1>. QED BY <1>1, <1>5, <1>6, <1>7, <1>8 DEF IInv

\* Time, confirmations and expiry checks reverse nothing and put nothing back.
LEMMA WaitKeeps == ASSUME IInv, Wait PROVE IInv'
  <1>1. /\ UNCHANGED <<contract, money, next_money_id, current, history, chain, settled, journal>>
        /\ \/ UNCHANGED held
           \/ \E h \in Holders :
                 \/ Finality!ConfirmOk(held[h]) /\ held' = [held EXCEPT ![h] = Finality!Final]
                 \/ Finality!ExpiredAt(held[h], clock) /\ held' = [held EXCEPT ![h] = Finality!Final]
                 \/ held' = [held EXCEPT ![h] = held[h]]
    BY DEF Wait, Later, moneyVars, outcomeVars, Finality!Tick, Finality!Confirm,
       Finality!CheckWindowExpiry
  <1>2. ASSUME NEW h \in Holders, Finality!ConfirmOk(held[h]) \/ Finality!ExpiredAt(held[h], clock)
        PROVE  held[h].class # "Reversed" /\ settled # NotSettled
    BY <1>2, NoClassIsNone
    DEF IInv, CopiesOK, Finality!ConfirmOk, Finality!ExpiredAt, Finality!InWindow
  <1>3. ~Finality!InWindow(Finality!Final) /\ Finality!Final.class # "Reversed"
    BY DEF Finality!InWindow, Finality!Final
  <1>. DEFINE OnlyToFinal ==
                /\ held' = [h \in Holders |-> held'[h]]
                /\ \A h \in Holders :
                      \/ held'[h] = held[h]
                      \/ /\ held'[h] = Finality!Final
                         /\ held[h].class # "Reversed" /\ settled # NotSettled
  <1>4. OnlyToFinal
    <2>0. held = [h \in Holders |-> held[h]]
      BY DEF IInv, CopiesOK
    <2>1. CASE UNCHANGED held
      BY <2>0, <2>1
    <2>2. ASSUME NEW h \in Holders,
                 Finality!ConfirmOk(held[h]) \/ Finality!ExpiredAt(held[h], clock),
                 held' = [held EXCEPT ![h] = Finality!Final]
          PROVE  OnlyToFinal
      BY <2>0, <2>2, <1>2
    <2>3. ASSUME NEW h \in Holders, held' = [held EXCEPT ![h] = held[h]]
          PROVE  OnlyToFinal
      BY <2>0, <2>3
    <2>. QED BY <1>1, <2>1, <2>2, <2>3
  <1>5. CopiesOK'
    <2>1. ASSUME NEW h \in Holders, Finality!InWindow(held[h])'
          PROVE  (settled.adapter = "Stripe"
                    /\ held[h] = Finality!WithinReversalWindow(settled.at + Window))'
      <3>1. held'[h] = held[h]
        BY <1>3, <1>4, <2>1 DEF Finality!InWindow
      <3>2. Finality!InWindow(held[h])
        BY <2>1, <3>1 DEF Finality!InWindow
      <3>. QED BY <1>1, <3>1, <3>2 DEF IInv, CopiesOK, Finality!WithinReversalWindow
    <2>. QED BY <1>1, <1>4, <2>1 DEF IInv, CopiesOK
  <1>6. ReversalOK'
    <2>1. \A h \in Holders : held[h].class = "Reversed" \/ held'[h].class = "Reversed"
                               => held'[h] = held[h]
      BY <1>3, <1>4
    <2>. QED BY <1>1, <2>1, ReversalKept DEF IInv
  <1>7. PayoutsOK' /\ MoneyFollowsOutcome'
    BY <1>1, MoneyQuiet
  <1>8. ListsOK'
    BY <1>1 DEF IInv, ListsOK
  <1>. QED BY <1>1, <1>5, <1>6, <1>7, <1>8 DEF IInv

\* What a reversal records: one entry of this settlement, of the verdict there
\* was, when the copies are as the settlement asks for.
LEMMA ReversalTold ==
    ASSUME IInv, NEW t, NEW reason, UNCHANGED settled, Step("Reversed"),
           journal' = Append(journal, Entry(This, t, reason, current, Len(chain) + 1)),
           IF settled = NotSettled THEN ReversedCopies' = {}
           ELSE /\ settled.adapter = "Stripe"
                /\ t < settled.at + Window
                /\ ReversedCopies' # {}
                /\ \A h \in ReversedCopies' :
                      held'[h] = Finality!Reversed(t, reason,
                                                   Finality!WithinReversalWindow(settled.at + Window))
    PROVE  ReversalOK' /\ IsList(journal')
  <1>. DEFINE n == Len(journal)
              e == Entry(This, t, reason, current, Len(chain) + 1)
  <1>1. /\ current' = "Reversed" /\ Outcome!IsValidTransition(current, "Reversed")
        /\ history'[Len(history')] = [from |-> current, to |-> "Reversed"]
        /\ Len(chain) + 1 \in DOMAIN chain'
        /\ chain'[Len(chain) + 1].content_hash.outcome = "Reversed"
    BY StepShape DEF IInv
  <1>2. current \in {"Success", "Fail"}
    BY <1>1, FromVerdict
  <1>3. /\ e.settlement_id = This /\ e.original_outcome = current
        /\ e.reversed_at = t /\ e.reason = reason /\ e.reversal_verity_id = Len(chain) + 1
    BY DEF Entry
  <1>4. journal' = Append(journal, e)
    OBVIOUS
  <1>. HIDE DEF e
  <1>5. /\ IsList(journal') /\ n \in Nat /\ DOMAIN journal = 1..n /\ DOMAIN journal' = 1..(n + 1)
        /\ journal'[n + 1] = e /\ \A i \in 1..n : journal'[i] = journal[i]
    BY <1>4, AppendToList, ListDomain DEF IInv, ListsOK
  <1>6. Journal!EntriesForSettlement(This) = {}
    BY <1>2 DEF IInv, ReversalOK
  <1>7. PICK k \in DOMAIN journal' : k = n + 1 /\ journal'[k] = e
    BY <1>5
  <1>8. Journal!EntriesForSettlement(This)' = {k}
    BY <1>3, <1>5, <1>6, <1>7 DEF Journal!EntriesForSettlement
  <1>9. Told(journal[k])'
    BY <1>1, <1>3, <1>7 DEF Told, NotSettled, Finality!Reversed, Finality!WithinReversalWindow
  <1>. QED BY <1>1, <1>5, <1>7, <1>8, <1>9 DEF ReversalOK

\* A reversal by report is one of a settled success that nobody has reversed before.
LEMMA ReverseKeeps ==
    ASSUME IInv, NEW h \in Holders, NEW reason, NEW t, Reverse(h, reason, t)
    PROVE  IInv'
  <1>. DEFINE window == Finality!WithinReversalWindow(settled.at + Window)
              f == Finality!Reversed(t, reason, held[h])
  <1>1. /\ UNCHANGED <<contract, money, next_money_id, settled>>
        /\ Finality!InWindow(held[h]) /\ t < held[h].reversal_window_expires
        /\ held' = [held EXCEPT ![h] = f]
        /\ Step("Reversed")
        /\ journal' = Append(journal, Entry(This, t, reason, current, Len(chain) + 1))
    BY DEF Reverse, moneyVars, Finality!Reverse, Finality!ReverseOk, Finality!IsBefore, Journal!Record
  <1>2. /\ current' = "Reversed" /\ Outcome!IsValidTransition(current, "Reversed")
        /\ IsList(chain') /\ IsList(history')
    BY <1>1, StepShape DEF IInv
  <1>3. settled # NotSettled /\ settled.adapter = "Stripe" /\ held[h] = window
    BY <1>1, NoClassIsNone DEF IInv, CopiesOK
  <1>4. current \in {"Success", "Fail"}
    BY <1>2, FromVerdict
  <1>5. /\ f = Finality!Reversed(t, reason, window)
        /\ f.class = "Reversed" /\ ~Finality!InWindow(f)
        /\ t < settled.at + Window
    BY <1>1, <1>3 DEF Finality!Reversed, Finality!InWindow, Finality!WithinReversalWindow
  <1>. HIDE DEF f, window
  <1>6. /\ held' = [g \in Holders |-> held'[g]]
        /\ held'[h] = f /\ \A g \in Holders : g # h => held'[g] = held[g]
    BY <1>1 DEF IInv, CopiesOK
  <1>7. ReversedCopies' = {h}
    <2>1. ReversedCopies = {}
      BY <1>4 DEF IInv, ReversalOK
    <2>. QED BY <1>5, <1>6, <2>1 DEF ReversedCopies
  <1>8. ReversalOK' /\ IsList(journal')
    <2>1. \A g \in ReversedCopies' : held'[g] = Finality!Reversed(t, reason, window)
      BY <1>5, <1>6, <1>7
    <2>. QED BY <1>1, <1>3, <1>5, <1>7, <2>1, ReversalTold DEF window
  <1>9. CopiesOK'
    <2>1. ASSUME NEW g \in Holders, Finality!InWindow(held[g])'
          PROVE  (settled.adapter = "Stripe"
                    /\ held[g] = Finality!WithinReversalWindow(settled.at + Window))'
      <3>1. held'[g] = held[g]
        BY <1>5, <1>6, <2>1 DEF Finality!InWindow
      <3>2. Finality!InWindow(held[g])
        BY <2>1, <3>1 DEF Finality!InWindow
      <3>. QED BY <1>1, <3>1, <3>2 DEF IInv, CopiesOK, Finality!WithinReversalWindow
    <2>. QED BY <1>1, <1>2, <1>3, <1>6, <2>1 DEF CopiesOK
  <1>10. PayoutsOK' /\ MoneyFollowsOutcome'
    BY <1>1, <1>2, <1>4, MoneyReversed
  <1>11. ListsOK'
    BY <1>1, <1>2, <1>8 DEF IInv, ListsOK
  <1>. QED BY <1>2, <1>8, <1>9, <1>10, <1>11 DEF IInv

\* A reversal before the settlement finds no copy and leaves none.
LEMMA CorrectKeeps == ASSUME IInv, NEW reason, Correct(reason) PROVE IInv'
  <1>1. /\ UNCHANGED <<contract, money, next_money_id, clock, settled, held>>
        /\ settled = NotSettled
        /\ Step("Reversed")
        /\ journal' = Append(journal, Entry(This, clock, reason, current, Len(chain) + 1))
    BY DEF Correct, moneyVars, finalityVars, Journal!Record
  <1>2. /\ current' = "Reversed" /\ Outcome!IsValidTransition(current, "Reversed")
        /\ IsList(chain') /\ IsList(history')
    BY <1>1, StepShape DEF IInv
  <1>3. current \in {"Success", "Fail"}
    BY <1>2, FromVerdict
  <1>4. ReversedCopies' = {}
    BY <1>1, <1>3 DEF IInv, ReversalOK, ReversedCopies
  <1>5. ReversalOK' /\ IsList(journal')
    BY <1>1, <1>4, ReversalTold
  <1>6. CopiesOK'
    BY <1>1 DEF IInv, CopiesOK
  <1>7. PayoutsOK' /\ MoneyFollowsOutcome'
    BY <1>1, <1>2, <1>3, MoneyReversed
  <1>8. ListsOK'
    BY <1>1, <1>2, <1>5 DEF IInv, ListsOK
  <1>. QED BY <1>2, <1>5, <1>6, <1>7, <1>8 DEF IInv

\* Another settlement's entry in the journal is none of this one's.
LEMMA OtherReversedKeeps == ASSUME IInv, NEW reason, OtherReversed(reason) PROVE IInv'
  <1>. DEFINE n == Len(journal)
              e == Entry(Other, clock, reason, "Success", 1)
  <1>1. /\ UNCHANGED <<contract, money, next_money_id, current, history, chain, settled, held>>
        /\ journal' = Append(journal, e)
    BY DEF OtherReversed, moneyVars, outcomeVars, finalityVars, Journal!Record
  <1>2. e.settlement_id # This
    BY SettlementAssumption DEF Entry
  <1>. HIDE DEF e
  <1>3. /\ IsList(journal') /\ n \in Nat /\ DOMAIN journal = 1..n /\ DOMAIN journal' = 1..(n + 1)
        /\ journal'[n + 1] = e /\ \A i \in 1..n : journal'[i] = journal[i]
    BY <1>1, AppendToList, ListDomain DEF IInv, ListsOK
  <1>4. Journal!EntriesForSettlement(This)' = Journal!EntriesForSettlement(This)
    BY <1>2, <1>3 DEF Journal!EntriesForSettlement
  <1>5. ReversalOK'
    <2>1. ReversedCopies' = ReversedCopies
      BY <1>1 DEF ReversedCopies
    <2>2. CASE current = "Reversed"
      <3>1. PICK i \in DOMAIN journal : Journal!EntriesForSettlement(This) = {i} /\ Told(journal[i])
        BY <2>2 DEF IInv, ReversalOK
      <3>2. i \in DOMAIN journal' /\ journal'[i] = journal[i]
        BY <1>3
      <3>3. Told(journal[i])'
        BY <1>1, <2>1, <3>1, <3>2 DEF Told
      <3>. QED BY <1>1, <1>4, <2>2, <3>1, <3>2, <3>3 DEF ReversalOK
    <2>3. CASE current # "Reversed"
      BY <1>1, <1>4, <2>1, <2>3 DEF IInv, ReversalOK
    <2>. QED BY <2>2, <2>3
  <1>6. CopiesOK'
    BY <1>1 DEF IInv, CopiesOK
  <1>7. PayoutsOK' /\ MoneyFollowsOutcome'
    BY <1>1, MoneyQuiet
  <1>8. ListsOK'
    BY <1>1, <1>3 DEF IInv, ListsOK
  <1>. QED BY <1>1, <1>5, <1>6, <1>7, <1>8 DEF IInv

\* Evidence, and calls that return Err, leave all of this as it is.
LEMMA RestKeeps ==
    ASSUME IInv, UNCHANGED <<contract, money, next_money_id, current, history, chain, settled, held, journal>>
    PROVE  IInv'
  <1>1. ReversalOK'
    BY ReversalKept DEF IInv
  <1>2. PayoutsOK' /\ MoneyFollowsOutcome'
    BY MoneyQuiet
  <1>. QED BY <1>1, <1>2 DEF IInv, ListsOK, CopiesOK

\* Every step keeps the inductive invariant.
LEMMA StepIInv == IInv /\ [Next]_vars => IInv'
  <1>. SUFFICES ASSUME IInv, [Next]_vars PROVE IInv'
    OBVIOUS
  <1>1. CASE Move
    BY <1>1, MoveKeeps
  <1>2. ASSUME NEW condition, NEW confidence, Submit(condition, confidence)
        PROVE  IInv'
    BY <1>2, RestKeeps DEF Submit, moneyVars, outcomeVars, finalityVars
  <1>3. ASSUME NEW outcome, Decide(outcome)
        PROVE  IInv'
    BY <1>3, DecideKeeps
  <1>4. ASSUME NEW adapter \in Finality!AdapterType, Settle(adapter)
        PROVE  IInv'
    BY <1>4, SettleKeeps
  <1>5. CASE Wait
    BY <1>5, WaitKeeps
  <1>6. ASSUME NEW h \in Holders, NEW t, NEW reason, Reverse(h, reason, t)
        PROVE  IInv'
    BY <1>6, ReverseKeeps
  <1>7. ASSUME NEW reason, OtherReversed(reason)
        PROVE  IInv'
    BY <1>7, OtherReversedKeeps
  <1>8. ASSUME NEW reason, Correct(reason)
        PROVE  IInv'
    BY <1>8, CorrectKeeps
  <1>9. CASE UNCHANGED vars
    BY <1>9, RestKeeps DEF vars, moneyVars, outcomeVars, finalityVars
  <1>. QED BY <1>1, <1>2, <1>3, <1>4, <1>5, <1>6, <1>7, <1>8, <1>9 DEF Next, ReverseErr

\* The inductive invariant holds of every settlement.
LEMMA SpecIInv == Spec => []IInv
  BY InitIInv, StepIInv, PTL DEF Spec

\* The money moved is the beginning of what the outcome asks for, always: no
\* dispute or verdict, and no reversal, be it of a SUCCESS after any number of
\* payouts or of a FAIL, strands a movement already made.
THEOREM MoneyAlwaysFollows == Spec => []MoneyFollowsOutcome
  <1>1. IInv => MoneyFollowsOutcome
    BY DEF IInv
  <1>. QED BY <1>1, SpecIInv, PTL

\* However many holders act on however many reports, there is one reversal.
THEOREM ReversedAtMostOnce == Spec => []ReversedOnce
  <1>1. IInv => ReversedOnce
    <2>. SUFFICES ASSUME IInv PROVE ReversedOnce
      OBVIOUS
    <2>1. CASE current = "Reversed"
      <3>1. PICK i : Journal!EntriesForSettlement(This) = {i}
        BY <2>1 DEF IInv, ReversalOK
      <3>2. Cardinality({i}) = 1
        BY FS_Singleton
      <3>. QED BY <2>1, <3>1, <3>2 DEF ReversedOnce
    <2>2. CASE current # "Reversed"
      BY <2>2, FS_EmptySet DEF IInv, ReversalOK, ReversedOnce
    <2>. QED BY <2>1, <2>2
  <1>. QED BY <1>1, SpecIInv, PTL

\* The journal's entry, the history, the receipt, the reversed copies and the
\* adapter agree on that reversal.
THEOREM JournalTells == Spec => []JournalTellsReversal
  <1>1. IInv => JournalTellsReversal
    <2>. SUFFICES ASSUME IInv, NEW i \in Journal!EntriesForSettlement(This), NEW e, e = journal[i],
                         NEW copies, copies = {held[h] : h \in {g \in Holders : held[g].class = "Reversed"}}
                  PROVE  /\ history[Len(history)] = [from |-> e.original_outcome, to |-> "Reversed"]
                         /\ chain[e.reversal_verity_id].content_hash.outcome = "Reversed"
                         /\ IF settled = NotSettled THEN copies = {}
                            ELSE /\ settled.adapter = "Stripe"
                                 /\ e.reversed_at < settled.at + Window
                                 /\ copies = {Finality!Reversed(e.reversed_at, e.reason,
                                                  Finality!WithinReversalWindow(settled.at + Window))}
      BY DEF JournalTellsReversal
    <2>1. Told(e)
      BY DEF IInv, ReversalOK
    <2>2. copies = {held[h] : h \in ReversedCopies}
      BY DEF ReversedCopies
    <2>. QED BY <2>1, <2>2 DEF Told
  <1>. QED BY <1>1, SpecIInv, PTL
----------------------------------------------------------------------------
(***************************************************************************)
(* The receipts.  One to each step of the outcome, over the evidence that  *)
(* was there: entry i of the evidence ledger has id i.                     *)
(***************************************************************************)
EvidenceOK ==
    /\ IsList(evidence) /\ next_evidence_id = Len(evidence) + 1
    /\ \A i \in DOMAIN evidence : evidence[i].entry_id = i

\* What a receipt names is in the ledger, and supports the verdict.
Rests(r) ==
    /\ r.evidence \subseteq DOMAIN evidence
    /\ r.outcome \in {"Success", "Fail"} => Supported(r.outcome, r.evidence)

RInv ==
    /\ EvidenceOK
    /\ IsList(chain) /\ IsList(history)
    /\ ReceiptsTellHistory
    /\ \A i \in DOMAIN chain : Rests(chain[i].content_hash)

\* What evidence supports, it supports while its entries stay, whatever comes.
LEMMA SupportStays ==
    ASSUME NEW r, Rests(r), DOMAIN evidence \subseteq DOMAIN evidence',
           \A i \in DOMAIN evidence : evidence'[i] = evidence[i]
    PROVE  r.evidence \subseteq DOMAIN evidence'
           /\ (r.outcome \in {"Success", "Fail"} => Supported(r.outcome, r.evidence)')
  <1>. DEFINE S == r.evidence
  <1>1. S \subseteq DOMAIN evidence /\ S \subseteq DOMAIN evidence'
    BY DEF Rests
  <1>. HIDE DEF S
  <1>2. \A c : Evidence!EntriesForCondition(c)' \cap S = Evidence!EntriesForCondition(c) \cap S
    BY <1>1 DEF Evidence!EntriesForCondition
  <1>3. ASSUME NEW c PROVE Passes(c, S)' <=> Passes(c, S)
    <2>1. \A i \in Evidence!EntriesForCondition(c) \cap S : evidence'[i] = evidence[i]
      BY <1>1
    <2>. QED BY <1>2, <2>1 DEF Passes
  <1>4. \A outcome : Supported(outcome, S)' <=> Supported(outcome, S)
    BY <1>2, <1>3 DEF Supported
  <1>. QED BY <1>1, <1>4 DEF Rests, S

\* A receipt names all the evidence there is.
LEMMA ReceiptNamesAll ==
    ASSUME EvidenceOK, NEW outcome
    PROVE  Receipt(outcome).outcome = outcome /\ Receipt(outcome).evidence = DOMAIN evidence
  BY DEF EvidenceOK, Receipt

\* The receipt of a step ends the chain as the step ends the history.
LEMMA StepTells ==
    ASSUME RInv, NEW outcome, Step(outcome), UNCHANGED <<evidence, next_evidence_id>>,
           outcome \in {"Success", "Fail"} => Supported(outcome, DOMAIN evidence)
    PROVE  RInv'
  <1>. DEFINE n == Len(chain)
              e == Chain!Entry(n + 1, Receipt(outcome), Chain!LatestHash, n + 1)
              step == [from |-> current, to |-> outcome]
  <1>1. chain' = Append(chain, e) /\ history' = Append(history, step)
    BY DEF Step, Chain!AppendOk, Outcome!TransitionOk
  <1>2. /\ e.position = n + 1 /\ e.content_hash.outcome = outcome
        /\ e.content_hash.evidence = DOMAIN evidence
        /\ e.previous_hash = Chain!LatestHash
        /\ e.chain_hash = Chain!ChainHash(e.content_hash, e.previous_hash)
    BY ReceiptNamesAll DEF RInv, Chain!Entry
  <1>3. Chain!LatestHash = IF n = 0 THEN Chain!None ELSE Chain!Some(chain[n].chain_hash)
    <2>1. chain = <<>> <=> n = 0
      BY DEF RInv, IsList
    <2>. QED BY <2>1 DEF Chain!LatestHash
  <1>4. n \in Nat /\ DOMAIN chain = 1..n /\ Len(history) = n /\ DOMAIN history = 1..n
    BY ListDomain DEF RInv, ReceiptsTellHistory
  <1>. HIDE DEF e, n
  <1>5. /\ IsList(chain') /\ Len(chain') = n + 1 /\ DOMAIN chain' = 1..(n + 1)
        /\ chain'[n + 1] = e /\ \A i \in 1..n : chain'[i] = chain[i]
    BY <1>1, <1>4, AppendToList DEF RInv, n
  <1>6. /\ IsList(history') /\ Len(history') = n + 1
        /\ history'[n + 1] = step /\ \A i \in 1..n : history'[i] = history[i]
    BY <1>1, <1>4, AppendToList DEF RInv
  <1>7. Chain!Verify(chain')
    <2>. SUFFICES ASSUME NEW i \in 1..(n + 1) PROVE Chain!EntryVerifies(chain', i)
      BY <1>5 DEF Chain!Verify
    <2>1. CASE i \in 1..n
      <3>1. Chain!EntryVerifies(chain, i)
        BY <1>4, <2>1 DEF RInv, ReceiptsTellHistory, Chain!Verify
      <3>2. i = 1 \/ i - 1 \in 1..n
        BY <1>4, <2>1
      <3>. QED BY <1>5, <2>1, <3>1, <3>2 DEF Chain!EntryVerifies
    <2>2. CASE i = n + 1
      <3>1. n = 0 \/ n \in 1..n
        BY <1>4
      <3>. QED BY <1>2, <1>3, <1>4, <1>5, <2>2, <3>1 DEF Chain!EntryVerifies
    <2>. QED BY <1>4, <2>1, <2>2
  <1>8. ASSUME NEW i \in 1..(n + 1)
        PROVE  /\ chain'[i].content_hash.outcome = history'[i].to
               /\ \A j \in 1..i :
                     chain'[j].content_hash.evidence \subseteq chain'[i].content_hash.evidence
               /\ Rests(chain'[i].content_hash)
    <2>1. \A j \in 1..n : /\ Rests(chain[j].content_hash)
                          /\ chain[j].content_hash.evidence \subseteq DOMAIN evidence
      BY <1>4 DEF RInv, Rests
    <2>2. CASE i \in 1..n
      <3>1. \A j \in 1..i : j \in 1..n
        BY <1>4, <2>2
      <3>. QED BY <1>4, <1>5, <1>6, <2>1, <2>2, <3>1 DEF RInv, ReceiptsTellHistory
    <2>3. CASE i = n + 1
      <3>1. \A j \in 1..i : j \in 1..n \/ j = n + 1
        BY <1>4, <2>3
      <3>2. Rests(chain'[i].content_hash)
        BY <1>2, <1>5, <2>3 DEF Rests
      <3>. QED BY <1>2, <1>5, <1>6, <2>1, <2>3, <3>1, <3>2
    <2>. QED BY <1>4, <2>2, <2>3
  <1>9. ReceiptsTellHistory'
    BY <1>5, <1>6, <1>7, <1>8 DEF ReceiptsTellHistory, Chain!Verify, Chain!EntryVerifies
  <1>10. EvidenceOK'
    BY DEF RInv, EvidenceOK
  <1>11. ASSUME NEW i \in DOMAIN chain' PROVE Rests(chain[i].content_hash)'
    <2>1. Rests(chain'[i].content_hash)
      BY <1>5, <1>8
    <2>. QED BY <2>1, SupportStays DEF Rests
  <1>. QED BY <1>5, <1>6, <1>9, <1>10, <1>11 DEF RInv

\* Evidence submitted later takes nothing from the receipts made before.
LEMMA SubmitTells ==
    ASSUME RInv, NEW condition, NEW confidence, Submit(condition, confidence)
    PROVE  RInv'
  <1>. DEFINE n == Len(evidence)
              e == [Evidence!EvidenceEntry(condition, confidence) EXCEPT !.entry_id = next_evidence_id]
  <1>1. /\ evidence' = Append(evidence, e) /\ next_evidence_id' = next_evidence_id + 1
        /\ UNCHANGED <<chain, history>>
    BY DEF Submit, Evidence!AppendEvidence, outcomeVars
  <1>2. n \in Nat /\ DOMAIN evidence = 1..n /\ next_evidence_id = n + 1
    BY ListDomain DEF RInv, EvidenceOK
  <1>3. e.entry_id = n + 1
    BY <1>2 DEF Evidence!EvidenceEntry
  <1>. HIDE DEF e
  <1>4. /\ IsList(evidence') /\ Len(evidence') = n + 1 /\ DOMAIN evidence' = 1..(n + 1)
        /\ evidence'[n + 1] = e /\ \A i \in 1..n : evidence'[i] = evidence[i]
    BY <1>1, AppendToList DEF RInv, EvidenceOK
  <1>5. EvidenceOK'
    BY <1>1, <1>2, <1>3, <1>4 DEF RInv, EvidenceOK
  <1>6. ReceiptsTellHistory'
    BY <1>1 DEF RInv, ReceiptsTellHistory, Chain!Verify, Chain!EntryVerifies
  <1>7. ASSUME NEW i \in DOMAIN chain PROVE Rests(chain[i].content_hash)'
    <2>1. Rests(chain[i].content_hash)
      BY DEF RInv
    <2>2. DOMAIN evidence \subseteq DOMAIN evidence' /\ \A k \in DOMAIN evidence : evidence'[k] = evidence[k]
      BY <1>2, <1>4
    <2>. QED BY <1>1, <2>1, <2>2, SupportStays DEF Rests
  <1>. QED BY <1>1, <1>5, <1>6, <1>7 DEF RInv, IsList

\* No receipts, no history and no evidence at first.
LEMMA InitRInv == Init => RInv
  <1>. SUFFICES ASSUME Init PROVE RInv
    OBVIOUS
  <1>1. /\ chain = <<>> /\ history = <<>>
        /\ evidence = <<>> /\ next_evidence_id = 1
    BY DEF Init, Evidence!Init, Outcome!Init, Chain!Init
  <1>. QED BY <1>1 DEF RInv, EvidenceOK, IsList, ReceiptsTellHistory, Chain!Verify

\* Only evidence and the steps of the outcome touch what receipts rest on.
LEMMA StepRInv == RInv /\ [Next]_vars => RInv'
  <1>. SUFFICES ASSUME RInv, [Next]_vars PROVE RInv'
    OBVIOUS
  <1>1. ASSUME NEW condition, NEW confidence, Submit(condition, confidence)
        PROVE  RInv'
    BY <1>1, SubmitTells
  <1>2. ASSUME NEW outcome, Decide(outcome)
        PROVE  RInv'
    BY <1>2, StepTells DEF Decide, evidenceVars
  <1>3. ASSUME NEW h, NEW t, NEW reason, Reverse(h, reason, t) \/ Correct(reason)
        PROVE  RInv'
    BY <1>3, StepTells DEF Reverse, Correct, evidenceVars
  <1>4. CASE UNCHANGED <<chain, history, evidence, next_evidence_id>>
    <2>1. EvidenceOK'
      BY <1>4 DEF RInv, EvidenceOK
    <2>2. ReceiptsTellHistory'
      BY <1>4 DEF RInv, ReceiptsTellHistory, Chain!Verify, Chain!EntryVerifies
    <2>3. \A i \in DOMAIN chain : Rests(chain[i].content_hash)'
      BY <1>4, SupportStays DEF RInv, Rests
    <2>. QED BY <1>4, <2>1, <2>2, <2>3 DEF RInv
  <1>5. Move \/ Wait \/ (\E adapter : Settle(adapter)) \/ (\E reason : OtherReversed(reason))
          \/ (\E h, t : ReverseErr(h, t)) \/ UNCHANGED vars
        => UNCHANGED <<chain, history, evidence, next_evidence_id>>
    BY DEF Move, Wait, Settle, OtherReversed, ReverseErr, vars, outcomeVars, evidenceVars
  <1>. QED BY <1>1, <1>2, <1>3, <1>4, <1>5 DEF Next

\* What receipts say and rest on holds of every settlement.
LEMMA SpecRInv == Spec => []RInv
  BY InitRInv, StepRInv, PTL DEF Spec

\* The chain verifies and tells of every step of the outcome, in order, each
\* receipt over all the evidence of the ones before it.
THEOREM ReceiptsTell == Spec => []ReceiptsTellHistory
  <1>1. RInv => ReceiptsTellHistory
    BY DEF RInv
  <1>. QED BY <1>1, SpecRInv, PTL

\* The evidence a receipt of a verdict names supports that verdict for ever, though
\* more is submitted after it.
THEOREM VerdictsReplay == Spec => []VerdictReplays
  <1>1. RInv => VerdictReplays
    <2>. SUFFICES ASSUME RInv, NEW i \in DOMAIN chain, NEW r, r = chain[i].content_hash,
                         r.outcome \in {"Success", "Fail"},
                         NEW named, named = {k \in DOMAIN evidence : evidence[k].entry_id \in r.evidence}
                  PROVE  Cardinality(named) = Cardinality(r.evidence) /\ Supported(r.outcome, named)
      BY DEF VerdictReplays
    <2>1. Rests(r)
      BY DEF RInv
    <2>2. named = r.evidence
      BY <2>1 DEF RInv, EvidenceOK, Rests
    <2>. QED BY <2>1, <2>2 DEF Rests
  <1>. QED BY <1>1, SpecRInv, PTL
----------------------------------------------------------------------------
(***************************************************************************)
(* The books.  The parts of the payment are those SplitProofs is about, so *)
(* they are none below nothing and add up to the payment.  Place by place, *)
(* the movements of a settlement whose verdict is carried out are the      *)
(* hold, the parts, the parts taken back and the hold returned; the sums   *)
(* verify_balance() and net_balance() take over them are then given place  *)
(* by place, and shown to be those by induction (RunningIs).               *)
(***************************************************************************)
Split == INSTANCE SplitProofs
    WITH payment <- contract.payment, shares <- contract.shares,
         Payments <- Monies, Shares <- BasisPoints, MaxPayees <- Len(Payees)

\* The contract is one of the set, and its payment can be split.
ContractOK == contract \in Contracts /\ IsOk(SplitBps(contract.payment, contract.shares))

amount == contract.payment.amount_minor_units
currency == contract.payment.currency
partOf == [i \in 1..Len(Payees) |-> Parts[i].amount_minor_units]

\* The split of the contract is the one SplitProofs is about.
LEMMA SplitIsSplit ==
    /\ Split!outcome = SplitBps(contract.payment, contract.shares)
    /\ \A r : Split!IsOk(r) <=> IsOk(r)
    /\ \A x : Split!Fits(x) <=> Fits(x)
    /\ \A s : Split!Running(s) = Running(s)
    /\ \A x, c : Split!MoneyOf(x, c) = MoneyOf(x, c)
  <1>1. Split!outcome = SplitBps(contract.payment, contract.shares)
    BY DEF Split!outcome, Split!SplitBps, SplitBps, Split!SplitBpsIn, SplitBpsIn, Split!ValidShares, ValidShares,
       Split!Total, Total, Split!Running, Running, Split!Cut, Cut, Split!TruncDiv, TruncDiv,
       Split!Wrap, Wrap, Split!MinI64, MinI64, Split!Fits, Fits, Split!WithRemainder, WithRemainder,
       Split!MoneyOf, MoneyOf, Split!Ok, Ok, Split!Err, Err, Split!Panic, Panic
  <1>. QED BY <1>1 DEF Split!IsOk, IsOk, Split!Fits, Fits, Split!MinI64, MinI64, Split!Running, Running,
              Split!MoneyOf, MoneyOf

\* The parts of the contract's payment lie between nothing and the payment, one
\* by one and added up, and all of them together are the payment.
LEMMA PartsOfContract ==
    ASSUME OverflowChecks, ContractOK
    PROVE  /\ Len(Payees) \in Nat /\ Len(Payees) >= 1
           /\ amount \in Int /\ 0 <= amount /\ Fits(amount)
           /\ partOf \in Seq(Int) /\ Len(partOf) = Len(Payees)
           /\ \A i \in 1..Len(Payees) : /\ Parts[i] = MoneyOf(partOf[i], currency)
                                        /\ partOf[i] \in Int /\ 0 <= partOf[i] /\ partOf[i] <= amount
           /\ \A k \in 0..Len(Payees) : /\ Running(partOf)[k] \in Int
                                        /\ 0 <= Running(partOf)[k] /\ Running(partOf)[k] <= amount
           /\ Running(partOf)[0] = 0 /\ Running(partOf)[Len(Payees)] = amount
  <1>. DEFINE n == Len(Payees)
  <1>1. /\ contract.payment \in Monies /\ contract.shares \in Seq(BasisPoints)
        /\ Len(contract.shares) = n /\ amount >= 0
    BY ContractsAssumption DEF ContractOK, amount
  <1>2. /\ Split!PaymentSplitAssumption /\ Split!MoneyAssumption /\ Split!MachineIntAssumption
        /\ Split!InputOK /\ Split!IsOk(Split!outcome)
    <2>1. Monies = Split!Monies /\ BasisPoints = Split!BasisPoints
      BY DEF Monies, Split!Monies, BasisPoints, Split!BasisPoints, Currency, Split!Currency,
             Fits, Split!Fits, MinI64, Split!MinI64
    <2>2. Split!PaymentSplitAssumption /\ Split!MoneyAssumption /\ Split!MachineIntAssumption
      BY <2>1, MoneyAssumption, MachineIntAssumption
         DEF Split!PaymentSplitAssumption, Split!MoneyAssumption, Split!MachineIntAssumption
    <2>. QED BY <1>1, <2>1, <2>2, SplitIsSplit DEF Split!InputOK, ContractOK
  <1>3. /\ Split!parts \in Seq(Int) /\ Len(Split!parts) = n /\ 1 \in 1..n
        /\ Split!outcome.value = [i \in 1..n |-> Split!MoneyOf(Split!parts[i], currency)]
    BY <1>1, <1>2, Split!PartsAreCuts DEF currency
  <1>4. /\ \A i \in 1..n : Split!parts[i] \in Int
        /\ \A k \in 0..n : /\ Split!Within(Split!Running(Split!parts)[k])
                           /\ Split!Within(Split!total - Split!Running(Split!parts)[k])
    BY <1>1, <1>2, Split!PartsWithin
  <1>5. Split!total = amount /\ amount \in Int /\ Fits(amount) /\ n \in Nat
    BY <1>1, <1>3 DEF Split!total, amount, Monies
  <1>6. /\ Parts = [i \in 1..n |-> MoneyOf(Split!parts[i], currency)]
        /\ Parts = Split!outcome.value
    BY <1>3, SplitIsSplit DEF Parts
  <1>7. partOf = Split!parts
    <2>1. partOf = [i \in 1..n |-> Split!parts[i]]
      BY <1>6 DEF partOf, MoneyOf
    <2>. QED BY <1>3, <2>1
  <1>8. Split!Total(Split!parts) = Split!total
    BY <1>2, Split!PartsTotal
  <1>. HIDE DEF n
  <1>9. \A k \in 0..n : /\ Running(partOf)[k] \in Int
                        /\ 0 <= Running(partOf)[k] /\ Running(partOf)[k] <= amount
    BY <1>1, <1>4, <1>5, <1>7, SplitIsSplit DEF Split!Within
  <1>10. Running(partOf)[0] = 0 /\ Running(partOf)[n] = amount
    BY <1>3, <1>5, <1>7, <1>8, SplitIsSplit, RunningDef DEF Split!Total
  <1>11. ASSUME NEW i \in 1..n
         PROVE  /\ Parts[i] = MoneyOf(partOf[i], currency)
                /\ partOf[i] \in Int /\ 0 <= partOf[i] /\ partOf[i] <= amount
    <2>. DEFINE p == Split!parts[i]
    <2>1. p \in Int /\ Parts[i] = MoneyOf(partOf[i], currency) /\ partOf[i] = p
      BY <1>4, <1>6, <1>7
    <2>2. PICK a \in Int, b \in Int :
            /\ a = Running(partOf)[i - 1] /\ b = Running(partOf)[i]
            /\ 0 <= a /\ a <= amount /\ 0 <= b /\ b <= amount /\ b = a + p
      <3>1. i \in 0..n /\ i - 1 \in 0..n
        BY <1>5
      <3>2. Running(partOf)[i] = Running(partOf)[i - 1] + partOf[i]
        BY <1>3, <1>7, RunningDef
      <3>. QED BY <1>9, <2>1, <3>1, <3>2
    <2>3. p >= 0
      <3>1. amount * p >= 0
        BY <1>1, <1>2, <1>5, Split!PartsWithin
      <3>. HIDE DEF p
      <3>2. ASSUME p <= -1, amount >= 1 PROVE amount * p < 0
        BY <1>5, <2>1, <3>2
      <3>. QED BY <1>1, <1>5, <2>1, <2>2, <3>1, <3>2
    <2>. HIDE DEF p
    <2>. QED BY <2>1, <2>2, <2>3, <1>5
  <1>. QED BY <1>1, <1>3, <1>5, <1>7, <1>9, <1>10, <1>11 DEF n

\* The k-th movement is one of this agent, and changes its balance by d.
Moved(k, agent, d) ==
    /\ k \in DOMAIN money
    /\ money[k].agent_id = agent /\ money[k].amount.currency = currency
    /\ Ledger!Delta(money[k]) = d

\* What a movement made does to a balance.
LEMMA MovedWhat ==
    ASSUME MoneyFollowsOutcome, NEW k \in DOMAIN money, NEW agent, NEW x \in Int,
           NEW direction \in {"Credit", "Debit"},
           Due[k] = Movement(agent, direction, MoneyOf(x, currency))
    PROVE  Moved(k, agent, IF direction = "Credit" THEN x ELSE -x)
  <1>1. money[k] = [Movement(agent, direction, MoneyOf(x, currency)) EXCEPT !.entry_id = k]
    BY DEF MoneyFollowsOutcome
  <1>. QED BY <1>1 DEF Moved, Movement, MoneyOf, Ledger!Delta

\* The verdict's last movement is made.
Finished == current \in {"Success", "Fail", "Reversed"} /\ Len(money) = Len(Due)

\* How many payees are paid by then, be it for a while.
made == CASE current = "Success" -> Len(Payees) [] current = "Reversed" -> PayoutsMade [] OTHER -> 0

\* The books of a settlement whose movements are all made.
LEMMA FinishedMoves ==
    ASSUME OverflowChecks, IInv, ContractOK, Finished
    PROVE  /\ Len(money) \in Nat /\ DOMAIN money = 1..Len(money)
           /\ made \in 0..Len(Payees) /\ made \in Nat /\ (current = "Success" => made = Len(Payees))
           /\ Moved(1, Payer, -amount)
           /\ \A i \in 1..made : Moved(1 + i, Payees[i], partOf[i])
           /\ Len(money) = IF current = "Success" THEN made + 1 ELSE 2 * made + 2
           /\ current # "Success" =>
                 /\ \A i \in 1..made : Moved(made + 1 + i, Payees[made + 1 - i], -partOf[made + 1 - i])
                 /\ Moved(2 * made + 2, Payer, amount)
  <1>. DEFINE n == Len(Payees)
  <1>1. /\ MoneyFollowsOutcome /\ IsList(money)
        /\ Len(money) \in Nat /\ DOMAIN money = 1..Len(money) /\ Len(money) = Len(Due)
        /\ current \in {"Success", "Fail", "Reversed"}
    BY ListDomain DEF IInv, ListsOK, Finished
  <1>2. /\ n \in Nat /\ n >= 1 /\ amount \in Int
        /\ contract.payment = MoneyOf(amount, currency)
        /\ \A i \in 1..n : partOf[i] \in Int /\ Parts[i] = MoneyOf(partOf[i], currency)
    <2>1. contract.payment = MoneyOf(amount, currency)
      BY ContractsAssumption DEF ContractOK, Monies, MoneyOf, amount, currency
    <2>. QED BY <2>1, PartsOfContract
  <1>3. /\ Hold = Movement(Payer, "Debit", MoneyOf(amount, currency))
        /\ Returned = Movement(Payer, "Credit", MoneyOf(amount, currency))
        /\ \A i \in 1..n : /\ PaidTo(i) = Movement(Payees[i], "Credit", MoneyOf(partOf[i], currency))
                           /\ TakenFrom(i) = Movement(Payees[i], "Debit", MoneyOf(partOf[i], currency))
    BY <1>2 DEF Hold, Returned, PaidTo, TakenFrom
  <1>4. /\ made \in 0..n /\ made \in Nat /\ (current = "Success" => made = n)
        /\ Due[1] = Hold /\ Len(Due) >= 1
        /\ \A i \in 1..made : Due[1 + i] = PaidTo(i)
        /\ Len(Due) = IF current = "Success" THEN made + 1 ELSE 2 * made + 2
        /\ current # "Success" => /\ \A i \in 1..made : Due[made + 1 + i] = TakenFrom(made + 1 - i)
                                  /\ Due[2 * made + 2] = Returned
    <2>1. PICK k \in 0..n : DuePlaces(Due, current, k) /\ (current = "Reversed" => PayoutsMade = k)
      BY DueNow
    <2>2. CASE current = "Success"
      <3>1. made = n
        BY <2>2 DEF made
      <3>2. made \in 0..n /\ made \in Nat
        BY <1>2, <3>1
      <3>3. Len(Due) = n + 1 /\ Due[1] = Hold /\ Len(Due) >= 1 /\ \A i \in 1..n : Due[1 + i] = PaidTo(i)
        BY <2>1, <2>2 DEF DuePlaces
      <3>. QED BY <2>2, <3>1, <3>2, <3>3
    <2>3. CASE current = "Fail"
      <3>1. made = 0 /\ 2 * 0 + 2 = 2 /\ 1..0 = {}
        BY <2>3 DEF made
      <3>2. made \in 0..n
        BY <1>2, <3>1
      <3>3. Len(Due) = 2 /\ Due[2] = Returned /\ Due[1] = Hold
        BY <2>1, <2>3 DEF DuePlaces
      <3>. QED BY <2>3, <3>1, <3>2, <3>3
    <2>4. CASE current = "Reversed"
      <3>1. made = k /\ k \in Nat
        BY <1>2, <2>1, <2>4 DEF made
      <3>. QED BY <2>1, <2>4, <3>1 DEF DuePlaces
    <2>. QED BY <1>1, <2>2, <2>3, <2>4
  <1>. HIDE DEF n
  <1>5. Moved(1, Payer, -amount)
    <2>1. 1 \in DOMAIN money
      BY <1>1, <1>4
    <2>. QED BY <1>1, <1>2, <1>3, <1>4, <2>1, MovedWhat
  <1>6. ASSUME NEW i \in 1..made PROVE Moved(1 + i, Payees[i], partOf[i])
    <2>1. i \in 1..n /\ 1 + i \in DOMAIN money
      BY <1>1, <1>2, <1>4
    <2>. QED BY <1>1, <1>2, <1>3, <1>4, <2>1, MovedWhat
  <1>7. ASSUME current # "Success", NEW i \in 1..made
        PROVE  Moved(made + 1 + i, Payees[made + 1 - i], -partOf[made + 1 - i])
    <2>1. made + 1 - i \in 1..n /\ made + 1 + i \in DOMAIN money
      BY <1>1, <1>2, <1>4, <1>7
    <2>. QED BY <1>1, <1>2, <1>3, <1>4, <1>7, <2>1, MovedWhat
  <1>8. ASSUME current # "Success" PROVE Moved(2 * made + 2, Payer, amount)
    <2>1. 2 * made + 2 \in DOMAIN money
      BY <1>1, <1>4, <1>8
    <2>. QED BY <1>1, <1>2, <1>3, <1>4, <1>8, <2>1, MovedWhat
  <1>. QED BY <1>1, <1>4, <1>5, <1>6, <1>7, <1>8 DEF n

\* The sums of the ledger are those of Sums and MachineInt.
LEMMA LedgerSums ==
    /\ \A s : Ledger!Running(s) = Running(s)
    /\ \A s, S : Ledger!OnlyAt(s, S) = OnlyAt(s, S)
    /\ \A x : (Ledger!Fits(x) <=> Fits(x)) /\ Ledger!Wrap(x) = Wrap(x)
    /\ \A x : Ledger!Ok(x) = Ok(x) /\ Ledger!Ok(x).value = x
    /\ \A x, c : Ledger!MoneyOf(x, c).amount_minor_units = x
  BY DEF Ledger!Running, Running, Ledger!OnlyAt, OnlyAt, Ledger!Fits, Fits, Ledger!Wrap, Wrap,
     Ledger!MinI64, MinI64, Ledger!Ok, Ok, Ledger!MoneyOf

deltas == Ledger!Deltas

\* What each movement changes, over all of them and over some of them.
LEMMA FinishedDeltas ==
    ASSUME OverflowChecks, IInv, ContractOK, Finished, NEW S
    PROVE  /\ deltas \in Seq(Int) /\ Len(deltas) = Len(money)
           /\ \A k \in 1..Len(money) : deltas[k] = Ledger!Delta(money[k]) /\ Fits(deltas[k])
                                       /\ money[k].amount.currency = currency
           /\ OnlyAt(deltas, S) \in Seq(Int) /\ Len(OnlyAt(deltas, S)) = Len(money)
           /\ \A k \in 1..Len(money) : OnlyAt(deltas, S)[k] = IF k \in S THEN deltas[k] ELSE 0
  <1>. DEFINE m == made
              L == Len(money)
  <1>1. /\ L \in Nat /\ DOMAIN money = 1..L /\ m \in 0..Len(Payees) /\ m \in Nat
        /\ Moved(1, Payer, -amount)
        /\ \A i \in 1..m : Moved(1 + i, Payees[i], partOf[i])
        /\ L = IF current = "Success" THEN m + 1 ELSE 2 * m + 2
        /\ current # "Success" =>
              /\ \A i \in 1..m : Moved(m + 1 + i, Payees[m + 1 - i], -partOf[m + 1 - i])
              /\ Moved(2 * m + 2, Payer, amount)
    BY FinishedMoves
  <1>2. /\ amount \in Int /\ 0 <= amount /\ amount <= MaxI64
        /\ \A i \in 1..m : partOf[i] \in Int /\ 0 <= partOf[i] /\ partOf[i] <= amount
        /\ MinI64 = -MaxI64 - 1 /\ MaxI64 \in Int
    <2>1. \A i \in 1..m : i \in 1..Len(Payees)
      BY <1>1, PartsOfContract
    <2>. QED BY <2>1, PartsOfContract, MachineIntAssumption DEF Fits, MinI64
  <1>. HIDE DEF L, m
  <1>3. ASSUME NEW k \in 1..L
        PROVE  \E agent : \E d \in Int : Moved(k, agent, d) /\ -amount <= d /\ d <= amount
    <2>1. \/ k = 1
          \/ k - 1 \in 1..m
          \/ current # "Success" /\ k - (m + 1) \in 1..m
          \/ current # "Success" /\ k = 2 * m + 2
      BY <1>1
    <2>2. CASE k = 1
      BY <1>1, <1>2, <2>2
    <2>3. CASE k - 1 \in 1..m
      <3>. DEFINE i == k - 1
      <3>1. i \in 1..m /\ 1 + i = k
        BY <2>3
      <3>. HIDE DEF i
      <3>2. partOf[i] \in Int /\ -amount <= partOf[i] /\ partOf[i] <= amount
        BY <1>2, <3>1
      <3>3. Moved(1 + i, Payees[i], partOf[i])
        BY <1>1, <3>1
      <3>4. Moved(k, Payees[i], partOf[i])
        BY <3>1, <3>3
      <3>. QED BY <3>2, <3>4
    <2>4. CASE current # "Success" /\ k - (m + 1) \in 1..m
      <3>. DEFINE i == k - (m + 1)
                  j == m + 1 - i
      <3>1. i \in 1..m /\ m + 1 + i = k /\ j \in 1..m
        BY <1>1, <2>4
      <3>2. Moved(m + 1 + i, Payees[j], -partOf[j])
        BY <1>1, <2>4, <3>1
      <3>. HIDE DEF i, j
      <3>3. -partOf[j] \in Int /\ -amount <= -partOf[j] /\ -partOf[j] <= amount
        BY <1>2, <3>1
      <3>4. Moved(k, Payees[j], -partOf[j])
        BY <3>1, <3>2
      <3>. QED BY <3>3, <3>4
    <2>5. CASE current # "Success" /\ k = 2 * m + 2
      BY <1>1, <1>2, <2>5
    <2>. QED BY <2>1, <2>2, <2>3, <2>4, <2>5
  <1>4. ASSUME NEW k \in 1..L
        PROVE  /\ Ledger!Delta(money[k]) \in Int /\ Fits(Ledger!Delta(money[k]))
               /\ money[k].amount.currency = currency
    <2>1. PICK agent : \E d \in Int : Moved(k, agent, d) /\ -amount <= d /\ d <= amount
      BY <1>3
    <2>2. PICK d \in Int : Moved(k, agent, d) /\ -amount <= d /\ d <= amount
      BY <2>1
    <2>3. d \in Int /\ Fits(d)
      BY <1>2, <2>2 DEF Fits
    <2>. QED BY <2>2, <2>3 DEF Moved
  <1>5. deltas = [k \in 1..L |-> Ledger!Delta(money[k])]
    BY <1>1 DEF deltas, Ledger!Deltas
  <1>6. /\ deltas \in Seq(Int) /\ Len(deltas) = L /\ DOMAIN deltas = 1..L
        /\ \A k \in 1..L : deltas[k] \in Int /\ deltas[k] = Ledger!Delta(money[k])
    BY <1>1, <1>4, <1>5
  <1>7. OnlyAt(deltas, S) = [k \in 1..L |-> IF k \in S THEN deltas[k] ELSE 0]
    BY <1>6 DEF OnlyAt
  <1>8. /\ OnlyAt(deltas, S) \in Seq(Int) /\ Len(OnlyAt(deltas, S)) = L
        /\ \A k \in 1..L : OnlyAt(deltas, S)[k] = IF k \in S THEN deltas[k] ELSE 0
    BY <1>1, <1>6, <1>7
  <1>. QED BY <1>4, <1>6, <1>8 DEF L

\* verify_balance() of a ledger in one currency, whose sums are f.
LEMMA VerifyIs ==
    ASSUME OverflowChecks, IInv, ContractOK, Finished,
           NEW f, f[0] = 0, \A k \in 1..Len(money) : f[k] = f[k - 1] + deltas[k] /\ Fits(f[k]),
           f[Len(money)] = 0
    PROVE  Ledger!VerifyBalance = Ok(TRUE)
  <1>. DEFINE L == Len(money)
  <1>1. L \in Nat /\ DOMAIN money = 1..L
    BY FinishedMoves
  <1>2. /\ deltas \in Seq(Int) /\ Len(deltas) = Len(money)
        /\ \A k \in 1..L : /\ deltas[k] = Ledger!Delta(money[k]) /\ Fits(deltas[k])
                           /\ money[k].amount.currency = currency
    BY FinishedDeltas
  <1>3. Fits(0) /\ Wrap(0) = 0
    <2>1. 0 \in Int /\ Fits(0)
      BY MachineIntAssumption DEF Fits, MinI64
    <2>. QED BY <2>1, WrapFits
  <1>4. ASSUME NEW c \in Ledger!Currency
        PROVE  /\ \A k \in 1..L : Ledger!Fits(Ledger!Accumulator(c)[k])
               /\ Ledger!Accumulator(c)[L] = 0
    <2>. DEFINE S == Ledger!EntriesIn(c)
                s == OnlyAt(deltas, S)
    <2>1. Ledger!Accumulator(c) = Running(s)
      BY LedgerSums DEF Ledger!Accumulator, deltas
    <2>2. s \in Seq(Int) /\ Len(s) = L /\ \A k \in 1..L : s[k] = IF k \in S THEN deltas[k] ELSE 0
      BY FinishedDeltas
    <2>3. CASE c = currency
      <3>1. \A k \in 1..L : k \in S
        BY <1>1, <1>2, <2>3 DEF Ledger!EntriesIn
      <3>. HIDE DEF s
      <3>2. \A k \in 1..Len(s) : f[k] = f[k - 1] + s[k]
        BY <2>2, <3>1
      <3>3. \A k \in 0..Len(s) : Running(s)[k] = f[k]
        BY <2>2, <3>2, RunningIs
      <3>. HIDE DEF L
      <3>4. L \in 0..L /\ \A k \in 1..L : k \in 0..L
        BY <1>1
      <3>. QED BY <2>1, <2>2, <3>3, <3>4, LedgerSums DEF L
    <2>4. CASE c # currency
      <3>1. \A k \in 1..L : k \notin S
        BY <1>1, <1>2, <2>4 DEF Ledger!EntriesIn
      <3>. DEFINE g == [k \in 0..L |-> 0]
      <3>. HIDE DEF s, L
      <3>2. g[0] = 0 /\ \A k \in 1..Len(s) : g[k] = g[k - 1] + s[k]
        BY <1>1, <2>2, <3>1
      <3>. HIDE DEF g
      <3>3. \A k \in 0..L : Running(s)[k] = g[k]
        BY <2>2, <3>2, RunningIs
      <3>4. L \in 0..L /\ \A k \in 1..L : k \in 0..L
        BY <1>1
      <3>5. \A k \in 0..L : Running(s)[k] = 0
        BY <3>3 DEF g
      <3>. QED BY <1>3, <2>1, <3>4, <3>5, LedgerSums
    <2>. QED BY <2>3, <2>4
  <1>5. ~Ledger!BalanceOverflows
    BY <1>1, <1>2, <1>4, LedgerSums DEF Ledger!BalanceOverflows, deltas
  <1>6. \A c \in Ledger!Currency : Ledger!Wrap(Ledger!Accumulator(c)[L]) = 0
    BY <1>3, <1>4, LedgerSums
  <1>7. (\A c \in Ledger!Currency : Ledger!Wrap(Ledger!Accumulator(c)[L]) = 0) = TRUE
    BY <1>6
  <1>. QED BY <1>5, <1>7, LedgerSums DEF Ledger!VerifyBalance

\* net_balance() of a party of such a ledger, where the sums of its movements are f.
LEMMA NetIs ==
    ASSUME OverflowChecks, IInv, ContractOK, Finished,
           NEW agent, \E k \in 1..Len(money) : money[k].agent_id = agent,
           NEW f, f[0] = 0,
           \A k \in 1..Len(money) :
              /\ f[k] = f[k - 1] + IF money[k].agent_id = agent THEN deltas[k] ELSE 0
              /\ Fits(f[k])
    PROVE  Ledger!NetBalance(agent).value.amount_minor_units = f[Len(money)]
  <1>. DEFINE L == Len(money)
              own == Ledger!EntriesForAgent(agent)
              s == OnlyAt(deltas, own)
              first == Ledger!First(own)
  <1>1. L \in Nat /\ DOMAIN money = 1..L
    BY FinishedMoves
  <1>2. \A k \in 1..L : money[k].amount.currency = currency
    BY FinishedDeltas
  <1>3. s \in Seq(Int) /\ Len(s) = L /\ \A k \in 1..L : s[k] = IF k \in own THEN deltas[k] ELSE 0
    BY FinishedDeltas
  <1>4. /\ own # {} /\ own \subseteq 1..L
        /\ \A k \in 1..L : k \in own <=> money[k].agent_id = agent
    BY <1>1 DEF Ledger!EntriesForAgent
  <1>5. first \in own
    <2>1. \E i \in own : \A j \in own : i <= j
      <3>1. own \in SUBSET Nat
        BY <1>1, <1>4
      <3>. HIDE DEF own
      <3>. QED BY <1>4, <3>1, HasLeast
    <2>. QED BY <2>1 DEF Ledger!First
  <1>. HIDE DEF own, s
  <1>6. \A k \in 0..L : Running(s)[k] = f[k]
    <2>1. \A k \in 1..Len(s) : f[k] = f[k - 1] + s[k]
      BY <1>3, <1>4
    <2>. QED BY <1>3, <2>1, RunningIs
  <1>. DEFINE c == money[first].amount.currency
  <1>7. own \ Ledger!EntriesIn(c) = {}
    BY <1>1, <1>2, <1>4, <1>5 DEF Ledger!EntriesIn
  <1>8. {i \in own : ~Ledger!Fits(Ledger!Running(Ledger!OnlyAt(Ledger!Deltas, own))[i])} = {}
    <2>1. Ledger!Running(Ledger!OnlyAt(Ledger!Deltas, own)) = Running(s)
      BY LedgerSums DEF s, deltas
    <2>2. \A k \in 1..L : k \in 0..L
      BY <1>1
    <2>3. \A i \in own : Fits(Running(s)[i])
      BY <1>4, <1>6, <2>2
    <2>. QED BY <2>1, <2>3, LedgerSums
  <1>9. Ledger!NetBalance(agent) = Ledger!Ok(Ledger!MoneyOf(Running(s)[L], c))
    <2>1. Ledger!Running(Ledger!OnlyAt(Ledger!Deltas, own)) = Running(s)
      BY LedgerSums DEF s, deltas
    <2>. QED BY <1>4, <1>7, <1>8, <2>1 DEF Ledger!NetBalance, own
  <1>10. L \in 0..L
    BY <1>1
  <1>. QED BY <1>6, <1>9, <1>10, LedgerSums

\* The contract is one of the set whose payment can be split, throughout.
LEMMA SpecContractOK == Spec => []ContractOK
  <1>1. Init => ContractOK
    BY DEF Init, ContractOK
  <1>2. ContractOK /\ [Next]_vars => ContractOK'
    <2>1. [Next]_vars => UNCHANGED contract
      BY DEF Next, vars, Move, Submit, Decide, Settle, Wait, Reverse, ReverseErr, Correct, OtherReversed
    <2>2. ContractOK /\ UNCHANGED contract => ContractOK'
      BY DEF ContractOK
    <2>. QED BY <2>1, <2>2
  <1>. QED BY <1>1, <1>2, PTL DEF Spec

\* Where in the ledger the k-th movement stands: the hold, a payout, a payout
\* taken back, the return of the hold.
Shape(k) ==
    \/ k = 1
    \/ k \in 2..(made + 1)
    \/ current # "Success" /\ k \in (made + 2)..(2 * made + 1)
    \/ current # "Success" /\ k = 2 * made + 2

\* Each movement of a finished settlement, by its place.
LEMMA FinishedPlaces ==
    ASSUME OverflowChecks, IInv, ContractOK, Finished, NEW k \in 1..Len(money)
    PROVE  /\ Shape(k)
           /\ k = 1 => money[k].agent_id = Payer /\ deltas[k] = -amount
           /\ k \in 2..(made + 1) =>
                 /\ k - 1 \in 1..made
                 /\ money[k].agent_id = Payees[k - 1] /\ deltas[k] = partOf[k - 1]
           /\ current # "Success" /\ k \in (made + 2)..(2 * made + 1) =>
                 /\ 2 * made + 2 - k \in 1..made
                 /\ money[k].agent_id = Payees[2 * made + 2 - k]
                 /\ deltas[k] = -partOf[2 * made + 2 - k]
           /\ current # "Success" /\ k = 2 * made + 2 =>
                 money[k].agent_id = Payer /\ deltas[k] = amount
  <1>. DEFINE m == made
              L == Len(money)
  <1>1. /\ L \in Nat /\ DOMAIN money = 1..L /\ m \in Nat
        /\ Moved(1, Payer, -amount)
        /\ \A i \in 1..m : Moved(1 + i, Payees[i], partOf[i])
        /\ L = IF current = "Success" THEN m + 1 ELSE 2 * m + 2
        /\ current # "Success" =>
              /\ \A i \in 1..m : Moved(m + 1 + i, Payees[m + 1 - i], -partOf[m + 1 - i])
              /\ Moved(2 * m + 2, Payer, amount)
    BY FinishedMoves
  <1>2. \A agent, d : Moved(k, agent, d) => money[k].agent_id = agent /\ deltas[k] = d
    BY FinishedDeltas DEF Moved
  <1>3. k \in 1..L
    OBVIOUS
  <1>. HIDE DEF m, L
  <1>4. Shape(k)
    <2>1. \/ k = 1
          \/ k \in 2..(m + 1)
          \/ current # "Success" /\ k \in (m + 2)..(2 * m + 1)
          \/ current # "Success" /\ k = 2 * m + 2
      BY ONLY <1>1, <1>3
    <2>. QED BY <2>1 DEF Shape, m
  <1>5. ASSUME k \in 2..(m + 1)
        PROVE  /\ k - 1 \in 1..m
               /\ money[k].agent_id = Payees[k - 1] /\ deltas[k] = partOf[k - 1]
    <2>. DEFINE i == k - 1
    <2>1. i \in 1..m /\ 1 + i = k
      BY <1>1, <1>5
    <2>. HIDE DEF i
    <2>2. Moved(1 + i, Payees[i], partOf[i])
      BY <1>1, <2>1
    <2>3. money[k].agent_id = Payees[i] /\ deltas[k] = partOf[i]
      BY <1>2, <2>1, <2>2
    <2>. QED BY <2>1, <2>3 DEF i
  <1>6. ASSUME current # "Success", k \in (m + 2)..(2 * m + 1)
        PROVE  /\ 2 * m + 2 - k \in 1..m
               /\ money[k].agent_id = Payees[2 * m + 2 - k] /\ deltas[k] = -partOf[2 * m + 2 - k]
    <2>. DEFINE i == k - (m + 1)
                j == 2 * m + 2 - k
    <2>1. i \in 1..m /\ m + 1 + i = k /\ m + 1 - i = j /\ j \in 1..m
      BY <1>1, <1>6
    <2>. HIDE DEF i, j
    <2>2. Moved(m + 1 + i, Payees[m + 1 - i], -partOf[m + 1 - i])
      BY <1>1, <1>6, <2>1
    <2>3. money[k].agent_id = Payees[j] /\ deltas[k] = -partOf[j]
      BY <1>2, <2>1, <2>2
    <2>. QED BY <2>1, <2>3 DEF j
  <1>7. ASSUME current # "Success", k = 2 * m + 2
        PROVE  money[k].agent_id = Payer /\ deltas[k] = amount
    BY <1>1, <1>2, <1>7
  <1>8. k = 1 => money[k].agent_id = Payer /\ deltas[k] = -amount
    BY <1>1, <1>2
  <1>. QED BY <1>4, <1>5, <1>6, <1>7, <1>8 DEF m

\* verify_balance() of the books of a finished settlement.
LEMMA FinishedVerifies ==
    ASSUME OverflowChecks, IInv, ContractOK, Finished
    PROVE  Ledger!VerifyBalance = Ok(TRUE)
  <1>. DEFINE n == Len(Payees)
              m == made
              L == Len(money)
              r == Running(partOf)
              f == [k \in 0..L |->
                      IF k = 0 \/ k = 2 * m + 2 THEN 0
                      ELSE IF k <= m + 1 THEN r[k - 1] - amount
                      ELSE r[2 * m + 1 - k] - amount]
  <1>1. /\ n \in Nat /\ amount \in Int /\ 0 <= amount /\ amount <= MaxI64
        /\ \A i \in 1..n : partOf[i] \in Int /\ r[i] = r[i - 1] + partOf[i]
        /\ \A i \in 0..n : r[i] \in Int /\ 0 <= r[i] /\ r[i] <= amount
        /\ r[0] = 0 /\ r[n] = amount
        /\ MaxI64 \in Nat /\ MinI64 = -MaxI64 - 1
    BY PartsOfContract, RunningDef, MachineIntAssumption DEF Fits, MinI64
  <1>2. /\ L \in Nat /\ m \in Nat /\ m <= n
        /\ L = IF current = "Success" THEN m + 1 ELSE 2 * m + 2
        /\ current = "Success" => m = n
    BY <1>1, FinishedMoves
  <1>. HIDE DEF n, m, L, r
  <1>3. /\ f[0] = 0 /\ f[L] = 0
        /\ \A k \in 0..L : f[k] = IF k = 0 \/ k = 2 * m + 2 THEN 0
                                  ELSE IF k <= m + 1 THEN r[k - 1] - amount
                                  ELSE r[2 * m + 1 - k] - amount
    <2>1. f[L] = 0
      <3>1. CASE current = "Success"
        <4>1. L \in 0..L /\ L # 0 /\ L # 2 * m + 2 /\ L <= m + 1 /\ L - 1 = n
          BY <1>1, <1>2, <3>1
        <4>2. f[L] = r[n] - amount
          BY <4>1
        <4>. QED BY <1>1, <4>2
      <3>2. CASE current # "Success"
        BY <1>1, <1>2, <3>2
      <3>. QED BY <3>1, <3>2
    <2>2. f[0] = 0
      BY <1>2
    <2>. QED BY <2>1, <2>2
  <1>. HIDE DEF f
  <1>4. ASSUME NEW k \in 1..L PROVE f[k] = f[k - 1] + deltas[k] /\ Fits(f[k])
    <2>0. k \in 0..L /\ k - 1 \in 0..L
      BY <1>2
    <2>1. /\ Shape(k)
          /\ k = 1 => deltas[k] = -amount
          /\ k \in 2..(m + 1) => k - 1 \in 1..m /\ deltas[k] = partOf[k - 1]
          /\ current # "Success" /\ k \in (m + 2)..(2 * m + 1) =>
                2 * m + 2 - k \in 1..m /\ deltas[k] = -partOf[2 * m + 2 - k]
          /\ current # "Success" /\ k = 2 * m + 2 => deltas[k] = amount
      BY FinishedPlaces DEF m, L
    <2>2. CASE k = 1
      <3>1. f[k] = r[0] - amount /\ f[k - 1] = 0
        BY <1>1, <1>2, <1>3, <2>0, <2>2
      <3>. QED BY <1>1, <2>1, <2>2, <3>1 DEF Fits
    <2>3. CASE k \in 2..(m + 1)
      <3>. DEFINE i == k - 1
      <3>1. /\ i \in 1..n /\ i \in 0..n /\ i - 1 \in 0..n /\ k = i + 1 /\ deltas[k] = partOf[i]
            /\ k <= m + 1 /\ k - 1 <= m + 1 /\ k # 2 * m + 2 /\ k - 1 # 2 * m + 2
        BY <1>1, <1>2, <2>1, <2>3
      <3>. HIDE DEF i
      <3>2. f[k] = r[i] - amount /\ f[k - 1] = r[i - 1] - amount
        <4>1. k # 0 /\ k - 1 # 0 /\ k - 1 = i /\ (k - 1) - 1 = i - 1
          BY <2>3, <3>1
        <4>. QED BY <1>3, <2>0, <3>1, <4>1
      <3>. QED BY <1>1, <3>1, <3>2 DEF Fits
    <2>4. CASE current # "Success" /\ k \in (m + 2)..(2 * m + 1)
      <3>. DEFINE j == 2 * m + 2 - k
      <3>1. /\ j \in 1..n /\ j \in 0..n /\ j - 1 \in 0..n /\ deltas[k] = -partOf[j]
            /\ k = 2 * m + 2 - j /\ ~(k <= m + 1) /\ 2 * m + 1 - k = j - 1
            /\ k # 0 /\ k - 1 # 0 /\ k # 2 * m + 2 /\ k - 1 # 2 * m + 2
        BY <1>1, <1>2, <2>1, <2>4
      <3>2. f[k] = r[j - 1] - amount
        BY <1>3, <2>0, <3>1
      <3>3. f[k - 1] = r[j] - amount
        <4>1. CASE k = m + 2
          <5>1. k - 1 <= m + 1 /\ (k - 1) - 1 = j
            BY <1>2, <3>1, <4>1
          <5>. QED BY <1>3, <2>0, <3>1, <5>1
        <4>2. CASE k # m + 2
          <5>1. ~(k - 1 <= m + 1) /\ 2 * m + 1 - (k - 1) = j
            BY <1>2, <2>4, <3>1, <4>2
          <5>. QED BY <1>3, <2>0, <3>1, <5>1
        <4>. QED BY <4>1, <4>2
      <3>. HIDE DEF j
      <3>. QED BY <1>1, <3>1, <3>2, <3>3 DEF Fits
    <2>5. CASE current # "Success" /\ k = 2 * m + 2
      <3>1. f[k] = 0
        BY <1>3, <2>0, <2>5
      <3>2. f[k - 1] = r[0] - amount
        <4>1. k - 1 # 0 /\ k - 1 # 2 * m + 2
          BY <1>2, <2>5
        <4>2. CASE m = 0
          <5>1. k - 1 <= m + 1 /\ (k - 1) - 1 = 0
            BY <2>5, <4>2
          <5>. QED BY <1>3, <2>0, <4>1, <5>1
        <4>3. CASE m # 0
          <5>1. ~(k - 1 <= m + 1) /\ 2 * m + 1 - (k - 1) = 0
            BY <1>2, <2>5, <4>3
          <5>. QED BY <1>3, <2>0, <4>1, <5>1
        <4>. QED BY <4>2, <4>3
      <3>. QED BY <1>1, <2>1, <2>5, <3>1, <3>2 DEF Fits
    <2>. QED BY <2>1, <2>2, <2>3, <2>4, <2>5 DEF Shape, m
  <1>. QED BY <1>3, <1>4, VerifyIs DEF L

\* The payer is down the payment after a success, and by nothing otherwise.
LEMMA FinishedPayer ==
    ASSUME OverflowChecks, IInv, ContractOK, Finished
    PROVE  /\ Ledger!EntriesForAgent(Payer) # {}
           /\ Ledger!NetBalance(Payer).value.amount_minor_units =
                 IF current = "Success" THEN -amount ELSE 0
  <1>. DEFINE m == made
              L == Len(money)
              f == [k \in 0..L |->
                      IF k = 0 \/ (current # "Success" /\ k = L) THEN 0 ELSE -amount]
  <1>1. /\ amount \in Int /\ 0 <= amount /\ amount <= MaxI64
        /\ MaxI64 \in Nat /\ MinI64 = -MaxI64 - 1
    BY PartsOfContract, MachineIntAssumption DEF Fits, MinI64
  <1>2. /\ L \in Nat /\ m \in Nat /\ DOMAIN money = 1..L
        /\ L = IF current = "Success" THEN m + 1 ELSE 2 * m + 2
        /\ \A i \in 1..m : Payees[i] # Payer
    <2>1. /\ L \in Nat /\ m \in 0..Len(Payees) /\ m \in Nat /\ DOMAIN money = 1..L
          /\ L = IF current = "Success" THEN m + 1 ELSE 2 * m + 2
      BY FinishedMoves
    <2>2. \A i \in 1..Len(Payees) : Payees[i] # Payer
      BY SettlementAssumption, ContractsAssumption
    <2>3. \A i \in 1..m : i \in 1..Len(Payees)
      BY <2>1, SettlementAssumption
    <2>. QED BY <2>1, <2>2, <2>3
  <1>. HIDE DEF m, L
  <1>3. /\ f[0] = 0 /\ f[L] = IF current = "Success" THEN -amount ELSE 0
        /\ \A k \in 0..L : f[k] = IF k = 0 \/ (current # "Success" /\ k = L) THEN 0 ELSE -amount
    BY <1>1, <1>2
  <1>. HIDE DEF f
  <1>4. ASSUME NEW k \in 1..L
        PROVE  /\ f[k] = f[k - 1] + IF money[k].agent_id = Payer THEN deltas[k] ELSE 0
               /\ Fits(f[k])
    <2>0. k \in 0..L /\ k - 1 \in 0..L
      BY <1>2
    <2>1. /\ Shape(k)
          /\ k = 1 => money[k].agent_id = Payer /\ deltas[k] = -amount
          /\ k \in 2..(m + 1) => money[k].agent_id # Payer
          /\ current # "Success" /\ k \in (m + 2)..(2 * m + 1) => money[k].agent_id # Payer
          /\ current # "Success" /\ k = 2 * m + 2 => money[k].agent_id = Payer /\ deltas[k] = amount
      BY <1>2, FinishedPlaces DEF m, L
    <2>2. Fits(f[k])
      BY <1>1, <1>3, <2>0 DEF Fits
    <2>3. f[k] = f[k - 1] + IF money[k].agent_id = Payer THEN deltas[k] ELSE 0
      <3>1. CASE k = 1
        <4>1. f[k] = -amount /\ f[k - 1] = 0
          BY <1>2, <1>3, <2>0, <3>1
        <4>. QED BY <1>1, <2>1, <3>1, <4>1
      <3>2. CASE money[k].agent_id # Payer /\ k - 1 # 0 /\ ~(current # "Success" /\ k = L)
        <4>1. f[k] = -amount /\ f[k - 1] = -amount
          BY <1>2, <1>3, <2>0, <3>2
        <4>. QED BY <1>1, <3>2, <4>1
      <3>3. CASE current # "Success" /\ k = 2 * m + 2
        <4>1. k = L /\ k - 1 # 0 /\ k - 1 # L
          BY <1>2, <3>3
        <4>2. f[k] = 0 /\ f[k - 1] = -amount
          BY <1>3, <2>0, <3>3, <4>1
        <4>. QED BY <1>1, <2>1, <3>3, <4>2
      <3>4. CASE k \in 2..(m + 1) \/ (current # "Success" /\ k \in (m + 2)..(2 * m + 1))
        <4>1. k - 1 # 0 /\ ~(current # "Success" /\ k = L)
          BY <1>2, <3>4
        <4>. QED BY <2>1, <3>2, <3>4, <4>1
      <3>. QED BY <2>1, <3>1, <3>3, <3>4 DEF Shape, m
    <2>. QED BY <2>2, <2>3
  <1>5. 1 \in 1..L /\ money[1].agent_id = Payer
    <2>1. 1 \in 1..L
      BY <1>2
    <2>. QED BY <2>1, FinishedPlaces DEF L
  <1>6. Ledger!EntriesForAgent(Payer) # {}
    BY <1>2, <1>5 DEF Ledger!EntriesForAgent
  <1>. QED BY <1>3, <1>4, <1>5, <1>6, NetIs DEF L

\* A payee that was paid has its part after a success, and nothing otherwise.
LEMMA FinishedPayee ==
    ASSUME OverflowChecks, IInv, ContractOK, Finished, NEW j \in 1..made
    PROVE  /\ Ledger!EntriesForAgent(Payees[j]) # {}
           /\ Ledger!NetBalance(Payees[j]).value.amount_minor_units =
                 IF current = "Success" THEN partOf[j] ELSE 0
  <1>. DEFINE m == made
              L == Len(money)
              f == [k \in 0..L |-> IF j < k /\ k <= 2 * m + 1 - j THEN partOf[j] ELSE 0]
  <1>1. /\ L \in Nat /\ m \in Nat /\ DOMAIN money = 1..L
        /\ L = IF current = "Success" THEN m + 1 ELSE 2 * m + 2
        /\ j \in 1..m /\ \A i \in 1..m : i \in 1..Len(Payees)
    BY FinishedMoves, SettlementAssumption
  <1>2. /\ amount \in Int /\ amount <= MaxI64
        /\ partOf[j] \in Int /\ 0 <= partOf[j] /\ partOf[j] <= amount
        /\ MaxI64 \in Nat /\ MinI64 = -MaxI64 - 1
        /\ Payees[j] # Payer /\ \A i \in 1..m : Payees[i] = Payees[j] => i = j
    BY <1>1, PartsOfContract, MachineIntAssumption, SettlementAssumption, ContractsAssumption
       DEF Fits, MinI64
  <1>. HIDE DEF m, L
  <1>3. /\ f[0] = 0 /\ f[L] = IF current = "Success" THEN partOf[j] ELSE 0
        /\ \A k \in 0..L : f[k] = IF j < k /\ k <= 2 * m + 1 - j THEN partOf[j] ELSE 0
    BY <1>1, <1>2
  <1>. HIDE DEF f
  <1>4. ASSUME NEW k \in 1..L
        PROVE  /\ f[k] = f[k - 1] + IF money[k].agent_id = Payees[j] THEN deltas[k] ELSE 0
               /\ Fits(f[k])
    <2>0. k \in 0..L /\ k - 1 \in 0..L
      BY <1>1
    <2>1. /\ Shape(k)
          /\ k = 1 => money[k].agent_id = Payer
          /\ k \in 2..(m + 1) =>
                /\ k - 1 \in 1..m
                /\ money[k].agent_id = Payees[k - 1] /\ deltas[k] = partOf[k - 1]
          /\ current # "Success" /\ k \in (m + 2)..(2 * m + 1) =>
                /\ 2 * m + 2 - k \in 1..m
                /\ money[k].agent_id = Payees[2 * m + 2 - k]
                /\ deltas[k] = -partOf[2 * m + 2 - k]
          /\ current # "Success" /\ k = 2 * m + 2 => money[k].agent_id = Payer
      BY FinishedPlaces DEF m, L
    <2>2. Fits(f[k])
      BY <1>2, <1>3, <2>0 DEF Fits
    <2>3. CASE k = 1 \/ (k = 2 * m + 2 /\ current # "Success")
      BY <1>1, <1>2, <1>3, <2>0, <2>1, <2>2, <2>3
    <2>4. CASE k \in 2..(m + 1)
      <3>1. CASE k - 1 = j
        BY <1>1, <1>2, <1>3, <2>0, <2>1, <2>2, <2>4, <3>1
      <3>2. CASE k - 1 # j
        <4>1. money[k].agent_id # Payees[j]
          BY <1>2, <2>1, <2>4, <3>2
        <4>2. f[k] = f[k - 1]
          BY <1>1, <1>3, <2>0, <2>4, <3>2
        <4>3. f[k - 1] \in Int /\ f[k - 1] + 0 = f[k - 1]
          BY <1>2, <1>3, <2>0
        <4>. QED BY <2>2, <4>1, <4>2, <4>3, Zenon
      <3>. QED BY <3>1, <3>2
    <2>5. CASE k \in (m + 2)..(2 * m + 1) /\ current # "Success"
      <3>1. CASE 2 * m + 2 - k = j
        <4>1. money[k].agent_id = Payees[j] /\ deltas[k] = -partOf[j]
          BY <2>1, <2>5, <3>1
        <4>2. f[k] = 0 /\ f[k - 1] = partOf[j]
          BY <1>1, <1>3, <2>0, <2>5, <3>1
        <4>. QED BY <1>2, <2>2, <4>1, <4>2
      <3>2. CASE 2 * m + 2 - k # j
        <4>1. money[k].agent_id # Payees[j]
          BY <1>2, <2>1, <2>5, <3>2
        <4>2. k # 2 * m + 2 - j
          BY <1>1, <2>5, <3>2
        <4>3. f[k] = f[k - 1]
          BY <1>1, <1>3, <2>0, <2>5, <4>2
        <4>4. f[k - 1] \in Int /\ f[k - 1] + 0 = f[k - 1]
          BY <1>2, <1>3, <2>0
        <4>. QED BY <2>2, <4>1, <4>3, <4>4, Zenon
      <3>. QED BY <3>1, <3>2
    <2>. QED BY <2>1, <2>3, <2>4, <2>5 DEF Shape, m
  <1>5. \E k \in 1..L : money[k].agent_id = Payees[j]
    <2>. DEFINE k == j + 1
    <2>1. k \in 1..L /\ k \in 2..(m + 1) /\ k - 1 = j
      BY <1>1
    <2>. HIDE DEF k
    <2>2. money[k].agent_id = Payees[j]
      BY <2>1, FinishedPlaces DEF m, L
    <2>. QED BY <2>1, <2>2
  <1>6. Ledger!EntriesForAgent(Payees[j]) # {}
    BY <1>1, <1>5 DEF Ledger!EntriesForAgent
  <1>. QED BY <1>3, <1>4, <1>5, <1>6, NetIs DEF L

\* A payee a reversal came before has no movements.
LEMMA UnpaidPayee ==
    ASSUME OverflowChecks, IInv, ContractOK, Finished, NEW j \in 1..Len(Payees), j \notin 1..made
    PROVE  Ledger!EntriesForAgent(Payees[j]) = {} /\ current # "Success"
  <1>. DEFINE m == made
              L == Len(money)
  <1>1. /\ DOMAIN money = 1..L /\ (current = "Success" => m = Len(Payees))
        /\ \A i \in 1..m : i \in 1..Len(Payees)
    BY FinishedMoves, SettlementAssumption
  <1>2. Payees[j] # Payer /\ \A i \in 1..m : Payees[i] # Payees[j]
    BY <1>1, SettlementAssumption, ContractsAssumption
  <1>. HIDE DEF m, L
  <1>3. ASSUME NEW k \in 1..L PROVE money[k].agent_id # Payees[j]
    <2>1. /\ Shape(k)
          /\ k = 1 => money[k].agent_id = Payer
          /\ k \in 2..(m + 1) => k - 1 \in 1..m /\ money[k].agent_id = Payees[k - 1]
          /\ current # "Success" /\ k \in (m + 2)..(2 * m + 1) =>
                2 * m + 2 - k \in 1..m /\ money[k].agent_id = Payees[2 * m + 2 - k]
          /\ current # "Success" /\ k = 2 * m + 2 => money[k].agent_id = Payer
      BY FinishedPlaces DEF m, L
    <2>. QED BY <1>2, <2>1 DEF Shape, m
  <1>4. Ledger!EntriesForAgent(Payees[j]) = {}
    BY <1>1, <1>3 DEF Ledger!EntriesForAgent
  <1>. QED BY <1>1, <1>4 DEF m

\* In a build that panics on overflow, the books close once a verdict's last
\* movement is made: verify_balance() is true, the payer is down what the payees
\* are up, and a failure or a reversal leaves everybody where they began.
THEOREM BooksAreClosed == ASSUME OverflowChecks PROVE Spec => []BooksClose
  <1>1. ASSUME IInv, ContractOK PROVE BooksClose
    <2>. SUFFICES ASSUME Finished
                  PROVE  LET paid == IF current = "Success" THEN amount ELSE 0
                             net(agent) ==
                                IF Ledger!EntriesForAgent(agent) = {} THEN 0
                                ELSE Ledger!NetBalance(agent).value.amount_minor_units
                             parts == [i \in DOMAIN Payees |-> net(Payees[i])]
                         IN  /\ Ledger!VerifyBalance = Ok(TRUE)
                             /\ net(Payer) = -paid
                             /\ Total(parts) = paid /\ \A i \in DOMAIN parts : parts[i] >= 0
      BY <1>1 DEF BooksClose, Finished, amount
    <2>. DEFINE n == Len(Payees)
                paid == IF current = "Success" THEN amount ELSE 0
                net(agent) ==
                   IF Ledger!EntriesForAgent(agent) = {} THEN 0
                   ELSE Ledger!NetBalance(agent).value.amount_minor_units
                parts == [i \in DOMAIN Payees |-> net(Payees[i])]
    <2>1. Ledger!VerifyBalance = Ok(TRUE)
      BY <1>1, FinishedVerifies
    <2>2. /\ n \in Nat /\ amount \in Int /\ DOMAIN Payees = 1..n
          /\ partOf \in Seq(Int) /\ Len(partOf) = n
          /\ \A i \in 1..n : partOf[i] \in Int /\ 0 <= partOf[i]
          /\ Running(partOf)[n] = amount
      BY <1>1, PartsOfContract, SettlementAssumption
    <2>3. net(Payer) = -paid
      <3>1. net(Payer) = IF current = "Success" THEN -amount ELSE 0
        BY <1>1, FinishedPayer
      <3>. QED BY <2>2, <3>1
    <2>4. Total(parts) = paid /\ \A i \in DOMAIN parts : parts[i] >= 0
      <3>1. \A i \in 1..n : net(Payees[i]) = IF current = "Success" THEN partOf[i] ELSE 0
        <4>1. ASSUME NEW i \in 1..n
              PROVE  net(Payees[i]) = IF current = "Success" THEN partOf[i] ELSE 0
          <5>1. CASE i \in 1..made
            BY <1>1, <5>1, FinishedPayee
          <5>2. CASE i \notin 1..made
            BY <1>1, <5>2, UnpaidPayee
          <5>. QED BY <5>1, <5>2
        <4>. QED BY <4>1
      <3>. HIDE DEF net
      <3>2. /\ parts \in Seq(Int) /\ Len(parts) = n /\ DOMAIN parts = 1..n
            /\ \A i \in 1..n : parts[i] = IF current = "Success" THEN partOf[i] ELSE 0
        <4>1. parts = [i \in 1..n |-> IF current = "Success" THEN partOf[i] ELSE 0]
          BY <2>2, <3>1
        <4>. HIDE DEF parts
        <4>. QED BY <2>2, <4>1
      <3>. HIDE DEF parts
      <3>. DEFINE f == [k \in 0..n |-> IF current = "Success" THEN Running(partOf)[k] ELSE 0]
      <3>3. /\ f[0] = 0 /\ f[n] = paid
            /\ \A k \in 1..Len(parts) : f[k] = f[k - 1] + parts[k]
        <4>1. /\ Running(partOf)[0] = 0
              /\ \A k \in 1..n : k - 1 \in 0..n /\ k \in 0..n /\ Running(partOf)[k] = Running(partOf)[k - 1] + partOf[k]
          BY <2>2, RunningDef
        <4>2. n \in 0..n /\ 0 \in 0..n
          BY <2>2
        <4>3. f[0] = 0 /\ f[n] = paid
          BY <2>2, <4>1, <4>2
        <4>4. ASSUME NEW k \in 1..Len(parts) PROVE f[k] = f[k - 1] + parts[k]
          <5>1. k \in 1..n /\ k \in 0..n /\ k - 1 \in 0..n
            BY <2>2, <3>2
          <5>2. /\ f[k] = IF current = "Success" THEN Running(partOf)[k] ELSE 0
                /\ f[k - 1] = IF current = "Success" THEN Running(partOf)[k - 1] ELSE 0
            BY <5>1
          <5>. HIDE DEF f
          <5>. QED BY <3>2, <4>1, <5>1, <5>2
        <4>. HIDE DEF f
        <4>. QED BY <4>3, <4>4
      <3>. HIDE DEF f
      <3>4. Running(parts)[n] = f[n]
        <4>1. \A k \in 0..n : Running(parts)[k] = f[k]
          BY <3>2, <3>3, RunningIs
        <4>2. n \in 0..n
          BY <2>2
        <4>. QED BY <4>1, <4>2
      <3>. QED BY <2>2, <3>2, <3>3, <3>4 DEF Total
    <2>. QED BY <2>1, <2>3, <2>4
  <1>. QED BY <1>1, SpecIInv, SpecContractOK, PTL
----------------------------------------------------------------------------
(***************************************************************************)
(* The parts of the flow.  What the host does to each component is a       *)
(* behaviour of that component's own specification, so what is proved of   *)
(* the component holds of it inside the flow.                              *)
(***************************************************************************)
Machine == INSTANCE OutcomeProofs

\* The flow moves the outcome along the table, or leaves it.
LEMMA StepMachine == [Next]_vars => [Outcome!Next]_(Outcome!vars)
  <1>. SUFFICES ASSUME [Next]_vars PROVE [Outcome!Next]_(Outcome!vars)
    OBVIOUS
  <1>1. ASSUME NEW outcome \in Outcome!OutcomeClassification, Step(outcome)
        PROVE  Outcome!Next
    BY <1>1 DEF Step, Outcome!Next
  <1>2. "Reversed" \in Outcome!OutcomeClassification
    BY DEF Outcome!OutcomeClassification
  <1>3. ASSUME NEW outcome \in Outcome!OutcomeClassification, Decide(outcome)
        PROVE  Outcome!Next
    BY <1>1, <1>3 DEF Decide
  <1>4. ASSUME NEW h, NEW t, NEW reason, Reverse(h, reason, t) \/ Correct(reason)
        PROVE  Outcome!Next
    BY <1>1, <1>2, <1>4 DEF Reverse, Correct
  <1>5. Move \/ Wait \/ (\E condition, confidence : Submit(condition, confidence))
          \/ (\E adapter : Settle(adapter)) \/ (\E reason : OtherReversed(reason))
          \/ (\E h, t : ReverseErr(h, t)) \/ UNCHANGED vars
        => UNCHANGED Outcome!vars
    BY DEF Move, Wait, Submit, Settle, OtherReversed, ReverseErr, vars, outcomeVars, Outcome!vars
  <1>. QED BY <1>3, <1>4, <1>5 DEF Next

\* Whatever the host does, its outcome machine goes through a run of its own.
THEOREM FlowRunsMachine == Spec => Outcome!Spec
  <1>1. Init => Outcome!Init
    BY DEF Init
  <1>. QED BY <1>1, StepMachine, PTL DEF Spec, Outcome!Spec

\* The machine of the flow is the one OutcomeProofs is about.
LEMMA MachineIsMachine ==
    /\ Machine!Init <=> Outcome!Init
    /\ [Machine!Next]_(Machine!vars) <=> [Outcome!Next]_(Outcome!vars)
  BY DEF Machine!Init, Outcome!Init, Machine!Next, Outcome!Next, Machine!vars, Outcome!vars,
         Machine!TransitionOk, Outcome!TransitionOk, Machine!TransitionErr, Outcome!TransitionErr,
         Machine!IsValidTransition, Outcome!IsValidTransition, Machine!FromUnknown, Outcome!FromUnknown,
         Machine!FromDecided, Outcome!FromDecided, Machine!FromDisputed, Outcome!FromDisputed,
         Machine!FromTimeout, Outcome!FromTimeout, Machine!Decided, Outcome!Decided,
         Machine!OutcomeClassification, Outcome!OutcomeClassification

\* So are the verdict read off its history and the lifecycle that promises.
LEMMA LifecycleIsLifecycle ==
    /\ Machine!Lifecycle!Init <=> Outcome!Lifecycle!Init
    /\ [Machine!Lifecycle!Next]_(Machine!Lifecycle!vars) <=> [Outcome!Lifecycle!Next]_(Outcome!Lifecycle!vars)
    /\ Machine!DecidedOnce <=> Outcome!DecidedOnce
    /\ Machine!ConcludesAfterUnknown <=> Outcome!ConcludesAfterUnknown
  <1>. USE DEF Machine!Lifecycle!Init, Outcome!Lifecycle!Init, Machine!Lifecycle!Next, Outcome!Lifecycle!Next,
         Machine!Lifecycle!vars, Outcome!Lifecycle!vars, Machine!Lifecycle!None, Outcome!Lifecycle!None,
         Machine!Lifecycle!TimeOut, Outcome!Lifecycle!TimeOut, Machine!Lifecycle!Contest, Outcome!Lifecycle!Contest,
         Machine!Lifecycle!Decide, Outcome!Lifecycle!Decide, Machine!Lifecycle!Reverse, Outcome!Lifecycle!Reverse,
         Machine!PhaseOf, Outcome!PhaseOf, Machine!RecordedVerdict, Outcome!RecordedVerdict,
         Machine!DecidedSteps, Outcome!DecidedSteps, Machine!Decided, Outcome!Decided
  <1>1. Machine!Lifecycle!Init <=> Outcome!Lifecycle!Init
    OBVIOUS
  <1>2. [Machine!Lifecycle!Next]_(Machine!Lifecycle!vars) <=> [Outcome!Lifecycle!Next]_(Outcome!Lifecycle!vars)
    OBVIOUS
  <1>3. Machine!DecidedOnce <=> Outcome!DecidedOnce
    BY DEF Machine!DecidedOnce, Outcome!DecidedOnce
  <1>4. Machine!ConcludesAfterUnknown <=> Outcome!ConcludesAfterUnknown
    BY DEF Machine!ConcludesAfterUnknown, Outcome!ConcludesAfterUnknown
  <1>. QED BY <1>1, <1>2, <1>3, <1>4

\* The flow as a whole implements the lifecycle of a decision: whatever
\* evidence, movements, receipts and reports come between its steps, the
\* decision gets one verdict, and a reversal keeps it.
THEOREM FlowIsLifecycle ==
    Spec => Outcome!ImplementsLifecycle /\ []Outcome!DecidedOnce /\ []Outcome!ConcludesAfterUnknown
  <1>1. Machine!MaxHistoryAssumption
    BY SettlementAssumption DEF Machine!MaxHistoryAssumption
  <1>2. Machine!Spec => Machine!ImplementsLifecycle
    BY <1>1, Machine!Implements
  <1>3. Machine!Spec => []Machine!DecidedOnce
    BY <1>1, Machine!SettledOnce
  <1>4. Machine!Spec => []Machine!ConcludesAfterUnknown
    BY <1>1, Machine!Concludes
  <1>. QED BY <1>2, <1>3, <1>4, FlowRunsMachine, MachineIsMachine, LifecycleIsLifecycle, PTL
           DEF Outcome!Spec, Machine!Spec, Machine!ImplementsLifecycle, Outcome!ImplementsLifecycle,
               Machine!Lifecycle!Spec, Outcome!Lifecycle!Spec
----------------------------------------------------------------------------
\* Receipts are of the kind the chain takes: an outcome, and ids of evidence.
LEMMA StepChain == RInv /\ [Next]_vars => [Chain!Next]_(Chain!vars)
  <1>. SUFFICES ASSUME RInv, [Next]_vars PROVE [Chain!Next]_(Chain!vars)
    OBVIOUS
  <1>1. ASSUME NEW outcome \in Outcome!OutcomeClassification, Step(outcome)
        PROVE  Chain!Next
    <2>. DEFINE r == Receipt(outcome)
                n == Len(chain) + 1
    <2>1. n \in Nat
      BY ListDomain DEF RInv
    <2>2. Chain!AppendOk(n, r)
      BY <1>1 DEF Step
    <2>3. r \in [outcome : Outcome!OutcomeClassification, evidence : SUBSET Nat]
      <3>1. {evidence[i].entry_id : i \in DOMAIN evidence} \in SUBSET Nat
        BY ListDomain DEF RInv, EvidenceOK
      <3>. QED BY <1>1, <3>1 DEF Receipt
    <2>. HIDE DEF r, n
    <2>. QED BY <2>1, <2>2, <2>3 DEF Chain!Next
  <1>2. "Reversed" \in Outcome!OutcomeClassification
    BY DEF Outcome!OutcomeClassification
  <1>3. ASSUME NEW outcome \in Outcome!OutcomeClassification, Decide(outcome)
        PROVE  Chain!Next
    BY <1>1, <1>3 DEF Decide
  <1>4. ASSUME NEW h, NEW t, NEW reason, Reverse(h, reason, t) \/ Correct(reason)
        PROVE  Chain!Next
    BY <1>1, <1>2, <1>4 DEF Reverse, Correct
  <1>5. Move \/ Wait \/ (\E condition, confidence : Submit(condition, confidence))
          \/ (\E adapter : Settle(adapter)) \/ (\E reason : OtherReversed(reason))
          \/ (\E h, t : ReverseErr(h, t)) \/ UNCHANGED vars
        => UNCHANGED Chain!vars
    BY DEF Move, Wait, Submit, Settle, OtherReversed, ReverseErr, vars, Chain!vars
  <1>. QED BY <1>3, <1>4, <1>5 DEF Next

\* The chain of the flow is a run of VerityChain: every receipt serializes, and
\* is appended by append() and nothing else.
THEOREM FlowRunsChain == Spec => Chain!Spec
  <1>1. Init => Chain!Init
    BY DEF Init
  <1>. QED BY <1>1, StepChain, SpecRInv, PTL DEF Spec, Chain!Spec
----------------------------------------------------------------------------
Classes == INSTANCE FinalityProofs

\* Before the settlement nobody holds a class, and no time has passed.
Unsettled ==
    /\ clock \in 0..MaxTime
    /\ settled = NotSettled =>
          clock = 0 /\ confirmed = {} /\ held = [h \in Holders |-> NoClass]

\* How finality moves: not at all before the settlement, which starts it, and
\* by its own steps from then on.
FinalityStep ==
    IF settled' = NotSettled THEN UNCHANGED finalityVars
    ELSE IF settled = NotSettled THEN Finality!Init'
    ELSE [Finality!Next]_(Finality!vars)

\* The calls a host makes on its copies are those of Finality.
LEMMA StepFinality == Unsettled /\ [Next]_vars => Unsettled' /\ FinalityStep
  <1>. SUFFICES ASSUME Unsettled, [Next]_vars PROVE Unsettled' /\ FinalityStep
    OBVIOUS
  <1>1. CASE UNCHANGED finalityVars
    BY <1>1 DEF Unsettled, FinalityStep, finalityVars, Finality!vars
  <1>2. ASSUME NEW adapter \in Finality!AdapterType, Settle(adapter)
        PROVE  Unsettled' /\ FinalityStep
    <2>1. /\ settled = NotSettled /\ settled' = [adapter |-> adapter, at |-> clock]
          /\ held' = [h \in Holders |-> Finality!DefaultFinality(adapter, clock)]
          /\ clock' = clock /\ confirmed' = confirmed
      BY <1>2 DEF Settle
    <2>2. settled'.adapter # NotSettled.adapter
      BY <2>1 DEF NotSettled, Finality!AdapterType
    <2>3. Finality!Init'
      BY <2>1 DEF Finality!Init, Unsettled
    <2>4. settled' # NotSettled
      BY <2>2
    <2>. QED BY <2>1, <2>3, <2>4 DEF Unsettled, FinalityStep
  <1>3. ASSUME settled = NotSettled, NEW h \in Holders
        PROVE  /\ ~Finality!Confirm(h) /\ \A reason, t : ~Finality!Reverse(h, reason, t)
               /\ Finality!CheckWindowExpiry(h) => UNCHANGED finalityVars
    <2>1. held[h] = NoClass /\ held = [g \in Holders |-> NoClass]
      BY <1>3 DEF Unsettled
    <2>2. ~Finality!InWindow(held[h]) /\ ~Finality!ConfirmOk(held[h])
      BY <2>1, NoClassIsNone
    <2>3. ASSUME Finality!CheckWindowExpiry(h) PROVE UNCHANGED finalityVars
      <3>1. held' = [held EXCEPT ![h] = held[h]]
        BY <2>2, <2>3 DEF Finality!CheckWindowExpiry, Finality!ExpiredAt
      <3>2. held' = held
        BY <2>1, <3>1
      <3>. QED BY <2>3, <3>2 DEF Finality!CheckWindowExpiry, finalityVars
    <2>. QED BY <2>2, <2>3 DEF Finality!Confirm, Finality!Reverse, Finality!ReverseOk
  <1>4. ASSUME settled # NotSettled, Finality!Next, UNCHANGED settled, clock' \in 0..MaxTime
        PROVE  Unsettled' /\ FinalityStep
    BY <1>4 DEF Unsettled, FinalityStep
  <1>5. CASE Wait
    <2>1. CASE settled # NotSettled /\ Finality!Tick
      <3>1. clock' \in 0..MaxTime
        BY <2>1, SettlementAssumption DEF Finality!Tick, Unsettled
      <3>. QED BY <1>4, <2>1, <3>1 DEF Finality!Tick, Finality!Next
    <2>2. ASSUME NEW h \in Holders, Finality!Confirm(h) \/ Finality!CheckWindowExpiry(h)
          PROVE  Unsettled' /\ FinalityStep
      <3>1. CASE settled = NotSettled
        BY <1>1, <1>3, <2>2, <3>1
      <3>2. CASE settled # NotSettled
        <4>1. UNCHANGED settled /\ clock' \in 0..MaxTime
          BY <2>2 DEF Finality!Confirm, Finality!CheckWindowExpiry, Unsettled
        <4>. QED BY <1>4, <2>2, <3>2, <4>1 DEF Finality!Next
      <3>. QED BY <3>1, <3>2
    <2>. QED BY <1>5, <2>1, <2>2 DEF Wait, Later
  <1>6. ASSUME NEW h \in Holders, NEW t \in 0..clock, NEW reason \in Reasons, Reverse(h, reason, t)
        PROVE  Unsettled' /\ FinalityStep
    <2>1. Finality!Reverse(h, reason, t)
      BY <1>6 DEF Reverse
    <2>2. settled # NotSettled
      BY <1>3, <2>1
    <2>3. UNCHANGED settled /\ clock' \in 0..MaxTime
      BY <2>1 DEF Finality!Reverse, Unsettled
    <2>. QED BY <1>4, <2>1, <2>2, <2>3 DEF Finality!Next
  <1>7. Move \/ (\E condition, confidence : Submit(condition, confidence))
          \/ (\E outcome : Decide(outcome)) \/ (\E reason : Correct(reason) \/ OtherReversed(reason))
          \/ (\E h, t : ReverseErr(h, t)) \/ UNCHANGED vars
        => UNCHANGED finalityVars
    BY DEF Move, Submit, Decide, Correct, OtherReversed, ReverseErr, vars, finalityVars
  <1>. QED BY <1>1, <1>2, <1>5, <1>6, <1>7 DEF Next

\* At first nothing is settled.
LEMMA InitUnsettled == Init => Unsettled
  BY SettlementAssumption DEF Init, Unsettled

\* From its settlement on, the copies of the flow are a run of Finality.
THEOREM FlowRunsFinality == Spec => [][FinalityStep]_vars
  BY InitUnsettled, StepFinality, PTL DEF Spec

\* The classes of the flow are those FinalityProofs is about.
LEMMA ClassesAreClasses ==
    /\ Classes!Init <=> Finality!Init
    /\ [Classes!Next]_(Classes!vars) <=> [Finality!Next]_(Finality!vars)
    /\ Classes!CopyRules <=>
          /\ Finality!ReversedInsideWindow /\ Finality!NotFinalEarly /\ Finality!SplitOnlyAfterWindow
          /\ Finality!OneWayOut /\ Finality!FinalOnlyConfirmed
  <1>. USE DEF Classes!AdapterType, Finality!AdapterType, Classes!DefaultFinality, Finality!DefaultFinality,
         Classes!WithinReversalWindow, Finality!WithinReversalWindow, Classes!Final, Finality!Final,
         Classes!PendingConfirmation, Finality!PendingConfirmation, Classes!Reversed, Finality!Reversed,
         Classes!InWindow, Finality!InWindow, Classes!IsBefore, Finality!IsBefore,
         Classes!ReverseOk, Finality!ReverseOk, Classes!ConfirmOk, Finality!ConfirmOk,
         Classes!ExpiredAt, Finality!ExpiredAt, Classes!vars, Finality!vars
  <1>1. Classes!Init <=> Finality!Init
    BY DEF Classes!Init, Finality!Init
  <1>2. [Classes!Next]_(Classes!vars) <=> [Finality!Next]_(Finality!vars)
    BY DEF Classes!Next, Finality!Next, Classes!Tick, Finality!Tick, Classes!Reverse, Finality!Reverse,
           Classes!ReverseErr, Finality!ReverseErr, Classes!Confirm, Finality!Confirm,
           Classes!ConfirmErr, Finality!ConfirmErr, Classes!CheckWindowExpiry, Finality!CheckWindowExpiry
  <1>3. /\ Classes!ReversedInsideWindow <=> Finality!ReversedInsideWindow
        /\ Classes!NotFinalEarly <=> Finality!NotFinalEarly
        /\ Classes!SplitOnlyAfterWindow <=> Finality!SplitOnlyAfterWindow
    BY DEF Classes!ReversedInsideWindow, Finality!ReversedInsideWindow, Classes!IsFinal, Finality!IsFinal,
           Classes!NotFinalEarly, Finality!NotFinalEarly,
           Classes!SplitOnlyAfterWindow, Finality!SplitOnlyAfterWindow
  <1>4. /\ Classes!OneWayOut <=> Finality!OneWayOut
        /\ Classes!FinalOnlyConfirmed <=> Finality!FinalOnlyConfirmed
    BY DEF Classes!OneWayOut, Finality!OneWayOut, Classes!IsReversible, Finality!IsReversible,
           Classes!IsExpired, Finality!IsExpired, Classes!IsFinal, Finality!IsFinal,
           Classes!FinalOnlyConfirmed, Finality!FinalOnlyConfirmed
  <1>. QED BY <1>1, <1>2, <1>3, <1>4 DEF Classes!CopyRules

ClassesAssumed == Classes!FinalityAssumption

\* What a settlement asks of its constants is what Finality asks of them.
LEMMA AssumedOfClasses == ClassesAssumed
  BY SettlementAssumption DEF ClassesAssumed, Classes!FinalityAssumption

\* The inductive invariant of Finality holds from the settlement on.
LEMMA SpecClasses == Spec => [](settled # NotSettled => Classes!IInv)
  <1>1. Classes!Init => Classes!IInv
    BY AssumedOfClasses, Classes!InitIInv DEF ClassesAssumed
  <1>2. Classes!IInv /\ [Classes!Next]_(Classes!vars) => Classes!IInv'
    BY AssumedOfClasses, Classes!StepIInv DEF ClassesAssumed
  <1>. DEFINE Before == settled = NotSettled
              Kept == Before \/ Classes!IInv
  <1>3. Init => Before
    BY DEF Init
  <1>4. Unsettled /\ [Next]_vars => Before' \/ Classes!Init' \/ (~Before /\ [Classes!Next]_(Classes!vars))
    <2>1. Classes!Init' <=> Finality!Init'
      BY ClassesAreClasses, PTL
    <2>. QED BY <2>1, StepFinality, ClassesAreClasses DEF FinalityStep
  <1>5. Kept <=> (settled # NotSettled => Classes!IInv)
    OBVIOUS
  <1>6. Spec => []Unsettled
    BY InitUnsettled, StepFinality, PTL DEF Spec
  <1>. HIDE DEF Before
  <1>7. Spec => []Kept
    BY <1>1, <1>2, <1>3, <1>4, <1>6, PTL DEF Spec
  <1>. QED BY <1>5, <1>7, PTL

\* In the flow too, a copy is reversed only inside the window and final only
\* after it, and what one is, it stays.
THEOREM FlowKeepsCopyRules ==
    Spec => [](settled # NotSettled =>
                  /\ Finality!ReversedInsideWindow /\ Finality!NotFinalEarly
                  /\ Finality!SplitOnlyAfterWindow /\ Finality!OneWayOut /\ Finality!FinalOnlyConfirmed)
  <1>1. Classes!IInv => Classes!CopyRules
    BY AssumedOfClasses, Classes!RulesHold DEF ClassesAssumed
  <1>. QED BY <1>1, SpecClasses, ClassesAreClasses, PTL

\* Nor does a copy that was final or reversed change again, whatever the flow does.
THEOREM FlowKeepsVerdicts == Spec => Finality!VerdictStable
  <1>1. ASSUME Unsettled, settled # NotSettled => Classes!IInv, [Next]_vars,
               NEW h \in Holders, held[h].class \in {"Final", "Reversed"}
        PROVE  held'[h] = held[h]
    <2>1. settled # NotSettled
      <3>1. NoClass.class \notin {"Final", "Reversed"}
        BY DEF NoClass
      <3>. QED BY <1>1, <3>1 DEF Unsettled
    <2>2. FinalityStep
      BY <1>1, StepFinality
    <2>3. CASE settled' # NotSettled
      <3>1. [Classes!Next]_(Classes!vars)
        BY <2>1, <2>2, <2>3, ClassesAreClasses DEF FinalityStep
      <3>. QED BY <1>1, <2>1, <3>1, AssumedOfClasses, Classes!VerdictStays DEF ClassesAssumed
    <2>4. CASE settled' = NotSettled
      BY <2>2, <2>4 DEF FinalityStep, finalityVars
    <2>. QED BY <2>3, <2>4
  <1>2. Unsettled /\ (settled # NotSettled => Classes!IInv) /\ [Next]_vars =>
            [\A h \in Holders : held[h].class \in {"Final", "Reversed"} => held'[h] = held[h]]_(Finality!vars)
    BY <1>1
  <1>3. Spec => []Unsettled
    BY InitUnsettled, StepFinality, PTL DEF Spec
  <1>. QED BY <1>2, <1>3, SpecClasses, PTL DEF Spec, Finality!VerdictStable
----------------------------------------------------------------------------
\* In either build, what the payees get are monies.
LEMMA PartsFit == ContractOK => \A i \in DOMAIN Payees : Parts[i] \in Monies
  <1>. SUFFICES ASSUME ContractOK PROVE \A i \in DOMAIN Payees : Parts[i] \in Monies
    OBVIOUS
  <1>. DEFINE n == Len(Payees)
  <1>1. /\ contract.payment \in Monies /\ contract.shares \in Seq(BasisPoints)
        /\ Len(contract.shares) = n
    BY ContractsAssumption DEF ContractOK
  <1>2. Monies = Split!Monies /\ BasisPoints = Split!BasisPoints
    BY DEF Monies, Split!Monies, BasisPoints, Split!BasisPoints, Currency, Split!Currency,
           Fits, Split!Fits, MinI64, Split!MinI64
  <1>3. Split!PaymentSplitAssumption /\ Split!MoneyAssumption /\ Split!MachineIntAssumption
    BY <1>2, MoneyAssumption, MachineIntAssumption
       DEF Split!PaymentSplitAssumption, Split!MoneyAssumption, Split!MachineIntAssumption
  <1>4. Split!InputOK /\ Split!IsOk(Split!outcome)
    BY <1>1, <1>2, SplitIsSplit DEF Split!InputOK, ContractOK
  <1>5. \A i \in 1..n : Split!outcome.value[i] \in Split!Monies
    BY <1>1, <1>3, <1>4, Split!PartsAreMonies
  <1>6. Parts = Split!outcome.value
    BY SplitIsSplit DEF Parts
  <1>. QED BY <1>2, <1>5, <1>6, SettlementAssumption

\* What a call of append() may be given: any agent of the contract, any money.
Movements ==
    [entry_id : {0}, agent_id : {Payer} \cup {Payees[i] : i \in DOMAIN Payees},
     direction : Ledger!MoneyDirection, amount : Monies]

\* Whatever the outcome asks for, its movements are such calls.
LEMMA DueMovements == ASSUME ContractOK, IInv, NEW k \in 1..Len(Due) PROVE Due[k] \in Movements
  <1>. DEFINE n == Len(Payees)
  <1>1. Hold \in Movements /\ Returned \in Movements
    BY ContractsAssumption
       DEF ContractOK, Hold, Returned, Movement, Movements, Ledger!MoneyDirection
  <1>2. n \in Nat /\ \A i \in 1..n : PaidTo(i) \in Movements /\ TakenFrom(i) \in Movements
    <2>1. ASSUME NEW i \in DOMAIN Payees
          PROVE  PaidTo(i) \in Movements /\ TakenFrom(i) \in Movements
      BY PartsFit DEF PaidTo, TakenFrom, Movement, Movements, Ledger!MoneyDirection
    <2>. QED BY <2>1, SettlementAssumption
  <1>3. PICK m \in 0..n : DuePlaces(Due, current, m)
    BY DueNow
  <1>4. k \in 1..Len(Due) /\ m \in Nat /\ Due[1] = Hold
    BY <1>2, <1>3 DEF DuePlaces
  <1>. HIDE DEF n
  <1>5. CASE current \notin {"Success", "Fail", "Reversed"}
    <2>1. Len(Due) = 1
      BY <1>3, <1>5 DEF DuePlaces
    <2>2. k = 1
      BY <2>1
    <2>. QED BY <1>1, <1>4, <2>2
  <1>6. CASE current = "Fail"
    <2>1. Len(Due) = 2 /\ Due[2] = Returned
      BY <1>3, <1>6 DEF DuePlaces
    <2>2. k = 1 \/ k = 2
      BY <1>4, <2>1
    <2>. QED BY <1>1, <1>4, <2>1, <2>2
  <1>7. CASE current = "Success"
    <2>1. Len(Due) = n + 1 /\ \A i \in 1..n : Due[1 + i] = PaidTo(i)
      BY <1>3, <1>7 DEF DuePlaces, n
    <2>2. k = 1 \/ (k - 1 \in 1..n /\ 1 + (k - 1) = k)
      BY <1>2, <1>4, <2>1
    <2>. QED BY <1>1, <1>2, <1>4, <2>1, <2>2
  <1>8. CASE current = "Reversed"
    <2>1. /\ Len(Due) = 2 * m + 2 /\ Due[2 * m + 2] = Returned
          /\ \A i \in 1..m : Due[1 + i] = PaidTo(i) /\ Due[m + 1 + i] = TakenFrom(m + 1 - i)
      BY <1>3, <1>8 DEF DuePlaces
    <2>2. \/ k = 1 \/ k = 2 * m + 2
          \/ k - 1 \in 1..m /\ 1 + (k - 1) = k
          \/ k - (m + 1) \in 1..m /\ m + 1 + (k - (m + 1)) = k
      BY <1>4, <2>1
    <2>3. \A i \in 1..m : i \in 1..n /\ m + 1 - i \in 1..n
      BY <1>2, <1>3, <1>4
    <2>. QED BY <1>1, <1>2, <1>4, <2>1, <2>2, <2>3
  <1>. QED BY <1>5, <1>6, <1>7, <1>8

\* The ledger gets what is due, by append() and nothing else.
LEMMA StepLedger == ContractOK /\ IInv /\ [Next]_vars => [Ledger!Next]_(Ledger!vars)
  <1>. SUFFICES ASSUME ContractOK, IInv, [Next]_vars PROVE [Ledger!Next]_(Ledger!vars)
    OBVIOUS
  <1>1. CASE Move
    <2>. DEFINE e == Due[Len(money) + 1]
    <2>1. Len(money) + 1 \in 1..Len(Due) /\ Ledger!AppendEntry(e)
      <3>1. Len(Due) \in Nat /\ Len(money) \in Nat
        BY DueNow, ListDomain DEF DuePlaces, IInv, ListsOK
      <3>. QED BY <1>1, <3>1 DEF Move
    <2>2. e \in Movements
      BY <2>1, DueMovements
    <2>. HIDE DEF e
    <2>3. e = [entry_id |-> 0, agent_id |-> e.agent_id, direction |-> e.direction, amount |-> e.amount]
      BY <2>2 DEF Movements
    <2>. QED BY <2>1, <2>2, <2>3 DEF Ledger!Next, Movements
  <1>2. (\E condition, confidence : Submit(condition, confidence))
          \/ (\E outcome : Decide(outcome)) \/ (\E adapter : Settle(adapter)) \/ Wait
          \/ (\E h, t, reason : Reverse(h, reason, t))
          \/ (\E reason : Correct(reason) \/ OtherReversed(reason))
          \/ (\E h, t : ReverseErr(h, t)) \/ UNCHANGED vars
        => UNCHANGED Ledger!vars
    BY DEF Submit, Decide, Settle, Wait, Reverse, Correct, OtherReversed, ReverseErr, vars, moneyVars,
           Ledger!vars
  <1>. QED BY <1>1, <1>2 DEF Next

\* The money ledger of the flow is a run of MoneyLedger.
THEOREM FlowRunsLedger == Spec => Ledger!Spec
  <1>1. Init => Ledger!Init
    BY DEF Init
  <1>. QED BY <1>1, StepLedger, SpecIInv, SpecContractOK, PTL DEF Spec, Ledger!Spec
----------------------------------------------------------------------------
Books == INSTANCE LedgerProofs
    WITH entries <- money, next_entry_id <- next_money_id, MaxEntries <- 2 + 2 * Len(Payees),
         Agents <- {Payer} \cup {Payees[i] : i \in DOMAIN Payees},
         Movements <- Monies, CallerIds <- {0}

\* The ledger of the flow is the one LedgerProofs is about.
LEMMA BooksAreBooks ==
    /\ Books!Init <=> Ledger!Init
    /\ [Books!Next]_(Books!vars) <=> [Ledger!Next]_(Ledger!vars)
    /\ Books!IdsSequential <=> Ledger!IdsSequential
    /\ Books!NetBalanceSound <=> Ledger!NetBalanceSound
    /\ Books!BalanceVerdictExact <=> Ledger!BalanceVerdictExact
  <1>1. /\ Books!Init <=> Ledger!Init
        /\ [Books!Next]_(Books!vars) <=> [Ledger!Next]_(Ledger!vars)
        /\ Books!IdsSequential <=> Ledger!IdsSequential
    BY DEF Books!Init, Ledger!Init, Books!Next, Ledger!Next, Books!vars, Ledger!vars,
           Books!AppendEntry, Ledger!AppendEntry, Books!MoneyDirection, Ledger!MoneyDirection,
           Books!IdsSequential, Ledger!IdsSequential
  <1>. USE DEF Books!EntriesForAgent, Ledger!EntriesForAgent, Books!EntriesIn, Ledger!EntriesIn,
           Books!Incoming, Ledger!Incoming, Books!Outgoing, Ledger!Outgoing,
           Books!Amounts, Ledger!Amounts, Books!Going, Ledger!Going,
           Books!Deltas, Ledger!Deltas, Books!Delta, Ledger!Delta,
           Books!Fits, Ledger!Fits, Books!MinI64, Ledger!MinI64,
           Books!Total, Ledger!Total, Books!Running, Ledger!Running, Books!OnlyAt, Ledger!OnlyAt,
           Books!IsOk, Ledger!IsOk, Books!Ok, Ledger!Ok, Books!Err, Ledger!Err, Books!Panic, Ledger!Panic
  <1>2. Books!NetBalanceSound <=> Ledger!NetBalanceSound
    BY DEF Books!NetBalanceSound, Ledger!NetBalanceSound, Books!NetBalance, Ledger!NetBalance,
           Books!First, Ledger!First, Books!MoneyOf, Ledger!MoneyOf
  <1>3. Books!BalanceVerdictExact <=> Ledger!BalanceVerdictExact
    BY DEF Books!BalanceVerdictExact, Ledger!BalanceVerdictExact, Books!VerifyBalance, Ledger!VerifyBalance,
           Books!BalanceOverflows, Ledger!BalanceOverflows, Books!Accumulator, Ledger!Accumulator,
           Books!Wrap, Ledger!Wrap, Books!Currency, Ledger!Currency
  <1>. QED BY <1>1, <1>2, <1>3

BooksAssumed == Books!MachineIntAssumption /\ Books!MoneyAssumption /\ Books!MoneyLedgerAssumption

\* What a settlement asks of its constants is what the ledger asks of them.
LEMMA AssumedOfBooks == BooksAssumed
  <1>. DEFINE n == Len(Payees)
              P == {Payees[i] : i \in DOMAIN Payees}
              f == [i \in 1..n |-> Payees[i]]
  <1>1. n \in Nat /\ DOMAIN Payees = 1..n
    BY SettlementAssumption
  <1>2. IsFiniteSet(1..n)
    BY <1>1, FS_Interval
  <1>3. f \in Surjection(1..n, P)
    BY <1>1, Zenon DEF Surjection
  <1>4. IsFiniteSet(P)
    BY ONLY <1>2, <1>3, FS_Surjection, Zenon
  <1>5. IsFiniteSet({Payer} \cup P)
    <2>. HIDE DEF P
    <2>1. IsFiniteSet(P \cup {Payer}) /\ P \cup {Payer} = {Payer} \cup P
      BY <1>4, FS_AddElement, Zenon
    <2>. QED BY ONLY <2>1
  <1>6. Books!Monies = Monies
    BY DEF Books!Monies, Monies, Books!Currency, Currency, Books!Fits, Fits, Books!MinI64, MinI64
  <1>7. 2 + 2 * n \in Nat
    BY <1>1
  <1>8. Books!MoneyLedgerAssumption
    <2>1. {0} \subseteq Nat /\ Monies \subseteq Books!Monies
      BY <1>6
    <2>. QED BY <1>5, <1>7, <2>1, Zenon
         DEF Books!MoneyLedgerAssumption, Books!IsFiniteSet, IsFiniteSet
  <1>. QED BY <1>8, MachineIntAssumption, MoneyAssumption
           DEF BooksAssumed, Books!MachineIntAssumption, Books!MoneyAssumption

\* At every moment of a flow, finished or not, net_balance() answers exactly or
\* not at all, and no two movements share an id.
THEOREM FlowKeepsBooks == Spec => [](Ledger!IdsSequential /\ Ledger!NetBalanceSound)
  <1>1. Books!Spec => []Books!IdsSequential /\ []Books!NetBalanceSound
    BY AssumedOfBooks, Books!IdsCount, Books!NetBalanceIsSound DEF BooksAssumed
  <1>. QED BY <1>1, FlowRunsLedger, BooksAreBooks, PTL DEF Books!Spec, Ledger!Spec

\* In a build with overflow checks, verify_balance() tells at every moment of a
\* flow whether both sides of every currency are equal.
THEOREM FlowBalanceExact == ASSUME OverflowChecks PROVE Spec => []Ledger!BalanceVerdictExact
  <1>1. Books!Spec => []Books!BalanceVerdictExact
    BY AssumedOfBooks, Books!VerdictIsExact DEF BooksAssumed
  <1>. QED BY <1>1, FlowRunsLedger, BooksAreBooks, PTL DEF Books!Spec, Ledger!Spec
=============================================================================
