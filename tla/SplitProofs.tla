----------------------------- MODULE SplitProofs -----------------------------
(***************************************************************************)
(* What holds of split_bps for every payment, every list of shares and any *)
(* width of the machine's integers.                                        *)
(***************************************************************************)
EXTENDS PaymentSplit, Induction

InputOK == payment \in Payments /\ shares \in Seq(Shares)

\* Payments and shares stay what their constants say they are.
LEMMA InputsAreInputs == Spec => []InputOK
  <1>1. Init => InputOK
    BY DEF Init, InputOK
  <1>2. InputOK /\ [Next]_vars => InputOK'
    BY DEF InputOK, Next, AddPayee, vars
  <1>. QED BY <1>1, <1>2, PTL DEF Spec

\* A cut is a whole number of minor units.
LEMMA CutType ==
    ASSUME NEW t \in Int, NEW bp \in Int
    PROVE  Cut(t, bp) \in Int
  <1>1. Wrap(t * bp) \in Int
    BY WrapTurns
  <1>. QED BY <1>1, MoneyAssumption DEF Cut, TruncDiv

\* The cuts of the payment, before the remainder is added to the first.
cuts == [i \in 1..Len(shares) |-> Cut(total, shares[i])]
remainder == total - Total(cuts)

\* What the inputs and the cuts are.
LEMMA CutsType ==
    ASSUME InputOK
    PROVE  /\ payment \in Monies /\ total \in Int /\ Fits(total)
           /\ shares \in Seq(Int) /\ Len(shares) \in Nat
           /\ \A i \in 1..Len(shares) : shares[i] \in Int /\ 0 <= shares[i] /\ shares[i] <= FullShare
           /\ cuts \in Seq(Int) /\ Len(cuts) = Len(shares) /\ DOMAIN cuts = 1..Len(shares)
           /\ \A i \in 1..Len(shares) : cuts[i] = Cut(total, shares[i]) /\ cuts[i] \in Int
           /\ Total(cuts) \in Int
           /\ ValidShares(shares) => Len(shares) # 0
  <1>. DEFINE n == Len(shares)
  <1>1. \A bp \in Shares : bp \in Int /\ 0 <= bp /\ bp <= FullShare
    BY PaymentSplitAssumption, MoneyAssumption DEF BasisPoints
  <1>2. n \in Nat /\ DOMAIN shares = 1..n /\ \A i \in 1..n : shares[i] \in Shares
    BY DEF InputOK
  <1>3. shares \in Seq(Int)
    <2>1. shares = [i \in 1..n |-> shares[i]]
      BY <1>2 DEF InputOK
    <2>. QED BY <1>1, <1>2, <2>1
  <1>4. payment \in Monies /\ total \in Int /\ Fits(total)
    BY PaymentSplitAssumption DEF InputOK, Monies, total
  <1>5. \A i \in 1..n : Cut(total, shares[i]) \in Int
    BY <1>1, <1>2, <1>4, CutType
  <1>6. cuts \in Seq(Int) /\ Len(cuts) = n /\ DOMAIN cuts = 1..n
        /\ \A i \in 1..n : cuts[i] = Cut(total, shares[i])
    BY <1>2, <1>5 DEF cuts
  <1>7. Total(cuts) \in Int
    BY <1>6, RunningDef
  <1>8. ValidShares(shares) => n # 0
    <2>. SUFFICES ASSUME n = 0 PROVE Total(shares) = 0
      BY MoneyAssumption DEF ValidShares
    <2>. QED BY <1>3, RunningDef DEF Total
  <1>. QED BY <1>1, <1>2, <1>3, <1>4, <1>5, <1>6, <1>7, <1>8

\* What split_bps returns, when it returns: the cuts, with the remainder.
LEMMA SplitShape ==
    ASSUME InputOK, NEW checked \in BOOLEAN, IsOk(SplitBpsIn(checked, payment, shares))
    PROVE  /\ total \in Int /\ Fits(total)
           /\ cuts \in Seq(Int) /\ 1 \in 1..Len(cuts)
           /\ Total(cuts) \in Int
           /\ PartsOf(SplitBpsIn(checked, payment, shares)) =
                 [cuts EXCEPT ![1] = Wrap(cuts[1] + Wrap(remainder))]
           /\ SplitBpsIn(checked, payment, shares).value =
                 [i \in 1..Len(shares) |->
                    MoneyOf([cuts EXCEPT ![1] = Wrap(cuts[1] + Wrap(remainder))][i], payment.currency)]
           /\ ValidShares(shares)
           /\ checked => /\ Fits(remainder) /\ Fits(cuts[1] + remainder)
                         /\ \A i \in 1..Len(shares) : Fits(total * shares[i])
  <1>. DEFINE split == SplitBpsIn(checked, payment, shares)
              n == Len(shares)
              amounts == [cuts EXCEPT ![1] = Wrap(cuts[1] + Wrap(remainder))]
  <1>1. ValidShares(shares)
    BY DEF SplitBpsIn, IsOk, Err
  <1>2. /\ total \in Int /\ Fits(total) /\ n \in Nat /\ n # 0
        /\ cuts \in Seq(Int) /\ Len(cuts) = n /\ DOMAIN cuts = 1..n /\ Total(cuts) \in Int
    BY <1>1, CutsType
  <1>3. split = IF checked /\ (\/ \E i \in 1..n : ~Fits(total * shares[i]) \/ ~Fits(Running(cuts)[i])
                              \/ ~Fits(remainder)
                              \/ ~Fits(cuts[1] + remainder))
                  THEN Panic
                  ELSE Ok([i \in 1..n |-> MoneyOf(WithRemainder(cuts, Wrap(remainder))[i], payment.currency)])
    BY <1>1 DEF SplitBpsIn, cuts, remainder, total
  <1>4. /\ checked => /\ Fits(remainder) /\ Fits(cuts[1] + remainder)
                      /\ \A i \in 1..n : Fits(total * shares[i])
        /\ split = Ok([i \in 1..n |-> MoneyOf(WithRemainder(cuts, Wrap(remainder))[i], payment.currency)])
    BY <1>3 DEF IsOk, Panic
  <1>5. WithRemainder(cuts, Wrap(remainder)) = amounts
    BY <1>2 DEF WithRemainder
  <1>6. DOMAIN amounts = 1..n
    BY <1>2
  <1>. HIDE DEF n, amounts, split
  <1>7. split.value = [i \in 1..n |-> MoneyOf(amounts[i], payment.currency)]
    BY <1>4, <1>5 DEF Ok
  <1>8. PartsOf(split) = [i \in 1..n |-> amounts[i]]
    BY <1>7 DEF PartsOf, MoneyOf
  <1>9. PartsOf(split) = amounts
    BY <1>6, <1>8, <1>2 DEF amounts
  <1>10. 1 \in 1..Len(cuts)
    BY <1>2
  <1>. QED BY <1>1, <1>2, <1>4, <1>7, <1>9, <1>10, Zenon DEF amounts, split, n

\* Dividing by a whole keeps a product in the register: a cut is an i64.
LEMMA CutFits ==
    ASSUME NEW t \in Int, NEW bp \in Int
    PROVE  Fits(Cut(t, bp))
  <1>. DEFINE w == Wrap(t * bp)
              d == FullShare
              q == TruncDiv(w, d)
  <1>1. w \in Int /\ Fits(w) /\ d \in Nat \ {0} /\ d \in Int /\ d >= 1 /\ MaxI64 \in Nat
    BY WrapTurns, MoneyAssumption, MachineIntAssumption
  <1>. HIDE DEF w, d
  <1>2. /\ q \in Int
        /\ w >= 0 => q >= 0 /\ 0 <= w - d * q
        /\ w <= 0 => q <= 0 /\ w - d * q <= 0
    BY <1>1, TruncDivLeaves, Zenon
  <1>. HIDE DEF q
  <1>3. q >= 0 => d * q >= q
    BY ONLY <1>1, <1>2
  <1>4. q <= 0 => d * q <= q
    BY ONLY <1>1, <1>2
  <1>5. (w >= 0 => 0 <= q /\ q <= w) /\ (w <= 0 => w <= q /\ q <= 0)
    <2>. DEFINE p == d * q
    <2>1. p \in Int
      BY ONLY <1>1, <1>2
    <2>. HIDE DEF p
    <2>. QED BY <1>1, <1>2, <1>3, <1>4, <2>1 DEF p
  <1>6. Fits(q)
    BY <1>1, <1>2, <1>5 DEF Fits, MinI64
  <1>. QED BY <1>6 DEF q, w, d, Cut

\* In either build, what split_bps returns are monies: every part fits.
LEMMA PartsAreMonies ==
    ASSUME InputOK, IsOk(outcome)
    PROVE  \A i \in 1..Len(shares) : outcome.value[i] \in Monies
  <1>. DEFINE x == Wrap(cuts[1] + Wrap(remainder))
              n == Len(shares)
              c == payment.currency
  <1>1. /\ total \in Int /\ cuts \in Seq(Int) /\ 1 \in 1..Len(cuts) /\ Total(cuts) \in Int
        /\ outcome.value = [i \in 1..n |-> MoneyOf([cuts EXCEPT ![1] = x][i], c)]
    <2>1. OverflowChecks \in BOOLEAN /\ IsOk(SplitBpsIn(OverflowChecks, payment, shares))
      BY MachineIntAssumption DEF outcome, SplitBps
    <2>. QED BY Zenon, <2>1, SplitShape DEF outcome, SplitBps
  <1>2. x \in Int /\ Fits(x)
    <2>1. remainder \in Int
      BY <1>1 DEF remainder
    <2>2. Wrap(remainder) \in Int
      BY <2>1, WrapTurns
    <2>3. cuts[1] \in Int
      BY <1>1
    <2>. QED BY <2>2, <2>3, WrapTurns
  <1>3. /\ c \in Currency /\ n \in Nat /\ DOMAIN cuts = 1..n
        /\ \A i \in 1..n : cuts[i] \in Int /\ Fits(cuts[i])
    <2>1. c \in Currency
      BY CutsType DEF Monies
    <2>2. \A i \in 1..n : shares[i] \in Int /\ cuts[i] = Cut(total, shares[i]) /\ cuts[i] \in Int
      BY CutsType
    <2>. QED BY <1>1, <2>1, <2>2, CutsType, CutFits
  <1>. HIDE DEF x, c, n
  <1>4. ASSUME NEW i \in 1..n PROVE outcome.value[i] \in Monies
    <2>. DEFINE y == [cuts EXCEPT ![1] = x][i]
    <2>1. y \in Int /\ Fits(y)
      BY <1>1, <1>2, <1>3
    <2>2. outcome.value[i] = MoneyOf(y, c)
      BY <1>1
    <2>. HIDE DEF y
    <2>. QED BY <1>3, <2>1, <2>2 DEF MoneyOf, Monies
  <1>. QED BY <1>4 DEF n

\* No product of the loop is outside the range.
NoProductWraps == \A i \in 1..Len(shares) : Fits(total * shares[i])

\* In a build with overflow checks, the parts of a split that returns are the
\* exact cuts, the first one with the remainder.
LEMMA PartsAreCuts ==
    ASSUME OverflowChecks, InputOK, IsOk(outcome)
    PROVE  /\ NoProductWraps /\ ValidShares(shares) /\ 1 \in 1..Len(shares)
           /\ parts = [cuts EXCEPT ![1] = cuts[1] + remainder]
           /\ parts \in Seq(Int) /\ Len(parts) = Len(shares) /\ DOMAIN parts = 1..Len(shares)
           /\ parts[1] = cuts[1] + remainder
           /\ \A i \in 2..Len(shares) : parts[i] = cuts[i]
           /\ outcome.value = [i \in 1..Len(shares) |-> MoneyOf(parts[i], payment.currency)]
  <1>. DEFINE x == Wrap(cuts[1] + Wrap(remainder))
              n == Len(shares)
  <1>1. /\ total \in Int /\ 1 \in 1..Len(cuts)
        /\ PartsOf(SplitBpsIn(OverflowChecks, payment, shares)) = [cuts EXCEPT ![1] = x]
        /\ SplitBpsIn(OverflowChecks, payment, shares).value =
              [i \in 1..n |-> MoneyOf([cuts EXCEPT ![1] = x][i], payment.currency)]
        /\ ValidShares(shares)
        /\ OverflowChecks => /\ Fits(remainder) /\ Fits(cuts[1] + remainder)
                            /\ \A i \in 1..n : Fits(total * shares[i])
    <2>1. OverflowChecks \in BOOLEAN /\ IsOk(SplitBpsIn(OverflowChecks, payment, shares))
      BY MachineIntAssumption DEF outcome, SplitBps
    <2>. QED BY <2>1, SplitShape, Zenon
  <1>2. /\ parts = [cuts EXCEPT ![1] = x]
        /\ outcome.value = [i \in 1..n |-> MoneyOf([cuts EXCEPT ![1] = x][i], payment.currency)]
    BY <1>1, Zenon DEF parts, outcome, SplitBps
  <1>3. cuts \in Seq(Int) /\ Len(cuts) = n /\ n \in Nat /\ DOMAIN cuts = 1..n /\ Total(cuts) \in Int
    BY CutsType
  <1>4. cuts[1] \in Int /\ remainder \in Int
    BY <1>1, <1>3 DEF remainder
  <1>5. x = cuts[1] + remainder
    <2>1. Wrap(remainder) = remainder
      BY <1>1, <1>4, WrapFits
    <2>. QED BY <1>1, <1>4, <2>1, WrapFits
  <1>. HIDE DEF x
  <1>6. parts = [cuts EXCEPT ![1] = cuts[1] + remainder]
    BY <1>2, <1>5
  <1>7. /\ parts \in Seq(Int) /\ Len(parts) = n /\ DOMAIN parts = 1..n
        /\ parts[1] = cuts[1] + remainder
        /\ \A i \in 2..n : parts[i] = cuts[i]
    BY <1>1, <1>3, <1>4, <1>6
  <1>8. outcome.value = [i \in 1..n |-> MoneyOf(parts[i], payment.currency)]
    BY <1>2, Zenon
  <1>9. NoProductWraps
    BY <1>1 DEF NoProductWraps
  <1>. QED BY <1>1, <1>3, <1>6, <1>7, <1>8, <1>9

\* They add up to the payment.
LEMMA PartsTotal ==
    ASSUME OverflowChecks, InputOK, IsOk(outcome)
    PROVE  Total(parts) = total
  <1>1. /\ cuts \in Seq(Int) /\ 1 \in 1..Len(cuts) /\ Total(cuts) \in Int /\ total \in Int
        /\ cuts[1] \in Int
        /\ parts = [cuts EXCEPT ![1] = cuts[1] + remainder]
    BY PartsAreCuts, CutsType, Zenon
  <1>2. remainder \in Int /\ cuts[1] + remainder \in Int /\ remainder = total - Total(cuts)
    BY <1>1 DEF remainder
  <1>. HIDE DEF remainder
  <1>3. Total(parts) = Total(cuts) - cuts[1] + (cuts[1] + remainder)
    BY <1>1, <1>2, TotalReplaced
  <1>. QED BY <1>1, <1>2, <1>3

\* In a build with overflow checks a split pays out the payment exactly.
THEOREM SplitIsExact == ASSUME OverflowChecks PROVE Spec => []SplitConserves
  <1>1. InputOK => SplitConserves
    BY PartsTotal DEF SplitConserves
  <1>. QED BY <1>1, InputsAreInputs, PTL

\* In a build without overflow checks the parts add up to the payment as the machine adds.
THEOREM SplitIsExactWrapped == Spec => []SplitConservesWrapped
  <1>1. InputOK => SplitConservesWrapped
    <2>. SUFFICES ASSUME InputOK, IsOk(unchecked) PROVE Wrap(Total(PartsOf(unchecked))) = total
      BY DEF SplitConservesWrapped
    <2>. DEFINE m == 2 * (MaxI64 + 1)
                r == Wrap(remainder)
                x == Wrap(cuts[1] + r)
    <2>1. /\ total \in Int /\ Fits(total)
          /\ cuts \in Seq(Int) /\ 1 \in 1..Len(cuts) /\ Total(cuts) \in Int
          /\ cuts[1] \in Int /\ remainder \in Int /\ m \in Int
          /\ PartsOf(unchecked) = [cuts EXCEPT ![1] = x]
      <3>1. /\ total \in Int /\ Fits(total)
            /\ cuts \in Seq(Int) /\ 1 \in 1..Len(cuts)
            /\ Total(cuts) \in Int
            /\ PartsOf(SplitBpsIn(FALSE, payment, shares)) = [cuts EXCEPT ![1] = x]
        BY SplitShape, IsOk(SplitBpsIn(FALSE, payment, shares)), FALSE \in BOOLEAN, Zenon
        DEF unchecked
      <3>2. cuts[1] \in Int /\ remainder \in Int /\ m \in Int
        BY <3>1, MachineIntAssumption DEF remainder
      <3>. QED BY <3>1, <3>2, Zenon DEF unchecked
    <2>2. r \in Int /\ \E k \in Int : r = remainder + k * m
      BY <2>1, WrapTurns
    <2>3. x \in Int /\ \E k \in Int : x = cuts[1] + r + k * m
      <3>. HIDE DEF r
      <3>1. cuts[1] + r \in Int
        BY <2>1, <2>2
      <3>. QED BY <3>1, WrapTurns
    <2>4. PICK j \in Int : r = remainder + j * m
      BY <2>2
    <2>5. PICK k \in Int : x = cuts[1] + r + k * m
      BY <2>3
    <2>6. Total(PartsOf(unchecked)) = Total(cuts) - cuts[1] + x
      <3>1. x \in Int
        BY <2>3
      <3>. HIDE DEF x
      <3>2. Total([cuts EXCEPT ![1] = x]) = Total(cuts) - cuts[1] + x
        BY <2>1, <3>1, TotalReplaced
      <3>. QED BY <2>1, <3>2, Zenon
    <2>. HIDE DEF m, r, x
    <2>7. Total(PartsOf(unchecked)) = total + (j + k) * m
      <3>1. j * m \in Int /\ k * m \in Int /\ (j + k) * m = j * m + k * m
        BY <2>1
      <3>. DEFINE jm == j * m
                  km == k * m
      <3>2. /\ jm \in Int /\ km \in Int
            /\ r = total - Total(cuts) + jm
            /\ Total(PartsOf(unchecked)) = Total(cuts) - cuts[1] + (cuts[1] + r + km)
        BY <3>1, <2>4, <2>5, <2>6 DEF remainder
      <3>. HIDE DEF jm, km
      <3>3. Total(PartsOf(unchecked)) = total + (jm + km)
        BY <2>1, <3>2
      <3>. QED BY <3>1, <3>3 DEF jm, km
    <2>. QED BY <2>1, <2>7, WrapUnturns DEF m
  <1>. QED BY <1>1, InputsAreInputs, PTL
----------------------------------------------------------------------------
\* What rounding takes from each payee, in parts of a minor unit.
leaves == [i \in 1..Len(shares) |-> total * shares[i] - FullShare * cuts[i]]

\* Each payee is cut towards zero by less than a unit.
LEMMA CutsLeave ==
    ASSUME InputOK, NoProductWraps
    PROVE  /\ leaves \in Seq(Int) /\ Len(leaves) = Len(shares)
           /\ \A i \in 1..Len(shares) :
                 /\ leaves[i] \in Int /\ leaves[i] = total * shares[i] - FullShare * cuts[i]
                 /\ total >= 0 => cuts[i] >= 0 /\ 0 <= leaves[i] /\ leaves[i] <= FullShare - 1
                 /\ total <= 0 => cuts[i] <= 0 /\ -(FullShare - 1) <= leaves[i] /\ leaves[i] <= 0
  <1>. DEFINE n == Len(shares)
  <1>1. /\ n \in Nat /\ total \in Int
        /\ \A i \in 1..n : /\ shares[i] \in Int /\ 0 <= shares[i] /\ cuts[i] \in Int
                           /\ cuts[i] = Cut(total, shares[i])
    BY CutsType
  <1>. HIDE DEF cuts
  <1>2. ASSUME NEW i \in 1..n
        PROVE  /\ total * shares[i] - FullShare * cuts[i] \in Int
               /\ total >= 0 => /\ cuts[i] >= 0
                                /\ 0 <= total * shares[i] - FullShare * cuts[i]
                                /\ total * shares[i] - FullShare * cuts[i] <= FullShare - 1
               /\ total <= 0 => /\ cuts[i] <= 0
                                /\ -(FullShare - 1) <= total * shares[i] - FullShare * cuts[i]
                                /\ total * shares[i] - FullShare * cuts[i] <= 0
    <2>. DEFINE x == total * shares[i]
    <2>1. x \in Int /\ (total >= 0 => x >= 0) /\ (total <= 0 => x <= 0)
      BY <1>1
    <2>2. cuts[i] = TruncDiv(x, FullShare)
      <3>1. Wrap(x) = x
        BY <2>1, WrapFits DEF NoProductWraps
      <3>. QED BY <1>1, <3>1 DEF Cut
    <2>. HIDE DEF x
    <2>3. x - FullShare * cuts[i] \in Int
      BY <1>1, <2>1, MoneyAssumption
    <2>4. /\ x >= 0 => cuts[i] >= 0 /\ 0 <= x - FullShare * cuts[i] /\ x - FullShare * cuts[i] <= FullShare - 1
          /\ x <= 0 => cuts[i] <= 0 /\ -(FullShare - 1) <= x - FullShare * cuts[i] /\ x - FullShare * cuts[i] <= 0
      BY <2>1, <2>2, TruncDivLeaves, MoneyAssumption
    <2>. QED BY <2>1, <2>3, <2>4 DEF x
  <1>3. leaves \in Seq(Int) /\ Len(leaves) = n
        /\ \A i \in 1..n : leaves[i] = total * shares[i] - FullShare * cuts[i]
    BY <1>1, <1>2 DEF leaves
  <1>. QED BY <1>2, <1>3

\* The remainder is what all the payees leave together.
LEMMA RemainderIsLeft ==
    ASSUME InputOK, NoProductWraps, ValidShares(shares)
    PROVE  /\ remainder \in Int
           /\ Total(leaves) \in Int /\ FullShare * remainder = Total(leaves)
           /\ total >= 0 => 0 <= Total(leaves) /\ Total(leaves) <= Len(shares) * (FullShare - 1) /\ remainder >= 0
           /\ total <= 0 => -(Len(shares) * (FullShare - 1)) <= Total(leaves) /\ Total(leaves) <= 0 /\ remainder <= 0
  <1>. DEFINE n == Len(shares)
              due == [i \in 1..n |-> total * shares[i]]
              paid == [i \in 1..n |-> FullShare * cuts[i]]
  <1>1. /\ n \in Nat /\ total \in Int /\ FullShare \in Int /\ FullShare > 0
        /\ shares \in Seq(Int) /\ \A i \in 1..n : shares[i] \in Int
        /\ cuts \in Seq(Int) /\ Len(cuts) = n /\ \A i \in 1..n : cuts[i] \in Int
        /\ Total(cuts) \in Int
    BY CutsType, MoneyAssumption
  <1>2. remainder \in Int
    BY <1>1 DEF remainder
  <1>3. due \in Seq(Int) /\ Len(due) = n /\ \A i \in 1..n : due[i] = total * shares[i]
    <2>1. \A i \in 1..n : total * shares[i] \in Int
      BY <1>1
    <2>. QED BY <1>1, <2>1
  <1>4. paid \in Seq(Int) /\ Len(paid) = n /\ \A i \in 1..n : paid[i] = FullShare * cuts[i]
    <2>1. \A i \in 1..n : FullShare * cuts[i] \in Int
      BY <1>1
    <2>. QED BY <1>1, <2>1
  <1>5. leaves \in Seq(Int) /\ Len(leaves) = n
        /\ \A i \in 1..n : leaves[i] = total * shares[i] - FullShare * cuts[i]
    BY CutsLeave
  <1>. HIDE DEF due, paid, n
  <1>6. Total(due) = total * FullShare
    <2>1. /\ total \in Int /\ shares \in Seq(Int) /\ due \in Seq(Int) /\ Len(due) = Len(shares)
          /\ \A i \in 1..Len(shares) : due[i] = total * shares[i]
      BY <1>1, <1>3, Zenon DEF n
    <2>2. Total(due) = total * Total(shares)
      BY ONLY <2>1, TotalScaled, Zenon
    <2>. QED BY <2>2 DEF ValidShares
  <1>7. Total(paid) = FullShare * Total(cuts)
    <2>1. /\ FullShare \in Int /\ cuts \in Seq(Int) /\ paid \in Seq(Int) /\ Len(paid) = Len(cuts)
          /\ \A i \in 1..Len(cuts) : paid[i] = FullShare * cuts[i]
      BY <1>1, <1>4, Zenon
    <2>. QED BY ONLY <2>1, TotalScaled, Zenon
  <1>8. Total(leaves) = Total(due) - Total(paid)
    <2>1. /\ due \in Seq(Int) /\ paid \in Seq(Int) /\ leaves \in Seq(Int)
          /\ Len(due) = Len(leaves) /\ Len(paid) = Len(leaves)
      BY <1>3, <1>4, <1>5, Zenon
    <2>2. \A i \in 1..Len(leaves) : leaves[i] = due[i] - paid[i]
      BY <1>3, <1>4, <1>5, Zenon
    <2>. QED BY ONLY <2>1, <2>2, TotalDifference, Zenon
  <1>9. Total(leaves) = FullShare * remainder
    BY <1>1, <1>6, <1>7, <1>8 DEF remainder
  <1>10. Total(leaves) \in Int
    BY <1>5, RunningDef
  <1>11. n \in 0..n /\ Total(leaves) = Running(leaves)[n]
    BY <1>1, <1>5 DEF Total
  <1>12. total >= 0 => 0 <= Total(leaves) /\ Total(leaves) <= n * (FullShare - 1)
    <2>. SUFFICES ASSUME total >= 0 PROVE 0 <= Total(leaves) /\ Total(leaves) <= n * (FullShare - 1)
      OBVIOUS
    <2>1. \A i \in 1..Len(leaves) : 0 <= leaves[i] /\ leaves[i] <= FullShare - 1
      BY <1>5, CutsLeave DEF n
    <2>2. n * 0 <= Running(leaves)[n] /\ Running(leaves)[n] <= n * (FullShare - 1)
      <3>1. FullShare - 1 \in Int
        BY <1>1
      <3>2. leaves \in Seq(Int) /\ n \in 0..Len(leaves) /\ 0 \in Int
        BY <1>5, <1>11
      <3>. QED BY ONLY <2>1, <3>1, <3>2, RunningBetween, Zenon
    <2>. QED BY <1>1, <1>11, <2>2
  <1>13. total <= 0 => -(n * (FullShare - 1)) <= Total(leaves) /\ Total(leaves) <= 0
    <2>. SUFFICES ASSUME total <= 0 PROVE -(n * (FullShare - 1)) <= Total(leaves) /\ Total(leaves) <= 0
      OBVIOUS
    <2>1. \A i \in 1..Len(leaves) : -(FullShare - 1) <= leaves[i] /\ leaves[i] <= 0
      BY <1>5, CutsLeave DEF n
    <2>2. n * (-(FullShare - 1)) <= Running(leaves)[n] /\ Running(leaves)[n] <= n * 0
      <3>1. -(FullShare - 1) \in Int
        BY <1>1
      <3>2. leaves \in Seq(Int) /\ n \in 0..Len(leaves) /\ 0 \in Int
        BY <1>5, <1>11
      <3>. QED BY ONLY <2>1, <3>1, <3>2, RunningBetween, Zenon
    <2>. QED BY <1>1, <1>11, <2>2
  <1>14. /\ Total(leaves) >= 0 => remainder >= 0
         /\ Total(leaves) <= 0 => remainder <= 0
    <2>1. ASSUME remainder <= -1 PROVE FullShare * remainder < 0
      BY <1>1, <1>2, <2>1
    <2>2. ASSUME remainder >= 1 PROVE FullShare * remainder > 0
      BY <1>1, <1>2, <2>2
    <2>. QED BY <1>2, <1>9, <1>10, <2>1, <2>2
  <1>. QED BY <1>2, <1>9, <1>10, <1>12, <1>13, <1>14 DEF n

\* What lies between -b and b is less than b, whatever its sign.
LEMMA AbsBelow ==
    ASSUME NEW x \in Int, NEW b \in Int, -b < x, x < b
    PROVE  Abs(x) < b
  BY DEF Abs

\* In a build with overflow checks every payee gets its share to within a
\* minor unit, and the first one to within one minor unit per payee.
THEOREM SplitIsFair == ASSUME OverflowChecks PROVE Spec => []SplitFair
  <1>1. InputOK => SplitFair
    <2>. SUFFICES ASSUME InputOK, IsOk(outcome)
                  PROVE  /\ \A i \in 2..Len(shares) :
                               ApplyModifierBps(payment, shares[i]) = Ok(outcome.value[i])
                         /\ \A i \in DOMAIN shares : Abs(parts[i] * FullShare - total * shares[i])
                               < FullShare * (IF i = 1 THEN Len(shares) ELSE 1)
      BY DEF SplitFair
    <2>. DEFINE n == Len(shares)
    <2>1. /\ NoProductWraps /\ ValidShares(shares) /\ 1 \in 1..n
          /\ parts[1] = cuts[1] + remainder
          /\ \A i \in 2..n : parts[i] = cuts[i]
          /\ outcome.value = [i \in 1..n |-> MoneyOf(parts[i], payment.currency)]
      BY PartsAreCuts
    <2>2. /\ n \in Nat /\ total \in Int /\ FullShare \in Int /\ FullShare > 0
          /\ DOMAIN shares = 1..n
          /\ \A i \in 1..n : /\ shares[i] \in Int /\ cuts[i] \in Int
                             /\ cuts[i] = Cut(total, shares[i])
      BY CutsType, MoneyAssumption
    <2>3. \A i \in 1..n :
             /\ leaves[i] \in Int /\ leaves[i] = total * shares[i] - FullShare * cuts[i]
             /\ total >= 0 => 0 <= leaves[i] /\ leaves[i] <= FullShare - 1
             /\ total <= 0 => -(FullShare - 1) <= leaves[i] /\ leaves[i] <= 0
      BY <2>1, CutsLeave
    <2>4. /\ remainder \in Int
          /\ Total(leaves) \in Int /\ FullShare * remainder = Total(leaves)
          /\ total >= 0 => 0 <= Total(leaves) /\ Total(leaves) <= n * (FullShare - 1)
          /\ total <= 0 => -(n * (FullShare - 1)) <= Total(leaves) /\ Total(leaves) <= 0
      BY <2>1, RemainderIsLeft
    <2>. HIDE DEF n, cuts, leaves, remainder
    <2>5. ASSUME NEW i \in 2..n
          PROVE  ApplyModifierBps(payment, shares[i]) = Ok(outcome.value[i])
      <3>1. i \in 1..n
        BY <2>2
      <3>2. Fits(payment.amount_minor_units * shares[i])
        BY <2>1, <3>1 DEF NoProductWraps, n, total
      <3>3. outcome.value[i] = MoneyOf(Cut(payment.amount_minor_units, shares[i]), payment.currency)
        BY <2>1, <2>2, <3>1 DEF total
      <3>. QED BY <3>2, <3>3 DEF ApplyModifierBps
    <2>6. ASSUME NEW i \in 1..n
          PROVE  Abs(parts[i] * FullShare - total * shares[i])
                    < FullShare * (IF i = 1 THEN n ELSE 1)
      <3>. DEFINE p == total * shares[i]
                  q == FullShare * cuts[i]
      <3>1. p \in Int /\ q \in Int /\ leaves[i] \in Int /\ leaves[i] = p - q
        BY <2>2, <2>3
      <3>2. CASE i = 1
        <4>1. parts[i] * FullShare = q + FullShare * remainder
          <5>1. parts[i] = cuts[i] + remainder /\ cuts[i] \in Int
            BY <2>1, <2>2, <3>2
          <5>. QED BY <2>2, <2>4, <5>1
        <4>. HIDE DEF p, q
        <4>2. parts[i] * FullShare - p = Total(leaves) - leaves[i]
          BY <2>4, <3>1, <4>1
        <4>3. n * (FullShare - 1) = FullShare * n - n /\ FullShare * n \in Int /\ n >= 1 /\ FullShare * n >= FullShare
          BY <2>1, <2>2
        <4>. DEFINE fn == FullShare * n
        <4>. HIDE DEF fn
        <4>4. /\ fn \in Int /\ fn >= FullShare /\ n >= 1
              /\ total >= 0 => Total(leaves) <= fn - n
              /\ total <= 0 => -(fn - n) <= Total(leaves)
          BY <2>4, <4>3 DEF fn
        <4>5. -fn < Total(leaves) - leaves[i] /\ Total(leaves) - leaves[i] < fn
          <5>. DEFINE t == Total(leaves)
                      l == leaves[i]
          <5>1. /\ t \in Int /\ l \in Int /\ total \in Int /\ n \in Int
                /\ total >= 0 => 0 <= l /\ l <= FullShare - 1 /\ 0 <= t
                /\ total <= 0 => -(FullShare - 1) <= l /\ l <= 0 /\ t <= 0
            BY <2>2, <2>3, <2>4
          <5>. HIDE DEF t, l
          <5>2. (total >= 0 => t <= fn - n) /\ (total <= 0 => -(fn - n) <= t)
            BY <4>4 DEF t
          <5>. DEFINE f == FullShare
          <5>3. f \in Int /\ fn \in Int /\ fn >= f /\ n >= 1
            BY <2>2, <4>4, MoneyAssumption
          <5>. HIDE DEF f
          <5>4. /\ total >= 0 => 0 <= l /\ l < f /\ 0 <= t /\ t < fn
                /\ total <= 0 => -f < l /\ l <= 0 /\ -fn < t /\ t <= 0
            <6>1. /\ total >= 0 => 0 <= l /\ l <= f - 1 /\ 0 <= t /\ t <= fn - n
                  /\ total <= 0 => -(f - 1) <= l /\ l <= 0 /\ -(fn - n) <= t /\ t <= 0
              BY <5>1, <5>2 DEF f
            <6>. QED BY ONLY <5>1, <5>3, <6>1
          <5>5. -fn < t - l /\ t - l < fn
            <6>1. CASE total >= 0
              BY ONLY <5>1, <5>3, <5>4, <6>1
            <6>2. CASE total <= 0
              BY ONLY <5>1, <5>3, <5>4, <6>2
            <6>. QED BY <5>1, <6>1, <6>2
          <5>. QED BY <5>5 DEF t, l
        <4>6. Abs(Total(leaves) - leaves[i]) < fn
          <5>. DEFINE d == Total(leaves) - leaves[i]
          <5>1. d \in Int /\ fn \in Int /\ -fn < d /\ d < fn
            BY ONLY <2>4, <3>1, <4>4, <4>5
          <5>. HIDE DEF d
          <5>2. Abs(d) < fn
            BY ONLY <5>1, AbsBelow
          <5>. QED BY ONLY <5>2 DEF d
        <4>. QED BY <3>2, <4>2, <4>6 DEF fn, p
      <3>3. CASE i # 1
        <4>1. parts[i] * FullShare = q
          <5>1. parts[i] = cuts[i] /\ cuts[i] \in Int
            BY <2>1, <2>2, <3>3
          <5>. DEFINE x == cuts[i]
          <5>. HIDE DEF x
          <5>2. parts[i] = x /\ x \in Int /\ FullShare \in Int
            BY <5>1, MoneyAssumption DEF x
          <5>3. x * FullShare = FullShare * x
            BY ONLY <5>2
          <5>. QED BY Zenon, <5>2, <5>3 DEF x
        <4>. HIDE DEF p, q
        <4>2. parts[i] * FullShare - p = -leaves[i]
          BY <3>1, <4>1
        <4>3. Abs(-leaves[i]) < FullShare
          <5>. DEFINE d == -leaves[i]
                      f == FullShare
          <5>1. /\ d \in Int /\ f \in Int
                /\ total >= 0 => -(f - 1) <= d /\ d <= 0
                /\ total <= 0 => 0 <= d /\ d <= f - 1
            <6>1. f \in Int
              BY MoneyAssumption
            <6>2. /\ leaves[i] \in Int
                  /\ total >= 0 => 0 <= leaves[i] /\ leaves[i] <= f - 1
                  /\ total <= 0 => -(f - 1) <= leaves[i] /\ leaves[i] <= 0
              BY Zenon, <2>2, <2>3
            <6>. DEFINE l == leaves[i]
            <6>. HIDE DEF l, f
            <6>3. /\ -l \in Int
                  /\ total >= 0 => -(f - 1) <= -l /\ -l <= 0
                  /\ total <= 0 => 0 <= -l /\ -l <= f - 1
              BY ONLY <6>1, <6>2 DEF l
            <6>. QED BY ONLY <6>1, <6>3 DEF l, d
          <5>2. total >= 0 \/ total <= 0
            BY <2>2
          <5>3. f >= 1
            BY MoneyAssumption
          <5>. HIDE DEF d, f
          <5>4. -f < d /\ d < f
            BY ONLY <5>1, <5>2, <5>3
          <5>5. Abs(d) < f
            BY ONLY <5>1, <5>4, AbsBelow
          <5>. QED BY ONLY <5>5 DEF d, f
        <4>. QED BY <2>2, <3>3, <4>2, <4>3 DEF p
      <3>. QED BY <3>2, <3>3
    <2>. QED BY <2>2, <2>5, <2>6 DEF n
  <1>. QED BY <1>1, InputsAreInputs, PTL

\* x lies between nothing and the payment.
Within(x) == x \in Int /\ (total >= 0 => 0 <= x /\ x <= total) /\ (total <= 0 => total <= x /\ x <= 0)

\* What lies between nothing and the payment fits the register.
LEMMA WithinFits ==
    ASSUME InputOK, NEW x, Within(x)
    PROVE  x \in Int /\ Fits(x)
  <1>1. total \in Int /\ Fits(total) /\ MinI64 <= 0 /\ 0 <= MaxI64 /\ MinI64 \in Int /\ MaxI64 \in Int
    BY CutsType, MachineIntAssumption DEF MinI64
  <1>. QED BY <1>1 DEF Within, Fits

\* Every subtotal of the loop lies between nothing and the payment, and so do
\* the remainder and the first part.
LEMMA CutsWithin ==
    ASSUME InputOK, NoProductWraps, ValidShares(shares)
    PROVE  /\ \A k \in 1..Len(shares) : Within(Running(cuts)[k])
           /\ Within(remainder) /\ Within(cuts[1] + remainder)
  <1>. DEFINE n == Len(shares)
  <1>1. /\ n \in Nat /\ n # 0 /\ 1 \in 1..n /\ 0 \in 0..n /\ total \in Int
        /\ cuts \in Seq(Int) /\ Len(cuts) = n /\ \A i \in 1..n : cuts[i] \in Int
        /\ Total(cuts) \in Int
    BY CutsType
  <1>2. /\ total >= 0 => \A i \in 1..n : cuts[i] >= 0
        /\ total <= 0 => \A i \in 1..n : cuts[i] <= 0
    BY CutsLeave
  <1>3. /\ remainder \in Int /\ remainder = total - Total(cuts)
        /\ total >= 0 => remainder >= 0
        /\ total <= 0 => remainder <= 0
    BY RemainderIsLeft DEF remainder
  <1>4. /\ \A k \in 0..n : Running(cuts)[k] \in Int
        /\ Running(cuts)[1] = cuts[1]
    <2>1. /\ Running(cuts) \in [0..n -> Int] /\ Running(cuts)[0] = 0
          /\ \A i \in 1..n : Running(cuts)[i] = Running(cuts)[i - 1] + cuts[i]
      BY <1>1, RunningDef
    <2>2. Running(cuts)[1] = 0 + cuts[1] /\ cuts[1] \in Int
      BY <1>1, <2>1
    <2>3. \A k \in 0..n : Running(cuts)[k] \in Int
      BY <2>1
    <2>4. \A c \in Int : 0 + c = c
      OBVIOUS
    <2>. QED BY <2>2, <2>3, <2>4, Zenon
  <1>. HIDE DEF n, cuts, remainder
  <1>5. ASSUME total >= 0, NEW k \in 0..n
        PROVE  0 <= Running(cuts)[k] /\ Running(cuts)[k] <= Total(cuts)
    BY <1>1, <1>2, <1>5, RunningGrows
  <1>6. ASSUME total <= 0, NEW k \in 0..n
        PROVE  Total(cuts) <= Running(cuts)[k] /\ Running(cuts)[k] <= 0
    BY <1>1, <1>2, <1>6, RunningFalls
  <1>7. ASSUME NEW k \in 1..n PROVE Within(Running(cuts)[k])
    <2>1. k \in 0..n /\ Running(cuts)[k] \in Int
      BY <1>1, <1>4
    <2>. QED BY <1>1, <1>3, <1>5, <1>6, <2>1 DEF Within
  <1>8. Within(remainder)
    <2>1. total >= 0 => Total(cuts) >= 0
      BY <1>1, <1>4, <1>5
    <2>2. total <= 0 => Total(cuts) <= 0
      BY <1>1, <1>4, <1>6
    <2>. QED BY <1>1, <1>3, <2>1, <2>2 DEF Within
  <1>9. Within(cuts[1] + remainder)
    <2>1. cuts[1] \in Int /\ 1 \in 0..n
      BY <1>1
    <2>2. total >= 0 => 0 <= cuts[1] /\ cuts[1] <= Total(cuts)
      BY <1>4, <1>5, <2>1
    <2>3. total <= 0 => Total(cuts) <= cuts[1] /\ cuts[1] <= 0
      BY <1>4, <1>6, <2>1
    <2>. QED BY <1>1, <1>3, <2>1, <2>2, <2>3 DEF Within
  <1>. QED BY <1>7, <1>8, <1>9 DEF n

\* In either build, a payment up to the range divided by a whole is split when,
\* and only when, its shares make up a whole, and never panics.
THEOREM SafeRangeIsSafe == Spec => []SplitSafeRange
  <1>1. InputOK => SplitSafeRange
    <2>. SUFFICES ASSUME InputOK, Abs(total) * FullShare <= MaxI64
                  PROVE  outcome.result = IF Total(shares) = FullShare THEN "Ok" ELSE "Err"
      BY DEF SplitSafeRange
    <2>. DEFINE n == Len(shares)
    <2>1. CASE Total(shares) # FullShare
      BY <2>1 DEF outcome, SplitBps, SplitBpsIn, ValidShares, Err
    <2>2. CASE Total(shares) = FullShare
      <3>1. ValidShares(shares)
        BY <2>2 DEF ValidShares
      <3>2. NoProductWraps
        <4>. SUFFICES ASSUME NEW i \in 1..n PROVE Fits(total * shares[i])
          BY DEF NoProductWraps
        <4>. DEFINE s == shares[i]
        <4>1. s \in Int /\ 0 <= s /\ s <= FullShare /\ total \in Int /\ FullShare \in Int
              /\ MaxI64 \in Int /\ MinI64 = -MaxI64 - 1
          BY CutsType, MoneyAssumption, MachineIntAssumption DEF MinI64
        <4>. HIDE DEF s
        <4>2. CASE total >= 0
          <5>1. total * FullShare <= MaxI64
            BY <4>1, <4>2 DEF Abs
          <5>2. 0 <= total * s /\ total * s <= total * FullShare
            BY <4>1, <4>2
          <5>3. total * s \in Int /\ total * FullShare \in Int
            BY <4>1
          <5>. QED BY <4>1, <5>1, <5>2, <5>3 DEF Fits, s
        <4>3. CASE total < 0
          <5>. DEFINE t == -total
          <5>1. t \in Int /\ t > 0 /\ t * FullShare <= MaxI64 /\ total = -t
            BY <4>1, <4>3 DEF Abs
          <5>. HIDE DEF t
          <5>2. 0 <= t * s /\ t * s <= t * FullShare
            BY <4>1, <5>1
          <5>3. t * s \in Int /\ t * FullShare \in Int /\ total * s = -(t * s)
            BY <4>1, <5>1
          <5>. QED BY <4>1, <5>1, <5>2, <5>3 DEF Fits, s
        <4>. QED BY <4>1, <4>2, <4>3
      <3>3. /\ \A i \in 1..n : Fits(total * shares[i]) /\ Fits(Running(cuts)[i])
            /\ Fits(remainder) /\ Fits(cuts[1] + remainder)
        BY <3>1, <3>2, CutsWithin, WithinFits DEF NoProductWraps
      <3>4. outcome = Ok([i \in 1..n |-> MoneyOf(WithRemainder(cuts, Wrap(remainder))[i], payment.currency)])
        BY <3>1, <3>3 DEF outcome, SplitBps, SplitBpsIn, cuts, remainder, total
      <3>. QED BY <2>2, <3>4 DEF Ok
    <2>. QED BY <2>1, <2>2
  <1>. QED BY <1>1, InputsAreInputs, PTL

\* No part has another sign than the payment, so no subtotal leaves the way
\* from nothing to the payment.
LEMMA PartsWithin ==
    ASSUME OverflowChecks, InputOK, IsOk(outcome)
    PROVE  /\ \A i \in 1..Len(shares) : parts[i] \in Int /\ total * parts[i] >= 0
           /\ \A k \in 0..Len(shares) : Within(Running(parts)[k]) /\ Within(total - Running(parts)[k])
  <1>. DEFINE n == Len(shares)
  <1>1. /\ NoProductWraps /\ ValidShares(shares) /\ n \in Nat /\ total \in Int
        /\ parts \in Seq(Int) /\ Len(parts) = n /\ \A i \in 1..n : parts[i] \in Int
        /\ parts[1] = cuts[1] + remainder
        /\ \A i \in 2..n : parts[i] = cuts[i]
    BY PartsAreCuts, CutsType
  <1>2. Within(cuts[1] + remainder)
    BY <1>1, CutsWithin
  <1>3. /\ total >= 0 => \A i \in 1..n : cuts[i] >= 0
        /\ total <= 0 => \A i \in 1..n : cuts[i] <= 0
    BY <1>1, CutsLeave
  <1>. HIDE DEF n, parts, cuts, remainder, total
  <1>4. ASSUME NEW i \in 1..n
        PROVE  (total >= 0 => parts[i] >= 0) /\ (total <= 0 => parts[i] <= 0)
    <2>1. CASE i = 1
      BY <1>1, <1>2, <2>1 DEF Within
    <2>2. CASE i # 1
      BY <1>1, <1>3, <2>2
    <2>. QED BY <2>1, <2>2
  <1>5. Total(parts) = total
    BY PartsTotal
  <1>6. ASSUME NEW k \in 0..n
        PROVE  Within(Running(parts)[k]) /\ Within(total - Running(parts)[k])
    <2>1. Running(parts)[k] \in Int
      BY <1>1, <1>6, RunningDef
    <2>2. total >= 0 => 0 <= Running(parts)[k] /\ Running(parts)[k] <= total
      BY <1>1, <1>4, <1>5, RunningGrows
    <2>3. total <= 0 => total <= Running(parts)[k] /\ Running(parts)[k] <= 0
      BY <1>1, <1>4, <1>5, RunningFalls
    <2>. QED BY <1>1, <2>1, <2>2, <2>3 DEF Within
  <1>7. ASSUME NEW i \in 1..n PROVE total * parts[i] >= 0
    <2>. DEFINE x == parts[i]
    <2>1. x \in Int /\ (total >= 0 => x >= 0) /\ (total <= 0 => x <= 0)
      BY <1>1, <1>4
    <2>. HIDE DEF x
    <2>2. total * x >= 0
      BY <1>1, <2>1
    <2>. QED BY <2>2 DEF x
  <1>. QED BY <1>1, <1>6, <1>7 DEF n

\* In a build with overflow checks the parts are paid out, and taken back, in
\* order by checked operations that all succeed.
THEOREM PayoutSucceeds == ASSUME OverflowChecks PROVE Spec => []PayoutAddsUp
  <1>1. InputOK => PayoutAddsUp
    <2>. SUFFICES ASSUME InputOK, IsOk(outcome)
                  PROVE  /\ Subtotals(Add, nothing)[Len(shares)] = Ok(payment)
                         /\ Subtotals(Subtract, payment)[Len(shares)] = Ok(nothing)
                         /\ \A i \in DOMAIN shares : total * parts[i] >= 0
      BY DEF PayoutAddsUp
    <2>. DEFINE n == Len(shares)
                r == Running(parts)
                c == payment.currency
                paid(x) == Ok(MoneyOf(x, c))
    <2>1. /\ n \in Nat /\ total \in Int /\ DOMAIN shares = 1..n /\ n \in 0..n
          /\ payment = MoneyOf(total, c)
      BY CutsType DEF Monies, MoneyOf, total
    <2>2. /\ r[0] = 0 /\ r[n] = total
          /\ \A i \in 1..n : r[i] = r[i - 1] + parts[i] /\ i \in 0..n /\ i - 1 \in 0..n
      BY <2>1, PartsAreCuts, PartsTotal, RunningDef DEF Total
    <2>3. \A k \in 0..n : r[k] \in Int /\ Fits(r[k]) /\ Fits(total - r[k])
      BY PartsWithin, WithinFits DEF Within
    <2>4. \A i \in 1..n : parts[i] \in Int /\ total * parts[i] >= 0
      BY PartsWithin
    <2>5. \A i \in 1..n : outcome.value[i] = MoneyOf(parts[i], c)
      BY PartsAreCuts
    <2>. HIDE DEF n, r, total, parts, outcome, c
    <2>6. Subtotals(Add, nothing)[n] = Ok(payment)
      <3>. DEFINE IsSub(f) == f = [i \in 0..n |->
                     IF i = 0 THEN Ok(nothing)
                     ELSE IF IsOk(f[i - 1]) THEN Add(f[i - 1].value, outcome.value[i])
                     ELSE f[i - 1]]
                  g == [i \in 0..n |-> paid(r[i])]
                  h == Subtotals(Add, nothing)
      <3>1. \A i \in 1..n : Add(MoneyOf(r[i - 1], c), outcome.value[i]) = paid(r[i])
        <4>. SUFFICES ASSUME NEW i \in 1..n
                      PROVE  Add(MoneyOf(r[i - 1], c), MoneyOf(parts[i], c)) = paid(r[i])
          BY <2>5
        <4>1. r[i - 1] + parts[i] = r[i] /\ Fits(r[i])
          BY <2>2, <2>3, <2>4
        <4>. QED BY <4>1 DEF Add, Checked, MoneyOf
      <3>2. IsSub(g)
        BY <2>1, <2>2, <3>1 DEF IsOk, Ok, nothing, c
      <3>3. h = CHOOSE f : IsSub(f)
        BY DEF Subtotals, n
      <3>4. IsSub(h)
        BY <3>2, <3>3, Zenon
      <3>. DEFINE T == {i \in 0..n : h[i] = paid(r[i])}
      <3>. HIDE DEF h
      <3>5. 0 \in T
        BY <2>1, <2>2, <3>4 DEF nothing, c
      <3>6. ASSUME NEW i \in 1..n, i - 1 \in T PROVE i \in T
        <4>1. h[i] = IF IsOk(h[i - 1]) THEN Add(h[i - 1].value, outcome.value[i]) ELSE h[i - 1]
          BY <2>2, <3>4
        <4>2. h[i - 1] = paid(r[i - 1])
          BY <3>6
        <4>3. IsOk(h[i - 1]) /\ h[i - 1].value = MoneyOf(r[i - 1], c)
          BY <4>2 DEF IsOk, Ok
        <4>. QED BY <2>2, <3>1, <4>1, <4>3
      <3>. HIDE DEF T
      <3>7. 0..n \subseteq T
        BY <2>1, <3>5, <3>6, Reaches
      <3>. QED BY <2>1, <2>2, <3>7 DEF T, h
    <2>7. Subtotals(Subtract, payment)[n] = Ok(nothing)
      <3>. DEFINE IsSub(f) == f = [i \in 0..n |->
                     IF i = 0 THEN Ok(payment)
                     ELSE IF IsOk(f[i - 1]) THEN Subtract(f[i - 1].value, outcome.value[i])
                     ELSE f[i - 1]]
                  g == [i \in 0..n |-> paid(total - r[i])]
                  h == Subtotals(Subtract, payment)
      <3>1. \A i \in 1..n : Subtract(MoneyOf(total - r[i - 1], c), outcome.value[i]) = paid(total - r[i])
        <4>. SUFFICES ASSUME NEW i \in 1..n
                      PROVE  Subtract(MoneyOf(total - r[i - 1], c), MoneyOf(parts[i], c)) = paid(total - r[i])
          BY <2>5
        <4>1. total - r[i - 1] - parts[i] = total - r[i] /\ Fits(total - r[i])
          <5>. DEFINE a == r[i - 1]
                      b == r[i]
          <5>1. a \in Int /\ parts[i] \in Int /\ b = a + parts[i] /\ Fits(total - b)
            BY <2>2, <2>3, <2>4
          <5>. HIDE DEF a, b
          <5>2. total - a - parts[i] = total - b
            BY <2>1, <5>1
          <5>. QED BY <5>1, <5>2 DEF a, b
        <4>. QED BY <4>1 DEF Subtract, Checked, MoneyOf
      <3>2. IsSub(g)
        BY <2>1, <2>2, <3>1 DEF IsOk, Ok, c
      <3>3. h = CHOOSE f : IsSub(f)
        BY DEF Subtotals, n
      <3>4. IsSub(h)
        BY <3>2, <3>3, Zenon
      <3>. DEFINE T == {i \in 0..n : h[i] = paid(total - r[i])}
      <3>. HIDE DEF h
      <3>5. 0 \in T
        BY <2>1, <2>2, <3>4 DEF c
      <3>6. ASSUME NEW i \in 1..n, i - 1 \in T PROVE i \in T
        <4>1. h[i] = IF IsOk(h[i - 1]) THEN Subtract(h[i - 1].value, outcome.value[i]) ELSE h[i - 1]
          BY <2>2, <3>4
        <4>2. h[i - 1] = paid(total - r[i - 1])
          BY <3>6
        <4>3. IsOk(h[i - 1]) /\ h[i - 1].value = MoneyOf(total - r[i - 1], c)
          BY <4>2 DEF IsOk, Ok
        <4>. QED BY <2>2, <3>1, <4>1, <4>3
      <3>. HIDE DEF T
      <3>7. 0..n \subseteq T
        BY <2>1, <3>5, <3>6, Reaches
      <3>. QED BY <2>1, <2>2, <3>7 DEF T, h, nothing, c
    <2>8. \A i \in DOMAIN shares : total * parts[i] >= 0
      BY <2>1, <2>4
    <2>. QED BY <2>6, <2>7, <2>8, Zenon DEF n
  <1>. QED BY <1>1, InputsAreInputs, PTL
=============================================================================
