---------------------------- MODULE LedgerProofs ----------------------------
(***************************************************************************)
(* What holds of MoneyLedger for ledgers of every length and any width of  *)
(* the machine's integers.                                                 *)
(***************************************************************************)
EXTENDS MoneyLedger, Induction, FiniteSetTheorems

IInv == TypeOK /\ IdsSequential

\* The empty ledger hands out id 1 next.
LEMMA InitIInv == Init => IInv
  BY MoneyLedgerAssumption DEF Init, IInv, TypeOK, IdsSequential

\* An append takes the next id and leaves the entries before it as they are.
LEMMA StepIInv == IInv /\ [Next]_vars => IInv'
  <1>. SUFFICES ASSUME IInv, [Next]_vars PROVE IInv'
    OBVIOUS
  <1>1. ASSUME NEW id \in CallerIds, NEW a \in Agents, NEW d \in MoneyDirection, NEW m \in Movements,
               AppendEntry([entry_id |-> id, agent_id |-> a, direction |-> d, amount |-> m])
        PROVE  IInv'
    <2>. DEFINE n == Len(entries)
                e == [entry_id |-> next_entry_id, agent_id |-> a, direction |-> d, amount |-> m]
    <2>1. /\ entries \in Seq(MoneyEntry) /\ n \in Nat /\ n < MaxEntries
          /\ next_entry_id = n + 1 /\ next_entry_id \in Nat
          /\ entries' = Append(entries, e)
          /\ next_entry_id' = next_entry_id + 1
          /\ \A i \in 1..n : entries[i].entry_id = i
      BY <1>1 DEF IInv, TypeOK, IdsSequential, AppendEntry
    <2>2. e \in MoneyEntry /\ e.entry_id = n + 1
      BY <2>1 DEF MoneyEntry
    <2>. HIDE DEF e
    <2>3. /\ entries' \in Seq(MoneyEntry) /\ Len(entries') = n + 1
          /\ entries'[n + 1] = e
          /\ \A i \in 1..n : entries'[i] = entries[i]
      BY <2>1, <2>2
    <2>. HIDE DEF n
    <2>4. TypeOK'
      BY <2>1, <2>3, MoneyLedgerAssumption DEF TypeOK
    <2>5. \A i \in 1..(n + 1) : entries'[i].entry_id = i
      BY <2>1, <2>2, <2>3
    <2>6. IdsSequential'
      BY <2>1, <2>3, <2>5 DEF IdsSequential
    <2>. QED BY <2>4, <2>6 DEF IInv
  <1>2. CASE UNCHANGED vars
    BY <1>2 DEF vars, IInv, TypeOK, IdsSequential
  <1>. QED BY <1>1, <1>2 DEF Next
----------------------------------------------------------------------------
\* Masking a sequence of numbers leaves a sequence of numbers.
LEMMA OnlyAtType ==
    ASSUME NEW s \in Seq(Int), NEW S
    PROVE  /\ OnlyAt(s, S) \in Seq(Int)
           /\ Len(OnlyAt(s, S)) = Len(s)
           /\ \A i \in 1..Len(s) : OnlyAt(s, S)[i] = IF i \in S THEN s[i] ELSE 0
  BY DEF OnlyAt

\* Every entry has a direction of the four and an amount, so a delta.
LEMMA DeltasType ==
    ASSUME TypeOK
    PROVE  /\ Deltas \in Seq(Int) /\ Len(Deltas) = Len(entries)
           /\ Len(entries) \in Nat /\ DOMAIN entries = 1..Len(entries)
           /\ \A i \in 1..Len(entries) : /\ entries[i].direction \in MoneyDirection
                                         /\ entries[i].amount.amount_minor_units \in Int
  <1>. DEFINE n == Len(entries)
  <1>1. /\ n \in Nat /\ DOMAIN entries = 1..n
        /\ \A i \in 1..n : /\ entries[i].direction \in MoneyDirection
                           /\ entries[i].amount.amount_minor_units \in Int
    <2>1. ASSUME NEW i \in 1..n
          PROVE  /\ entries[i].direction \in MoneyDirection
                 /\ entries[i].amount.amount_minor_units \in Int
      <3>1. entries[i] \in MoneyEntry
        BY DEF TypeOK
      <3>2. entries[i].amount \in Monies
        BY <3>1, MoneyLedgerAssumption DEF MoneyEntry
      <3>. QED BY <3>1, <3>2 DEF MoneyEntry, Monies
    <2>. QED BY <2>1 DEF TypeOK
  <1>. HIDE DEF n
  <1>2. Deltas \in Seq(Int) /\ Len(Deltas) = n
    BY <1>1 DEF Deltas, Delta
  <1>. QED BY <1>1, <1>2 DEF n

\* Over any entries, the deltas add up to what comes in less what goes out.
LEMMA SidesDiffer ==
    ASSUME TypeOK, NEW S \in SUBSET DOMAIN entries
    PROVE  /\ Running(OnlyAt(Deltas, S)) \in [0..Len(entries) -> Int]
           /\ Running(OnlyAt(Deltas, S))[0] = 0
           /\ Incoming(S) \in Int /\ Outgoing(S) \in Int
           /\ Running(OnlyAt(Deltas, S))[Len(entries)] = Incoming(S) - Outgoing(S)
  <1>. DEFINE n == Len(entries)
              in == OnlyAt(Amounts, S \cap Going({"Credit", "Release"}))
              out == OnlyAt(Amounts, S \cap Going({"Debit", "Hold"}))
              all == OnlyAt(Deltas, S)
  <1>1. /\ n \in Nat /\ DOMAIN entries = 1..n /\ Deltas \in Seq(Int) /\ Len(Deltas) = n
        /\ \A i \in 1..n : /\ entries[i].direction \in MoneyDirection
                           /\ entries[i].amount.amount_minor_units \in Int
    BY DeltasType
  <1>. HIDE DEF n
  <1>2. Amounts \in Seq(Int) /\ Len(Amounts) = n
    BY <1>1 DEF Amounts
  <1>3. /\ in \in Seq(Int) /\ out \in Seq(Int) /\ all \in Seq(Int)
        /\ Len(in) = n /\ Len(out) = n /\ Len(all) = n
    BY <1>1, <1>2, OnlyAtType
  <1>4. ASSUME NEW i \in 1..n PROVE all[i] = in[i] - out[i]
    <2>0. i \in DOMAIN entries /\ i \in DOMAIN Amounts /\ i \in DOMAIN Deltas
      BY <1>1 DEF Amounts, Deltas
    <2>1. /\ in[i] = IF i \in S /\ entries[i].direction \in {"Credit", "Release"}
                     THEN entries[i].amount.amount_minor_units ELSE 0
          /\ out[i] = IF i \in S /\ entries[i].direction \in {"Debit", "Hold"}
                      THEN entries[i].amount.amount_minor_units ELSE 0
      BY <2>0 DEF OnlyAt, Amounts, Going
    <2>2. all[i] = IF i \in S THEN Delta(entries[i]) ELSE 0
      BY <2>0 DEF OnlyAt, Deltas
    <2>. QED BY <1>1, <2>1, <2>2 DEF Delta, MoneyDirection
  <1>. HIDE DEF in, out, all
  <1>5. Total(all) = Total(in) - Total(out)
    BY <1>3, <1>4, TotalDifference
  <1>6. /\ Running(all) \in [0..n -> Int] /\ Running(all)[0] = 0
        /\ Total(in) \in Int /\ Total(out) \in Int
    BY <1>3, RunningDef
  <1>. QED BY <1>3, <1>5, <1>6 DEF Total, Incoming, Outgoing, in, out, all, n
\* Where no accumulator overflows, each holds the exact difference of the two
\* sides of its currency, and the register leaves it as it is.
LEMMA AccumulatorExact ==
    ASSUME TypeOK, ~BalanceOverflows, NEW c \in Currency
    PROVE  /\ Accumulator(c)[Len(entries)] = Incoming(EntriesIn(c)) - Outgoing(EntriesIn(c))
           /\ Incoming(EntriesIn(c)) \in Int /\ Outgoing(EntriesIn(c)) \in Int
           /\ Wrap(Accumulator(c)[Len(entries)]) = Accumulator(c)[Len(entries)]
  <1>. DEFINE n == Len(entries)
  <1>1. n \in Nat /\ DOMAIN entries = 1..n
    BY DeltasType
  <1>2. /\ Accumulator(c) \in [0..n -> Int] /\ Accumulator(c)[0] = 0
        /\ Incoming(EntriesIn(c)) \in Int /\ Outgoing(EntriesIn(c)) \in Int
        /\ Accumulator(c)[n] = Incoming(EntriesIn(c)) - Outgoing(EntriesIn(c))
    <2>1. EntriesIn(c) \in SUBSET DOMAIN entries
      BY DEF EntriesIn
    <2>. QED BY <2>1, SidesDiffer DEF Accumulator
  <1>3. Fits(Accumulator(c)[n])
    <2>1. CASE n = 0
      BY <1>2, <2>1, MachineIntAssumption DEF Fits, MinI64
    <2>2. CASE n # 0
      <3>1. n \in DOMAIN entries
        BY <1>1, <2>2
      <3>. QED BY <3>1 DEF BalanceOverflows
    <2>. QED BY <2>1, <2>2
  <1>4. Wrap(Accumulator(c)[n]) = Accumulator(c)[n]
    BY <1>1, <1>2, <1>3, WrapFits
  <1>. QED BY <1>2, <1>4
----------------------------------------------------------------------------
(***************************************************************************)
(* The sum of the agents' nets is taken one agent at a time, in an order   *)
(* nobody knows.  Whatever it is, after any of them (T) it has come to     *)
(* what the entries of those agents add up to (Together).                  *)
(***************************************************************************)
\* The deltas of two disjoint lots of entries add up to those of both together.
LEMMA LotsAddUp ==
    ASSUME TypeOK, NEW S, NEW T, S \cap T = {}
    PROVE  /\ Total(OnlyAt(Deltas, S)) \in Int /\ Total(OnlyAt(Deltas, T)) \in Int
           /\ Total(OnlyAt(Deltas, S \cup T)) = Total(OnlyAt(Deltas, S)) + Total(OnlyAt(Deltas, T))
  <1>. DEFINE n == Len(entries)
              s == OnlyAt(Deltas, S)
              t == OnlyAt(Deltas, T)
              u == OnlyAt(Deltas, S \cup T)
  <1>1. Deltas \in Seq(Int) /\ Len(Deltas) = n
    BY DeltasType
  <1>2. /\ s \in Seq(Int) /\ t \in Seq(Int) /\ u \in Seq(Int)
        /\ Len(s) = n /\ Len(t) = n /\ Len(u) = n
        /\ \A i \in 1..n : /\ s[i] = IF i \in S THEN Deltas[i] ELSE 0
                           /\ t[i] = IF i \in T THEN Deltas[i] ELSE 0
                           /\ u[i] = IF i \in S \cup T THEN Deltas[i] ELSE 0
                           /\ Deltas[i] \in Int
    BY <1>1, OnlyAtType
  <1>. HIDE DEF s, t, u
  <1>3. ASSUME NEW i \in 1..n PROVE s[i] = u[i] - t[i]
    <2>1. ~(i \in S /\ i \in T) /\ (i \in S \cup T <=> i \in S \/ i \in T)
      OBVIOUS
    <2>2. /\ s[i] = IF i \in S THEN Deltas[i] ELSE 0
          /\ t[i] = IF i \in T THEN Deltas[i] ELSE 0
          /\ u[i] = IF i \in S \/ i \in T THEN Deltas[i] ELSE 0
          /\ Deltas[i] \in Int
      BY <1>2, <2>1
    <2>. QED BY ONLY <2>1, <2>2
  <1>4. Total(s) = Total(u) - Total(t)
    BY <1>2, <1>3, TotalDifference
  <1>5. Total(s) \in Int /\ Total(t) \in Int /\ Total(u) \in Int
    BY <1>2, RunningDef
  <1>. QED BY <1>4, <1>5 DEF s, t, u

\* The entries of some agents in a currency, and what they add up to.
EntriesOf(T, c) == {i \in DOMAIN entries : entries[i].agent_id \in T} \cap EntriesIn(c)
Together(T, c) == Total(OnlyAt(Deltas, EntriesOf(T, c)))

\* The entries of one agent more are those of the others and its own.
LEMMA OneMore ==
    ASSUME TypeOK, NEW T, NEW c, NEW a \in T
    PROVE  /\ Together(T, c) \in Int /\ Together({}, c) = 0
           /\ Together(T, c) = Together({a}, c) + Together(T \ {a}, c)
  <1>1. EntriesOf({a}, c) \cap EntriesOf(T \ {a}, c) = {}
    BY DEF EntriesOf
  <1>2. EntriesOf({a}, c) \cup EntriesOf(T \ {a}, c) = EntriesOf(T, c)
    BY DEF EntriesOf
  <1>3. EntriesOf({}, c) = {}
    BY DEF EntriesOf
  <1>4. {} \cap {} = {} /\ {} \cup {} = {}
    OBVIOUS
  <1>5. Together({}, c) = Together({}, c) + Together({}, c) /\ Together({}, c) \in Int
    BY <1>3, <1>4, LotsAddUp DEF Together
  <1>6. Together({}, c) = 0
    BY <1>5, TwiceItself
  <1>7. /\ Together({a}, c) \in Int /\ Together(T \ {a}, c) \in Int
        /\ Together(T, c) = Together({a}, c) + Together(T \ {a}, c)
    BY <1>1, <1>2, LotsAddUp DEF Together
  <1>. HIDE DEF Together
  <1>8. Together(T, c) \in Int
    BY <1>7
  <1>. QED BY <1>6, <1>7, <1>8

\* Where net_balance() answers for every agent that has entries, an agent's net
\* in a currency is what its entries in that currency add up to.
LEMMA NetIsTogether ==
    ASSUME TypeOK, NEW c, NEW a, EntriesForAgent(a) # {} => IsOk(NetBalance(a))
    PROVE  NetAmount(a, c) = Together({a}, c)
  <1>. DEFINE own == EntriesForAgent(a)
              currency == entries[First(own)].amount.currency
              net == Running(OnlyAt(Deltas, own))
              stops == (own \ EntriesIn(currency)) \cup {i \in own : ~Fits(net[i])}
  <1>1. EntriesOf({a}, c) = own \cap EntriesIn(c)
    BY DEF EntriesOf, EntriesForAgent
  <1>2. CASE own = {}
    <2>1. NetAmount(a, c) = 0
      BY <1>2 DEF NetAmount, NetBalance, IsOk, Err
    <2>2. EntriesOf({a}, c) = {} /\ EntriesOf({}, c) = {}
      BY <1>1, <1>2 DEF EntriesOf
    <2>3. Together({}, c) = 0
      BY OneMore
    <2>. QED BY <2>1, <2>2, <2>3 DEF Together
  <1>3. CASE own # {}
    <2>1. stops = {} /\ IsOk(NetBalance(a))
      BY <1>3 DEF NetBalance, IsOk, Err
    <2>2. NetBalance(a).value = MoneyOf(net[Len(entries)], currency)
      BY <1>3, <2>1 DEF NetBalance, Ok
    <2>3. own \subseteq EntriesIn(currency) /\ own \subseteq DOMAIN entries
      BY <2>1 DEF EntriesForAgent
    <2>4. CASE c = currency
      <3>1. EntriesOf({a}, c) = own
        BY <1>1, <2>3, <2>4
      <3>2. NetAmount(a, c) = net[Len(entries)]
        BY <2>1, <2>2, <2>4 DEF NetAmount, MoneyOf
      <3>3. Len(OnlyAt(Deltas, own)) = Len(entries)
        BY DeltasType, OnlyAtType
      <3>. QED BY <3>1, <3>2, <3>3 DEF Together, Total
    <2>5. CASE c # currency
      <3>1. EntriesOf({a}, c) = {} /\ EntriesOf({}, c) = {}
        BY <1>1, <2>3, <2>5 DEF EntriesOf, EntriesIn
      <3>2. NetAmount(a, c) = 0
        BY <2>1, <2>2, <2>5 DEF NetAmount, MoneyOf
      <3>3. Together({}, c) = 0
        BY OneMore
      <3>. QED BY <3>1, <3>2, <3>3 DEF Together
    <2>. QED BY <2>4, <2>5
  <1>. QED BY <1>2, <1>3

\* Summed over the agents in whatever order, the nets in a currency are what the
\* entries of all agents in it add up to.
LEMMA NetsAddUp ==
    ASSUME TypeOK, NEW c, \A a \in Agents : EntriesForAgent(a) # {} => IsOk(NetBalance(a))
    PROVE  NetSum(c) = Together(Agents, c)
  <1>. DEFINE Step(f) == [T \in SUBSET Agents |->
                            IF T = {} THEN 0
                            ELSE LET a == CHOOSE a \in T : TRUE IN NetAmount(a, c) + f[T \ {a}]]
              sum == CHOOSE f : f = Step(f)
              g == [T \in SUBSET Agents |-> Together(T, c)]
  <1>1. NetSum(c) = sum[Agents]
    BY DEF NetSum, MapThenSumSet, MapThenFoldSet
  <1>0. \A T : \A a \in T : Together(T, c) = Together({a}, c) + Together(T \ {a}, c)
    BY OneMore
  <1>2. \A T \in SUBSET Agents :
            T # {} => LET a == CHOOSE a \in T : TRUE IN
                      a \in T /\ Together(T, c) = NetAmount(a, c) + Together(T \ {a}, c)
    <2>. SUFFICES ASSUME NEW T \in SUBSET Agents, T # {}, NEW a, a = CHOOSE x \in T : TRUE
                  PROVE  a \in T /\ Together(T, c) = NetAmount(a, c) + Together(T \ {a}, c)
      OBVIOUS
    <2>1. a \in T /\ a \in Agents
      OBVIOUS
    <2>2. NetAmount(a, c) = Together({a}, c)
      BY <2>1, NetIsTogether
    <2>3. Together(T, c) = Together({a}, c) + Together(T \ {a}, c)
      BY <1>0, <2>1
    <2>. QED BY <2>1, <2>2, <2>3
  <1>3. g = Step(g)
    <2>1. Together({}, c) = 0
      BY OneMore
    <2>2. ASSUME NEW T \in SUBSET Agents
          PROVE  g[T] = IF T = {} THEN 0
                        ELSE LET a == CHOOSE a \in T : TRUE IN NetAmount(a, c) + g[T \ {a}]
      BY <1>2, <2>1
    <2>. QED BY <2>2
  <1>4. sum = Step(sum)
    <2>. HIDE DEF Step, g
    <2>. QED BY <1>3
  <1>. HIDE DEF sum
  <1>5. \A T \in SUBSET Agents :
           sum[T] = IF T = {} THEN 0
                    ELSE LET a == CHOOSE a \in T : TRUE IN NetAmount(a, c) + sum[T \ {a}]
    BY <1>4
  <1>. DEFINE n == Cardinality(Agents)
              K == {k \in 0..n : \A T \in SUBSET Agents : Cardinality(T) = k => sum[T] = Together(T, c)}
  <1>6. /\ IsFiniteSet(Agents) /\ n \in Nat
        /\ \A T \in SUBSET Agents : IsFiniteSet(T) /\ Cardinality(T) \in Nat
    BY MoneyLedgerAssumption, FS_Subset, FS_CardinalityType
  <1>7. 0 \in K
    <2>1. ASSUME NEW T \in SUBSET Agents, Cardinality(T) = 0 PROVE sum[T] = Together(T, c)
      <3>1. T = {}
        BY <1>6, <2>1, FS_EmptySet
      <3>. QED BY <1>5, <3>1, OneMore
    <2>. QED BY <1>6, <2>1
  <1>8. ASSUME NEW k \in 1..n, k - 1 \in K PROVE k \in K
    <2>1. ASSUME NEW T \in SUBSET Agents, Cardinality(T) = k PROVE sum[T] = Together(T, c)
      <3>1. T # {}
        BY <2>1, FS_EmptySet
      <3>2. PICK a : a = CHOOSE x \in T : TRUE
        OBVIOUS
      <3>3. a \in T /\ Together(T, c) = NetAmount(a, c) + Together(T \ {a}, c)
        BY <1>2, <3>1, <3>2
      <3>4. sum[T] = NetAmount(a, c) + sum[T \ {a}]
        BY <1>5, <3>1, <3>2
      <3>5. T \ {a} \in SUBSET Agents /\ Cardinality(T \ {a}) = k - 1
        BY <1>6, <2>1, <3>3, FS_RemoveElement
      <3>6. sum[T \ {a}] = Together(T \ {a}, c)
        BY <1>8, <3>5
      <3>. QED BY <3>3, <3>4, <3>6
    <2>. QED BY <1>6, <2>1
  <1>. HIDE DEF K
  <1>9. n \in K
    BY <1>6, <1>7, <1>8, Reaches
  <1>10. sum[Agents] = Together(Agents, c)
    BY <1>9 DEF K
  <1>. QED BY <1>1, <1>10
----------------------------------------------------------------------------
\* Entries are well typed.
THEOREM TypeCorrect == Spec => []TypeOK
  <1>1. IInv => TypeOK BY DEF IInv
  <1>. QED BY <1>1, InitIInv, StepIInv, PTL DEF Spec

\* Entry ids count the appends, whatever ids callers fill in.
THEOREM IdsCount == Spec => []IdsSequential
  <1>1. IInv => IdsSequential BY DEF IInv
  <1>. QED BY <1>1, InitIInv, StepIInv, PTL DEF Spec

\* Where net_balance() answers, its answer is the exact balance of the agent.
THEOREM NetBalanceIsSound == Spec => []NetBalanceSound
  <1>1. TypeOK => NetBalanceSound
    <2>. SUFFICES ASSUME TypeOK, NEW a \in Agents, IsOk(NetBalance(a))
                  PROVE  LET net == NetBalance(a).value
                             own == EntriesForAgent(a)
                         IN  /\ net.amount_minor_units = Incoming(own) - Outgoing(own)
                             /\ own \subseteq EntriesIn(net.currency)
      BY DEF NetBalanceSound
    <2>. DEFINE own == EntriesForAgent(a)
                currency == entries[First(own)].amount.currency
                net == Running(OnlyAt(Deltas, own))
                stops == (own \ EntriesIn(currency)) \cup {i \in own : ~Fits(net[i])}
    <2>1. own # {} /\ stops = {}
      BY DEF NetBalance, IsOk, Err
    <2>2. NetBalance(a).value = MoneyOf(net[Len(entries)], currency)
      BY <2>1 DEF NetBalance, Ok
    <2>3. own \in SUBSET DOMAIN entries
      BY DEF EntriesForAgent
    <2>4. net[Len(entries)] = Incoming(own) - Outgoing(own)
      BY <2>3, SidesDiffer
    <2>5. own \subseteq EntriesIn(currency)
      BY <2>1
    <2>. QED BY <2>2, <2>4, <2>5 DEF MoneyOf
  <1>. QED BY <1>1, TypeCorrect, PTL

\* In a build with overflow checks verify_balance() answers true exactly when
\* both sides of every currency are equal.
THEOREM VerdictIsExact ==
    ASSUME OverflowChecks PROVE Spec => []BalanceVerdictExact
  <1>1. TypeOK => BalanceVerdictExact
    <2>. SUFFICES ASSUME TypeOK, IsOk(VerifyBalance)
                  PROVE  VerifyBalance.value
                         <=> \A c \in Currency : Incoming(EntriesIn(c)) = Outgoing(EntriesIn(c))
      BY DEF BalanceVerdictExact
    <2>. DEFINE n == Len(entries)
    <2>1. n \in Nat /\ DOMAIN entries = 1..n
      BY DEF TypeOK
    <2>2. ~BalanceOverflows
      BY DEF VerifyBalance, IsOk, Panic
    <2>3. VerifyBalance.value = \A c \in Currency : Wrap(Accumulator(c)[n]) = 0
      BY <2>2 DEF VerifyBalance, Ok
    <2>4. ASSUME NEW c \in Currency
          PROVE  Wrap(Accumulator(c)[n]) = 0 <=> Incoming(EntriesIn(c)) = Outgoing(EntriesIn(c))
      BY <2>2, AccumulatorExact
    <2>. QED BY <2>3, <2>4
  <1>. QED BY <1>1, TypeCorrect, PTL

\* In a build with overflow checks, the two sums agree: where verify_balance()
\* says the ledger balances, the agents' net balances cancel out.
THEOREM BalancedNetsDoCancel ==
    ASSUME OverflowChecks PROVE Spec => []BalancedNetsCancel
  <1>1. TypeOK => BalancedNetsCancel
    <2>. SUFFICES ASSUME TypeOK PROVE BalancedNetsCancel
      OBVIOUS
    <2>. SUFFICES ASSUME VerifyBalance = Ok(TRUE),
                         \A a \in Agents : EntriesForAgent(a) # {} => IsOk(NetBalance(a))
                  PROVE  \A c \in Currency : NetSum(c) = 0
      BY DEF BalancedNetsCancel
    <2>. TAKE c \in Currency
    <2>. DEFINE n == Len(entries)
    <2>1. n \in Nat /\ DOMAIN entries = 1..n /\ \A i \in 1..n : entries[i].agent_id \in Agents
      <3>1. ASSUME NEW i \in 1..n PROVE entries[i].agent_id \in Agents
        <4>1. entries[i] \in MoneyEntry
          BY DEF TypeOK
        <4>. QED BY <4>1 DEF MoneyEntry
      <3>. QED BY <3>1, DeltasType
    <2>2. IsOk(VerifyBalance) /\ VerifyBalance.value = TRUE
      BY DEF IsOk, Ok
    <2>3. Accumulator(c)[n] = 0
      <3>1. ~BalanceOverflows
        BY <2>2 DEF VerifyBalance, IsOk, Panic
      <3>2. VerifyBalance.value = \A d \in Currency : Wrap(Accumulator(d)[n]) = 0
        BY <3>1 DEF VerifyBalance, Ok
      <3>3. Wrap(Accumulator(c)[n]) = 0
        BY <2>2, <3>2
      <3>. QED BY <3>1, <3>3, AccumulatorExact
    <2>4. EntriesOf(Agents, c) = EntriesIn(c)
      BY <2>1 DEF EntriesOf, EntriesIn
    <2>5. Together(Agents, c) = Accumulator(c)[n]
      BY <2>4, DeltasType, OnlyAtType DEF Together, Total, Accumulator
    <2>. QED BY <2>3, <2>5, NetsAddUp
  <1>. QED BY <1>1, TypeCorrect, PTL
=============================================================================
