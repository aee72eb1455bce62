----------------------------- MODULE Induction -----------------------------
(***************************************************************************)
(* The least-number principle for a set of numbers, which is the form of   *)
(* induction the proofs use (no predicate is a parameter of it), and what  *)
(* it yields about running totals; and what an unchecked register does to  *)
(* a number, for every width.                                              *)
(***************************************************************************)
EXTENDS MachineInt, WellFoundedInduction, TLAPS

\* Every set of natural numbers that has an element has a least one.
THEOREM HasLeast ==
    ASSUME NEW T \in SUBSET Nat, T # {}
    PROVE  \E x \in T : \A y \in T : x <= y
  <1>. DEFINE R == OpToRel(<, Nat)
  <1>1. IsWellFoundedOn(R, Nat)
    BY NatLessThanWellFounded
  <1>2. \A x, y \in Nat : x < y => <<x, y>> \in R
    BY DEF OpToRel
  <1>. HIDE DEF R
  <1>3. PICK x \in T : \A y \in T : ~ (<<y, x>> \in R)
    BY <1>1, WFMin
  <1>4. \A y \in T : x <= y
    <2>. SUFFICES ASSUME NEW y \in T PROVE x <= y
      OBVIOUS
    <2>1. x \in Nat /\ y \in Nat
      OBVIOUS
    <2>2. ~(y < x)
      BY <1>2, <1>3, <2>1, Zenon
    <2>. QED BY <2>1, <2>2
  <1>. QED BY <1>4

\* A set that holds 0 and, with every number below n, the next one, reaches n.
LEMMA Reaches ==
    ASSUME NEW n \in Nat, NEW T, 0 \in T, \A k \in 1..n : k - 1 \in T => k \in T
    PROVE  0..n \subseteq T
  <1>. DEFINE U == (0..n) \ T
  <1>. SUFFICES ASSUME U # {} PROVE FALSE
    OBVIOUS
  <1>1. PICK k \in U : \A j \in U : k <= j
    <2>1. U \in SUBSET Nat
      OBVIOUS
    <2>. HIDE DEF U
    <2>. QED BY <2>1, HasLeast
  <1>2. k \in 1..n /\ k - 1 \in 0..n /\ ~(k <= k - 1)
    OBVIOUS
  <1>3. k - 1 \in T
    BY <1>1, <1>2
  <1>. QED BY <1>2, <1>3
----------------------------------------------------------------------------
\* A list, whatever is in it.
IsList(list) == list \in Seq({list[i] : i \in DOMAIN list})

\* The positions of a list count from 1 to its length.
LEMMA ListDomain ==
    ASSUME NEW list, IsList(list)
    PROVE  Len(list) \in Nat /\ DOMAIN list = 1..Len(list)
  BY DEF IsList

\* A function over the first numbers is a list of that length.
LEMMA ListOf ==
    ASSUME NEW m \in Nat, NEW f, f = [i \in 1..m |-> f[i]]
    PROVE  IsList(f) /\ Len(f) = m /\ DOMAIN f = 1..m
  <1>. DEFINE S == {f[i] : i \in 1..m}
  <1>1. DOMAIN f = 1..m
    OBVIOUS
  <1>2. f \in [1..m -> S]
    OBVIOUS
  <1>3. f \in Seq(S) /\ Len(f) = m
    BY <1>1, <1>2
  <1>. QED BY <1>1, <1>3 DEF IsList

\* Appending to a list adds its last entry and keeps the others.
LEMMA AppendToList ==
    ASSUME NEW list, IsList(list), NEW e
    PROVE  /\ IsList(Append(list, e))
           /\ Len(Append(list, e)) = Len(list) + 1
           /\ DOMAIN Append(list, e) = 1..(Len(list) + 1)
           /\ Append(list, e)[Len(list) + 1] = e
           /\ \A i \in 1..Len(list) : Append(list, e)[i] = list[i]
  <1>. DEFINE S == {list[i] : i \in DOMAIN list}
              T == S \cup {e}
              new == Append(list, e)
  <1>1. list \in Seq(T) /\ e \in T
    BY DEF IsList
  <1>2. new \in Seq(T) /\ Len(new) = Len(list) + 1
    BY <1>1
  <1>3. new[Len(list) + 1] = e /\ \A i \in 1..Len(list) : new[i] = list[i]
    BY <1>1
  <1>4. DOMAIN new = 1..(Len(list) + 1)
    BY <1>2, <1>1
  <1>. HIDE DEF new
  <1>5. IsList(new)
    BY <1>2, <1>4 DEF IsList
  <1>. QED BY <1>2, <1>3, <1>4, <1>5 DEF new

\* Putting a list after another keeps the positions of the first and shifts the other's.
LEMMA ConcatLists ==
    ASSUME NEW s, NEW t, IsList(s), IsList(t)
    PROVE  /\ IsList(s \o t)
           /\ Len(s \o t) = Len(s) + Len(t)
           /\ \A i \in 1..Len(s) : (s \o t)[i] = s[i]
           /\ \A i \in 1..Len(t) : (s \o t)[Len(s) + i] = t[i]
  <1>. DEFINE T == {s[i] : i \in DOMAIN s} \cup {t[i] : i \in DOMAIN t}
              st == s \o t
  <1>1. s \in Seq(T) /\ t \in Seq(T)
    BY DEF IsList
  <1>2. /\ st \in Seq(T) /\ Len(st) = Len(s) + Len(t)
        /\ \A i \in 1..Len(s) : st[i] = s[i]
        /\ \A i \in 1..Len(t) : st[Len(s) + i] = t[i]
    <2>1. /\ st \in Seq(T) /\ Len(st) = Len(s) + Len(t)
          /\ \A i \in 1..Len(s) : st[i] = s[i]
      BY <1>1
    <2>2. ASSUME NEW i \in 1..Len(t) PROVE st[Len(s) + i] = t[i]
      BY <1>1
    <2>. QED BY <2>1, <2>2
  <1>. HIDE DEF st
  <1>3. Len(st) \in Nat /\ DOMAIN st = 1..Len(st)
    BY <1>2
  <1>4. st = [i \in 1..Len(st) |-> st[i]]
    BY <1>2, <1>3
  <1>5. IsList(st)
    BY <1>3, <1>4, ListOf
  <1>. QED BY <1>2, <1>5 DEF st

\* Lists of one length with the same entries are the same list.
LEMMA ListsEqual ==
    ASSUME NEW s, NEW t, IsList(s), IsList(t), Len(s) = Len(t),
           \A i \in 1..Len(s) : s[i] = t[i]
    PROVE  s = t
  <1>. DEFINE n == Len(s)
  <1>1. n \in Nat /\ DOMAIN s = 1..n /\ DOMAIN t = 1..n
    BY ListDomain
  <1>2. s = [i \in 1..n |-> s[i]] /\ t = [i \in 1..n |-> t[i]]
    BY <1>1 DEF IsList
  <1>. QED BY <1>2
----------------------------------------------------------------------------
\* f holds the running totals of the first n numbers of s.
IsRunning(f, s, n) ==
    f = [i \in 0..n |-> IF i = 0 THEN 0 ELSE f[i - 1] + s[i]] /\ f \in [0..n -> Int]

\* The recursive definition of the running totals has a solution.
LEMMA RunningExists ==
    ASSUME NEW s \in Seq(Int)
    PROVE  \E f : IsRunning(f, s, Len(s))
  <1>. DEFINE n == Len(s)
              T == {k \in Nat : k <= n /\ ~ \E f : IsRunning(f, s, k)}
  <1>1. n \in Nat /\ \A i \in 1..n : s[i] \in Int
    OBVIOUS
  <1>. HIDE DEF n
  <1>. SUFFICES ASSUME T # {} PROVE FALSE
    BY <1>1 DEF n
  <1>2. PICK k \in T : \A j \in T : k <= j
    <2>1. T \in SUBSET Nat
      OBVIOUS
    <2>. HIDE DEF T
    <2>. QED BY <2>1, HasLeast
  <1>3. k \in Nat /\ k <= n /\ ~ \E f : IsRunning(f, s, k)
    OBVIOUS
  <1>4. k # 0
    <2>. DEFINE f == [i \in 0..0 |-> 0]
    <2>1. IsRunning(f, s, 0)
      BY DEF IsRunning
    <2>. QED BY <2>1, <1>3
  <1>5. k - 1 \in Nat /\ k - 1 <= n /\ ~(k <= k - 1) /\ k \in 1..n
    BY <1>1, <1>3, <1>4
  <1>6. PICK g : IsRunning(g, s, k - 1)
    <2>1. k - 1 \notin T
      BY <1>2, <1>5
    <2>. QED BY <2>1, <1>5
  <1>. DEFINE f == [i \in 0..k |-> IF i = k THEN g[k - 1] + s[k] ELSE g[i]]
  <1>7. g \in [0..(k - 1) -> Int] /\ \A i \in 0..(k - 1) : g[i] = IF i = 0 THEN 0 ELSE g[i - 1] + s[i]
    BY <1>6 DEF IsRunning
  <1>8. f \in [0..k -> Int]
    <2>. SUFFICES ASSUME NEW i \in 0..k
                  PROVE  (IF i = k THEN g[k - 1] + s[k] ELSE g[i]) \in Int
      OBVIOUS
    <2>1. i = k \/ i \in 0..(k - 1)
      BY <1>5
    <2>2. k - 1 \in 0..(k - 1) /\ s[k] \in Int
      BY <1>1, <1>5
    <2>. QED BY <2>1, <2>2, <1>7
  <1>9. ASSUME NEW i \in 0..k PROVE f[i] = IF i = 0 THEN 0 ELSE f[i - 1] + s[i]
    <2>1. CASE i = k
      <3>1. i - 1 \in 0..k /\ i - 1 # k /\ i # 0
        BY <2>1, <1>5
      <3>. QED BY <2>1, <3>1
    <2>2. CASE i # k
      <3>1. i \in 0..(k - 1) /\ (i # 0 => i - 1 \in 0..k /\ i - 1 # k)
        BY <2>2, <1>5
      <3>2. f[i] = g[i] /\ (i # 0 => f[i - 1] = g[i - 1])
        BY <2>2, <3>1
      <3>. QED BY <3>1, <3>2, <1>7
    <2>. QED BY <2>1, <2>2
  <1>. HIDE DEF f
  <1>10. IsRunning(f, s, k)
    BY <1>8, <1>9 DEF IsRunning
  <1>. QED BY <1>3, <1>10

\* Running totals start at nothing and grow by one number at a time.
LEMMA RunningDef ==
    ASSUME NEW s \in Seq(Int)
    PROVE  /\ Running(s) \in [0..Len(s) -> Int]
           /\ Running(s)[0] = 0
           /\ \A i \in 1..Len(s) : Running(s)[i] = Running(s)[i - 1] + s[i]
           /\ Total(s) \in Int
  <1>. DEFINE n == Len(s)
              IsSum(f) == f = [i \in 0..n |-> IF i = 0 THEN 0 ELSE f[i - 1] + s[i]]
              r == Running(s)
  <1>1. n \in Nat
    OBVIOUS
  <1>2. \E f : IsSum(f)
    BY RunningExists DEF IsRunning
  <1>3. r = CHOOSE f : IsSum(f)
    BY DEF Running
  <1>4. IsSum(r)
    BY <1>2, <1>3
  <1>. HIDE DEF r
  <1>5. /\ DOMAIN r = 0..n /\ r[0] = 0
        /\ \A i \in 1..n : r[i] = r[i - 1] + s[i] /\ s[i] \in Int
    <2>1. DOMAIN r = 0..n /\ r[0] = 0
      BY <1>1, <1>4
    <2>2. ASSUME NEW i \in 1..n PROVE r[i] = r[i - 1] + s[i] /\ s[i] \in Int
      <3>1. s[i] \in Int
        OBVIOUS
      <3>2. i # 0 /\ i \in 0..n
        BY ONLY <1>1, i \in 1..n
      <3>3. r[i] = IF i = 0 THEN 0 ELSE r[i - 1] + s[i]
        BY Zenon, <1>4, <3>2
      <3>. QED BY ONLY <3>1, <3>2, <3>3
    <2>. QED BY ONLY <2>1, <2>2
  <1>. DEFINE T == {k \in 0..n : r[k] \notin Int}
  <1>6. T = {}
    <2>. SUFFICES ASSUME T # {} PROVE FALSE
      OBVIOUS
    <2>1. PICK k \in T : \A j \in T : k <= j
      <3>1. T \in SUBSET Nat
        BY <1>1
      <3>. HIDE DEF T
      <3>. QED BY <3>1, HasLeast
    <2>2. k \in 1..n /\ k - 1 \in 0..n /\ ~(k <= k - 1)
      BY <1>1, <1>5
    <2>3. r[k - 1] \in Int
      BY <2>1, <2>2
    <2>4. r[k] = r[k - 1] + s[k] /\ s[k] \in Int
      BY <1>5, <2>2
    <2>5. r[k] \in Int
      BY <2>3, <2>4
    <2>6. r[k] \notin Int
      OBVIOUS
    <2>. QED BY <2>5, <2>6
  <1>7. \A i \in 0..n : r[i] \in Int
    BY <1>6
  <1>8. r \in [0..n -> Int]
    BY <1>4, <1>5, <1>7
  <1>9. Total(s) = r[n] /\ n \in 0..n
    BY <1>1 DEF Total, r
  <1>. QED BY <1>5, <1>7, <1>8, <1>9 DEF r

\* What starts at nothing and grows by one number at a time is the running total.
LEMMA RunningIs ==
    ASSUME NEW s \in Seq(Int), NEW f, f[0] = 0,
           \A k \in 1..Len(s) : f[k] = f[k - 1] + s[k]
    PROVE  \A k \in 0..Len(s) : Running(s)[k] = f[k]
  <1>. DEFINE n == Len(s)
              T == {k \in 0..n : Running(s)[k] = f[k]}
  <1>1. n \in Nat
    OBVIOUS
  <1>2. /\ Running(s)[0] = 0
        /\ \A k \in 1..n : Running(s)[k] = Running(s)[k - 1] + s[k] /\ k \in 0..n /\ k - 1 \in 0..n
    BY <1>1, RunningDef
  <1>3. 0 \in T
    BY <1>1, <1>2
  <1>4. ASSUME NEW k \in 1..n, k - 1 \in T PROVE k \in T
    BY <1>2, <1>4
  <1>. HIDE DEF T
  <1>5. 0..n \subseteq T
    BY <1>1, <1>3, <1>4, Reaches
  <1>. QED BY <1>5 DEF T

\* A number that is twice itself.
LEMMA TwiceItself ==
    ASSUME NEW x \in Int, x = x + x
    PROVE  x = 0
  OBVIOUS

\* Summing differences is taking the difference of the sums.
LEMMA TotalDifference ==
    ASSUME NEW s \in Seq(Int), NEW t \in Seq(Int), NEW u \in Seq(Int),
           Len(s) = Len(u), Len(t) = Len(u),
           \A i \in 1..Len(u) : u[i] = s[i] - t[i]
    PROVE  /\ \A k \in 0..Len(u) : Running(u)[k] = Running(s)[k] - Running(t)[k]
           /\ Total(u) = Total(s) - Total(t)
  <1>. DEFINE n == Len(u)
              T == {k \in 0..n : Running(u)[k] = Running(s)[k] - Running(t)[k]}
  <1>1. n \in Nat
    OBVIOUS
  <1>2. /\ Running(u) \in [0..n -> Int] /\ Running(s) \in [0..n -> Int] /\ Running(t) \in [0..n -> Int]
        /\ Running(u)[0] = 0 /\ Running(s)[0] = 0 /\ Running(t)[0] = 0
        /\ \A k \in 1..n : /\ Running(u)[k] = Running(u)[k - 1] + u[k]
                           /\ Running(s)[k] = Running(s)[k - 1] + s[k]
                           /\ Running(t)[k] = Running(t)[k - 1] + t[k]
    BY RunningDef
  <1>3. ASSUME NEW k \in 1..n, k - 1 \in T PROVE k \in T
    <2>1. k \in 0..n /\ k - 1 \in 0..n
      BY <1>1
    <2>2. u[k] \in Int /\ s[k] \in Int /\ t[k] \in Int /\ u[k] = s[k] - t[k]
      OBVIOUS
    <2>3. /\ Running(u)[k - 1] \in Int /\ Running(s)[k - 1] \in Int /\ Running(t)[k - 1] \in Int
          /\ Running(u)[k - 1] = Running(s)[k - 1] - Running(t)[k - 1]
      BY <1>2, <1>3, <2>1
    <2>4. /\ Running(u)[k] = Running(u)[k - 1] + u[k]
          /\ Running(s)[k] = Running(s)[k - 1] + s[k]
          /\ Running(t)[k] = Running(t)[k - 1] + t[k]
      BY <1>2
    <2>. DEFINE a == Running(s)[k - 1]
                b == Running(t)[k - 1]
                x == s[k]
                y == t[k]
                p == Running(s)[k]
                q == Running(t)[k]
                r == Running(u)[k]
    <2>5. /\ a \in Int /\ b \in Int /\ x \in Int /\ y \in Int
          /\ p = a + x /\ q = b + y /\ r = (a - b) + (x - y)
      BY <2>2, <2>3, <2>4
    <2>. HIDE DEF a, b, x, y, p, q, r, T
    <2>6. r = p - q
      BY ONLY <2>5
    <2>. QED BY <2>1, <2>6 DEF T, p, q, r
  <1>4. 0 \in T
    BY <1>1, <1>2
  <1>. HIDE DEF T
  <1>5. 0..n \subseteq T
    BY <1>1, <1>3, <1>4, Reaches
  <1>6. \A k \in 0..n : Running(u)[k] = Running(s)[k] - Running(t)[k]
    BY <1>5 DEF T
  <1>. QED BY <1>1, <1>6 DEF Total

\* Replacing one number changes the total by what it changes the number by.
LEMMA TotalReplaced ==
    ASSUME NEW s \in Seq(Int), NEW j \in 1..Len(s), NEW x \in Int
    PROVE  /\ [s EXCEPT ![j] = x] \in Seq(Int)
           /\ Len([s EXCEPT ![j] = x]) = Len(s)
           /\ Total([s EXCEPT ![j] = x]) = Total(s) - s[j] + x
  <1>. DEFINE t == [s EXCEPT ![j] = x]
              n == Len(s)
              T == {k \in 0..n : Running(t)[k] = Running(s)[k] + IF j <= k THEN x - s[j] ELSE 0}
  <1>1. n \in Nat /\ t \in Seq(Int) /\ Len(t) = n /\ s[j] \in Int
    OBVIOUS
  <1>2. \A k \in 1..n : t[k] = IF k = j THEN x ELSE s[k]
    OBVIOUS
  <1>. HIDE DEF t
  <1>3. /\ Running(s) \in [0..n -> Int] /\ Running(t) \in [0..n -> Int]
        /\ Running(s)[0] = 0 /\ Running(t)[0] = 0
        /\ \A k \in 1..n : /\ Running(s)[k] = Running(s)[k - 1] + s[k]
                           /\ Running(t)[k] = Running(t)[k - 1] + t[k]
    BY <1>1, RunningDef
  <1>4. ASSUME NEW k \in 1..n, k - 1 \in T PROVE k \in T
    <2>1. k \in 0..n /\ k - 1 \in 0..n
      BY <1>1
    <2>2. s[k] \in Int /\ t[k] = IF k = j THEN x ELSE s[k]
      BY <1>2
    <2>3. /\ Running(s)[k - 1] \in Int /\ Running(t)[k - 1] \in Int
          /\ Running(t)[k - 1] = Running(s)[k - 1] + IF j <= k - 1 THEN x - s[j] ELSE 0
      BY <1>3, <1>4, <2>1
    <2>4. /\ Running(s)[k] = Running(s)[k - 1] + s[k]
          /\ Running(t)[k] = Running(t)[k - 1] + t[k]
      BY <1>3
    <2>. DEFINE a == Running(s)[k - 1]
                d == IF j <= k - 1 THEN x - s[j] ELSE 0
    <2>5. a \in Int /\ d \in Int /\ Running(s)[k] = a + s[k] /\ Running(t)[k] = (a + d) + t[k]
      BY <1>1, <2>2, <2>3, <2>4
    <2>6. (IF j <= k THEN x - s[j] ELSE 0) = d + (t[k] - s[k])
      BY <1>1, <2>1, <2>2
    <2>. HIDE DEF a, d, T
    <2>7. (a + d) + t[k] = (a + s[k]) + (d + (t[k] - s[k]))
      BY <2>2, <2>5
    <2>8. Running(t)[k] = Running(s)[k] + IF j <= k THEN x - s[j] ELSE 0
      BY <2>5, <2>6, <2>7
    <2>. QED BY <2>1, <2>8 DEF T
  <1>5. 0 \in T
    BY <1>1, <1>3
  <1>. HIDE DEF T
  <1>6. 0..n \subseteq T
    BY <1>1, <1>4, <1>5, Reaches
  <1>7. n \in 0..n /\ j <= n
    BY <1>1
  <1>8. Running(t)[n] = Running(s)[n] + (x - s[j])
    BY <1>6, <1>7 DEF T
  <1>9. Running(s)[n] \in Int
    BY <1>3, <1>7
  <1>10. Total(t) = Total(s) - s[j] + x
    BY <1>1, <1>8, <1>9 DEF Total
  <1>. QED BY <1>1, <1>10 DEF t

\* Summing multiples is taking the multiple of the sum.
LEMMA TotalScaled ==
    ASSUME NEW c \in Int, NEW s \in Seq(Int), NEW t \in Seq(Int), Len(t) = Len(s),
           \A i \in 1..Len(s) : t[i] = c * s[i]
    PROVE  /\ \A k \in 0..Len(s) : Running(t)[k] = c * Running(s)[k]
           /\ Total(t) = c * Total(s)
  <1>. DEFINE n == Len(s)
              T == {k \in 0..n : Running(t)[k] = c * Running(s)[k]}
  <1>1. n \in Nat
    OBVIOUS
  <1>2. /\ Running(s) \in [0..n -> Int] /\ Running(t) \in [0..n -> Int]
        /\ Running(s)[0] = 0 /\ Running(t)[0] = 0
        /\ \A k \in 1..n : /\ Running(s)[k] = Running(s)[k - 1] + s[k]
                           /\ Running(t)[k] = Running(t)[k - 1] + t[k]
    BY RunningDef
  <1>3. ASSUME NEW k \in 1..n, k - 1 \in T PROVE k \in T
    <2>. DEFINE a == Running(s)[k - 1]
                b == s[k]
    <2>1. k \in 0..n /\ k - 1 \in 0..n
      BY <1>1
    <2>2. /\ a \in Int /\ b \in Int
          /\ Running(s)[k] = a + b
          /\ Running(t)[k] = c * a + c * b
      <3>1. a \in Int /\ b \in Int /\ Running(s)[k] = a + b
        <4>1. Running(s)[k] = a + b
          BY <1>2, Zenon
        <4>2. b \in Int
          BY <1>1
        <4>. QED BY <1>2, <2>1, <4>1, <4>2
      <3>2. Running(t)[k] = Running(t)[k - 1] + t[k] /\ t[k] = c * b
        BY <1>2
      <3>3. Running(t)[k - 1] = c * a
        BY <1>3
      <3>. QED BY <3>1, <3>2, <3>3, Zenon
    <2>. HIDE DEF a, b, T
    <2>3. c * a + c * b = c * (a + b)
      BY <2>2
    <2>. QED BY <2>1, <2>2, <2>3 DEF T
  <1>4. 0 \in T
    BY <1>1, <1>2
  <1>. HIDE DEF T
  <1>5. 0..n \subseteq T
    BY <1>1, <1>3, <1>4, Reaches
  <1>6. \A k \in 0..n : Running(t)[k] = c * Running(s)[k]
    BY <1>5 DEF T
  <1>7. n \in 0..n
    BY <1>1
  <1>8. Total(t) = c * Total(s)
    BY <1>6, <1>7, Zenon DEF Total
  <1>. QED BY <1>6, <1>8

\* A running total is between so many times the least and the greatest number.
LEMMA RunningBetween ==
    ASSUME NEW s \in Seq(Int), NEW lo \in Int, NEW hi \in Int,
           \A i \in 1..Len(s) : lo <= s[i] /\ s[i] <= hi
    PROVE  \A k \in 0..Len(s) : k * lo <= Running(s)[k] /\ Running(s)[k] <= k * hi
  <1>. DEFINE n == Len(s)
              T == {k \in 0..n : k * lo <= Running(s)[k] /\ Running(s)[k] <= k * hi}
  <1>1. n \in Nat
    OBVIOUS
  <1>2. /\ Running(s) \in [0..n -> Int] /\ Running(s)[0] = 0
        /\ \A k \in 1..n : Running(s)[k] = Running(s)[k - 1] + s[k]
    BY RunningDef
  <1>3. ASSUME NEW k \in 1..n, k - 1 \in T PROVE k \in T
    <2>. DEFINE a == Running(s)[k - 1]
                b == s[k]
    <2>1. k \in 0..n /\ k - 1 \in 0..n
      BY <1>1
    <2>2. /\ a \in Int /\ b \in Int /\ lo <= b /\ b <= hi
          /\ (k - 1) * lo <= a /\ a <= (k - 1) * hi
          /\ Running(s)[k] = a + b
      <3>1. a \in Int /\ Running(s)[k] = a + b
        <4>1. a \in Int
          BY ONLY <1>2, <2>1
        <4>2. Running(s)[k] = a + b
          BY Zenon, <1>2
        <4>. QED BY ONLY <4>1, <4>2
      <3>3. b \in Int /\ lo <= b /\ b <= hi
        OBVIOUS
      <3>2. (k - 1) * lo <= a /\ a <= (k - 1) * hi
        BY <1>3
      <3>. QED BY ONLY <3>1, <3>2, <3>3
    <2>3. (k - 1) * lo = k * lo - lo /\ (k - 1) * hi = k * hi - hi /\ k * lo \in Int /\ k * hi \in Int
      BY ONLY <2>1, k \in 1..n, n \in Nat, lo \in Int, hi \in Int
    <2>. DEFINE p == k * lo
                q == k * hi
    <2>4. p \in Int /\ q \in Int /\ p - lo <= a /\ a <= q - hi
      BY ONLY Zenon, <2>2, <2>3
    <2>. HIDE DEF a, b, p, q, T
    <2>5. p <= a + b /\ a + b <= q
      BY ONLY <2>2, <2>4, lo \in Int, hi \in Int
    <2>. QED BY <2>1, <2>2, <2>5 DEF T, p, q
  <1>4. 0 \in T
    BY <1>1, <1>2
  <1>. HIDE DEF T
  <1>5. 0..n \subseteq T
    BY <1>1, <1>3, <1>4, Reaches
  <1>. QED BY <1>5 DEF T

\* Where no number is below zero, running totals never go down.
LEMMA RunningGrows ==
    ASSUME NEW s \in Seq(Int), \A i \in 1..Len(s) : s[i] >= 0, NEW k \in 0..Len(s)
    PROVE  0 <= Running(s)[k] /\ Running(s)[k] <= Total(s)
  <1>. DEFINE n == Len(s)
              r == Running(s)
              T == {j \in 0..n : r[k] <= r[j] \/ j < k}
              U == {j \in 0..n : 0 <= r[j]}
  <1>1. n \in Nat /\ k \in 0..n
    OBVIOUS
  <1>2. /\ r \in [0..n -> Int] /\ r[0] = 0
        /\ \A j \in 1..n : r[j] = r[j - 1] + s[j] /\ s[j] \in Int /\ s[j] >= 0
    BY RunningDef
  <1>. HIDE DEF n, r
  <1>3. \A j \in 1..n : j \in 0..n /\ j - 1 \in 0..n /\ r[j - 1] \in Int /\ r[j] \in Int /\ r[j - 1] <= r[j]
    <2>. SUFFICES ASSUME NEW j \in 1..n
                  PROVE  j \in 0..n /\ j - 1 \in 0..n /\ r[j - 1] \in Int /\ r[j] \in Int /\ r[j - 1] <= r[j]
      OBVIOUS
    <2>1. j \in 0..n /\ j - 1 \in 0..n
      BY <1>1
    <2>. QED BY <1>2, <2>1
  <1>4. 0..n \subseteq T
    <2>1. 0 \in T
      BY <1>1, <1>2
    <2>2. ASSUME NEW j \in 1..n, j - 1 \in T PROVE j \in T
      <3>1. r[k] \in Int
        BY <1>1, <1>2
      <3>2. CASE j < k
        BY <3>2, <1>3
      <3>3. CASE j = k
        BY <3>1, <3>3, <1>3
      <3>4. CASE j > k
        <4>1. r[k] <= r[j - 1]
          BY <2>2, <3>4, <1>1
        <4>. QED BY <3>1, <4>1, <1>3
      <3>. QED BY <3>2, <3>3, <3>4, <1>1
    <2>. HIDE DEF T
    <2>. QED BY <1>1, <2>1, <2>2, Reaches
  <1>5. 0..n \subseteq U
    <2>1. 0 \in U
      BY <1>1, <1>2
    <2>2. ASSUME NEW j \in 1..n, j - 1 \in U PROVE j \in U
      BY <2>2, <1>3
    <2>. HIDE DEF U
    <2>. QED BY <1>1, <2>1, <2>2, Reaches
  <1>6. n \in 0..n /\ ~(n < k)
    BY <1>1
  <1>. QED BY <1>1, <1>4, <1>5, <1>6 DEF Total, n, r

\* Where no number is above zero, they never go up.
LEMMA RunningFalls ==
    ASSUME NEW s \in Seq(Int), \A i \in 1..Len(s) : s[i] <= 0, NEW k \in 0..Len(s)
    PROVE  Total(s) <= Running(s)[k] /\ Running(s)[k] <= 0
  <1>. DEFINE n == Len(s)
              t == [i \in 1..n |-> -s[i]]
  <1>1. n \in Nat /\ \A i \in 1..n : s[i] \in Int /\ s[i] <= 0
    OBVIOUS
  <1>2. t \in Seq(Int) /\ Len(t) = n /\ \A i \in 1..n : t[i] = (-1) * s[i] /\ t[i] >= 0
    BY <1>1
  <1>. HIDE DEF t
  <1>3. Running(t)[k] = (-1) * Running(s)[k] /\ Total(t) = (-1) * Total(s)
    BY <1>2, TotalScaled
  <1>4. 0 <= Running(t)[k] /\ Running(t)[k] <= Total(t)
    BY <1>2, RunningGrows
  <1>5. Running(s)[k] \in Int /\ Total(s) \in Int
    BY RunningDef
  <1>. QED BY <1>3, <1>4, <1>5

\* Division towards zero leaves less than the divisor, on the number's own side of zero.
LEMMA TruncDivLeaves ==
    ASSUME NEW x \in Int, NEW d \in Nat \ {0}
    PROVE  /\ TruncDiv(x, d) \in Int
           /\ x >= 0 => /\ TruncDiv(x, d) >= 0
                        /\ 0 <= x - d * TruncDiv(x, d) /\ x - d * TruncDiv(x, d) <= d - 1
           /\ x <= 0 => /\ TruncDiv(x, d) <= 0
                        /\ -(d - 1) <= x - d * TruncDiv(x, d) /\ x - d * TruncDiv(x, d) <= 0
  <1>1. ASSUME NEW y \in Nat
        PROVE  /\ y \div d \in Int /\ y \div d >= 0
               /\ 0 <= y - d * (y \div d) /\ y - d * (y \div d) <= d - 1
    <2>1. y \div d \in Int /\ y % d \in 0..(d - 1) /\ y = d * (y \div d) + (y % d)
      OBVIOUS
    <2>2. y \div d >= 0
      <3>. SUFFICES ASSUME y \div d <= -1 PROVE FALSE
        BY <2>1
      <3>1. d * (y \div d) <= -d
        BY <2>1
      <3>. QED BY <2>1, <3>1
    <2>3. d * (y \div d) \in Int
      BY <2>1
    <2>. QED BY <2>1, <2>2, <2>3
  <1>2. CASE x >= 0
    <2>1. x \in Nat /\ TruncDiv(x, d) = x \div d
      BY <1>2 DEF TruncDiv
    <2>2. x <= 0 => x = 0 /\ x \div d = 0
      <3>. SUFFICES ASSUME x = 0 PROVE x \div d = 0
        BY <1>2
      <3>. QED BY <1>2
    <2>. QED BY <1>1, <1>2, <2>1, <2>2
  <1>3. CASE x < 0
    <2>. DEFINE q == (-x) \div d
    <2>1. -x \in Nat /\ TruncDiv(x, d) = -q
      BY <1>3 DEF TruncDiv
    <2>2. q \in Int /\ q >= 0 /\ 0 <= -x - d * q /\ -x - d * q <= d - 1
      BY <1>1, <2>1
    <2>. HIDE DEF q
    <2>3. d * (-q) = -(d * q) /\ d * q \in Int
      BY <2>2
    <2>. QED BY <1>3, <2>1, <2>2, <2>3
  <1>. QED BY <1>2, <1>3
----------------------------------------------------------------------------
\* A number that fits is left as it is by the register.
LEMMA WrapFits ==
    ASSUME NEW x \in Int, Fits(x)
    PROVE  Wrap(x) = x
  <1>. DEFINE m == 2 * (MaxI64 + 1)
              y == x - MinI64
  <1>1. m \in Nat /\ m > 0 /\ MinI64 \in Int /\ y \in 0..(m - 1)
    BY MachineIntAssumption DEF Fits, MinI64
  <1>. HIDE DEF m, y
  <1>2. y % m = y
    BY <1>1
  <1>3. y + MinI64 = x
    BY <1>1 DEF y
  <1>. QED BY <1>2, <1>3 DEF Wrap, y, m

\* Wrapping stays within the range, and moves a number by whole turns of it.
LEMMA WrapTurns ==
    ASSUME NEW x \in Int
    PROVE  /\ Wrap(x) \in Int /\ Fits(Wrap(x))
           /\ \E k \in Int : Wrap(x) = x + k * (2 * (MaxI64 + 1))
  <1>. DEFINE m == 2 * (MaxI64 + 1)
              y == x - MinI64
  <1>1. m \in Nat /\ m > 0 /\ MinI64 \in Int /\ y \in Int /\ MaxI64 \in Nat /\ m = 2 * MaxI64 + 2
        /\ MinI64 = -MaxI64 - 1
    BY MachineIntAssumption DEF MinI64
  <1>2. Wrap(x) = (y % m) + MinI64
    BY DEF Wrap
  <1>. HIDE DEF m
  <1>3. y % m \in 0..(m - 1) /\ y \div m \in Int /\ y = m * (y \div m) + (y % m)
    BY <1>1
  <1>4. y % m = x - MinI64 - m * (y \div m)
    BY <1>1, <1>3
  <1>5. Wrap(x) \in Int /\ Fits(Wrap(x))
    BY <1>1, <1>2, <1>3 DEF Fits
  <1>6. Wrap(x) = x + (-(y \div m)) * m
    BY <1>1, <1>2, <1>3, <1>4
  <1>7. -(y \div m) \in Int
    BY <1>3
  <1>. QED BY <1>5, <1>6, <1>7 DEF m

\* Whole turns of the range come to nothing once the register holds the sum.
LEMMA WrapUnturns ==
    ASSUME NEW x \in Int, Fits(x), NEW k \in Int
    PROVE  Wrap(x + k * (2 * (MaxI64 + 1))) = x
  <1>. DEFINE m == 2 * (MaxI64 + 1)
              z == x + k * m
              w == Wrap(z)
  <1>1. m \in Nat /\ m > 0 /\ z \in Int /\ k * m \in Int
        /\ \A v \in Int : Fits(v) => 0 <= v - MinI64 /\ v - MinI64 < m
    BY MachineIntAssumption DEF Fits, MinI64
  <1>2. w \in Int /\ Fits(w) /\ \E j \in Int : w = z + j * m
    BY <1>1, WrapTurns
  <1>3. PICK j \in Int : w = z + j * m
    BY <1>2
  <1>. HIDE DEF m, w
  <1>4. w = x + (k + j) * m
    BY <1>1, <1>3
  <1>5. MinI64 \in Int
    BY MachineIntAssumption DEF MinI64
  <1>6. -m < w - x /\ w - x < m
    BY <1>1, <1>2, <1>5
  <1>7. w - x = (k + j) * m
    BY <1>1, <1>2, <1>4
  <1>8. k + j = 0
    <2>1. CASE k + j >= 1
      <3>1. (k + j) * m >= m
        BY <1>1, <2>1
      <3>. QED BY <1>1, <1>2, <1>6, <1>7, <3>1
    <2>2. CASE k + j <= -1
      <3>1. (k + j) * m <= -m
        BY <1>1, <2>2
      <3>. QED BY <1>1, <1>2, <1>6, <1>7, <3>1
    <2>. QED BY <2>1, <2>2
  <1>9. w = x
    BY <1>1, <1>2, <1>7, <1>8
  <1>. QED BY <1>9 DEF m, w
=============================================================================
