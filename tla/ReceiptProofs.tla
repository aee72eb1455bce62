---------------------------- MODULE ReceiptProofs ----------------------------
(***************************************************************************)
(* What holds of ReceiptExchange for documents of every size and shape, of *)
(* any depth a parser lets through, and any number of messages and         *)
(* changes.                                                                *)
(***************************************************************************)
EXTENDS ReceiptExchange, Induction, SequenceTheorems

Words == Seq(Symbols)

\* One word and then another.  As an operator of its own it is opaque to the
\* provers, which know nothing of it but what is said here.
x ++ y == x \o y

\* One symbol more in front of two words.
LEMMA HeadsApart ==
    ASSUME NEW s \in Symbols, NEW t \in Symbols, NEW x \in Words, NEW y \in Words,
           <<s>> ++ x = <<t>> ++ y
    PROVE  s = t /\ x = y
  <1>. USE DEF ++
  <1>1. <<s>> \in Words /\ <<t>> \in Words /\ Len(<<s>>) = 1 /\ Len(<<t>>) = 1
    BY DEF Words
  <1>2. s = t
    <2>1. 1 \in 1..(1 + Len(x)) /\ 1 \in 1..(1 + Len(y))
      BY DEF Words
    <2>2. (<<s>> \o x)[1] = s /\ (<<t>> \o y)[1] = t
      BY <1>1, <2>1, ConcatProperties DEF Words
    <2>. QED BY <2>2
  <1>3. x = y
    BY <1>1, <1>2, ConcatSimplifications DEF Words
  <1>. QED BY <1>2, <1>3

\* Words that begin with different symbols are different.
LEMMA OtherHeads ==
    ASSUME NEW s \in Symbols, NEW t \in Symbols, NEW x \in Words, NEW y \in Words, s # t
    PROVE  <<s>> ++ x # <<t>> ++ y
  BY HeadsApart

\* A piece at the front of two words.
LEMMA SameFront ==
    ASSUME NEW p \in Words, NEW x \in Words, NEW y \in Words, p ++ x = p ++ y
    PROVE  x = y
  BY ConcatSimplifications DEF Words, ++

\* Joining words gives a word,
LEMMA Joins ==
    ASSUME NEW x \in Words, NEW y \in Words
    PROVE  x ++ y \in Words
  BY ConcatProperties DEF Words, ++

\* in whatever order it is done,
LEMMA Regroups ==
    ASSUME NEW x \in Words, NEW y \in Words, NEW z \in Words
    PROVE  (x ++ y) ++ z = x ++ (y ++ z)
  BY ConcatAssociative DEF Words, ++

\* and joining nothing changes nothing.
LEMMA NothingInFront ==
    ASSUME NEW x \in Words
    PROVE  <<>> ++ x = x /\ x ++ <<>> = x
  BY ConcatEmptySeq DEF Words, ++
----------------------------------------------------------------------------
(***************************************************************************)
(* Joining texts, and reading them again from the front.                   *)
(***************************************************************************)

\* g joins the first i words of p, for every i up to n.
IsFlattening(g, p, n) ==
    g = [i \in 1..n |-> IF i = 1 THEN p[i] ELSE g[i - 1] ++ p[i]]

\* The recursive definition of FlattenSeq has a solution.
LEMMA FlatteningExists ==
    ASSUME NEW p \in Seq(Words)
    PROVE  \E g : IsFlattening(g, p, Len(p))
  <1>. DEFINE T == {k \in 0..Len(p) : \E g : IsFlattening(g, p, k)}
  <1>1. 0 \in T
    <2>. DEFINE g == [i \in 1..0 |-> <<>>]
    <2>1. IsFlattening(g, p, 0)
      BY DEF IsFlattening
    <2>. QED BY <2>1
  <1>2. ASSUME NEW k \in 1..Len(p), k - 1 \in T PROVE k \in T
    <2>1. PICK g : IsFlattening(g, p, k - 1)
      BY <1>2
    <2>. DEFINE h == [i \in 1..k |-> IF i = k THEN IF k = 1 THEN p[k] ELSE g[k - 1] ++ p[k] ELSE g[i]]
    <2>2. ASSUME NEW i \in 1..k PROVE h[i] = IF i = 1 THEN p[i] ELSE h[i - 1] ++ p[i]
      <3>1. CASE i = k
        <4>1. k # 1 => k - 1 \in 1..k /\ k - 1 # k
          OBVIOUS
        <4>. QED BY <3>1, <4>1
      <3>2. CASE i # k
        <4>1. i \in 1..(k - 1) /\ (i # 1 => i - 1 \in 1..k /\ i - 1 # k)
          BY <3>2
        <4>2. g[i] = IF i = 1 THEN p[i] ELSE g[i - 1] ++ p[i]
          BY <4>1, <2>1 DEF IsFlattening
        <4>. QED BY <3>2, <4>1, <4>2
      <3>. QED BY <3>1, <3>2
    <2>3. h = [i \in 1..k |-> h[i]]
      OBVIOUS
    <2>. HIDE DEF h
    <2>4. IsFlattening(h, p, k)
      BY <2>2, <2>3 DEF IsFlattening
    <2>. QED BY <2>4
  <1>. HIDE DEF T
  <1>3. Len(p) \in Nat
    OBVIOUS
  <1>4. 0..Len(p) \subseteq T
    BY <1>1, <1>2, <1>3, Reaches
  <1>. QED BY <1>3, <1>4 DEF T

\* What is left of a joined text, with x behind it, after each of its pieces.
IsRest(rest, p, x) ==
    /\ rest \in [0..Len(p) -> Words]
    /\ rest[Len(p)] = x
    /\ \A k \in 1..Len(p) : rest[k - 1] = p[k] ++ rest[k]

\* Of the first k pieces only, joined in g[k].
IsRestOf(rest, g, p, k, x) ==
    /\ rest \in [0..k -> Words]
    /\ rest[k] = x /\ rest[0] = g[k] ++ x
    /\ \A j \in 1..k : rest[j - 1] = p[j] ++ rest[j]

\* One piece more.
LEMMA RestGrows ==
    ASSUME NEW p \in Seq(Words), NEW g, NEW k \in 2..Len(p), NEW y \in Words,
           g[k - 1] \in Words, g[k] = g[k - 1] ++ p[k],
           NEW q, IsRestOf(q, g, p, k - 1, p[k] ++ y)
    PROVE  \E r : IsRestOf(r, g, p, k, y)
  <1>1. /\ k \in Nat /\ k - 1 \in Nat /\ 0 \in 0..k /\ k \in 0..k /\ 0 # k /\ p[k] \in Words
        /\ p[k] ++ y \in Words /\ g[k - 1] ++ (p[k] ++ y) = g[k] ++ y
    <2>1. p[k] \in Words
      OBVIOUS
    <2>2. p[k] ++ y \in Words /\ g[k - 1] ++ (p[k] ++ y) = (g[k - 1] ++ p[k]) ++ y
      BY <2>1, Joins, Regroups
    <2>. QED BY <2>1, <2>2
  <1>2. /\ q \in [0..(k - 1) -> Words] /\ q[k - 1] = p[k] ++ y /\ q[0] = g[k - 1] ++ (p[k] ++ y)
        /\ \A j \in 1..(k - 1) : q[j - 1] = p[j] ++ q[j]
    BY DEF IsRestOf
  <1>. DEFINE r == [j \in 0..k |-> IF j = k THEN y ELSE q[j]]
  <1>3. ASSUME NEW j \in 0..k PROVE r[j] \in Words
    <2>1. j # k => j \in 0..(k - 1)
      BY <1>1
    <2>. QED BY <2>1, <1>2
  <1>4. r[k] = y /\ r[0] = q[0] /\ r[k - 1] = q[k - 1]
    BY <1>1
  <1>5. ASSUME NEW j \in 1..k PROVE r[j - 1] = p[j] ++ r[j]
    <2>1. CASE j = k
      BY <2>1, <1>2, <1>4
    <2>2. CASE j # k
      <3>1. j \in 1..(k - 1) /\ j - 1 \in 0..k /\ j - 1 # k /\ j \in 0..k
        BY <2>2
      <3>2. r[j - 1] = q[j - 1] /\ r[j] = q[j]
        BY <3>1, <2>2
      <3>. QED BY <3>1, <3>2, <1>2
    <2>. QED BY <2>1, <2>2
  <1>6. r \in [0..k -> Words]
    BY <1>3
  <1>. HIDE DEF r
  <1>7. IsRestOf(r, g, p, k, y)
    BY <1>1, <1>2, <1>4, <1>5, <1>6 DEF IsRestOf
  <1>. QED BY <1>7

\* Reading a joined text takes the pieces off its front, one at a time.
LEMMA Unfolds ==
    ASSUME NEW p \in Seq(Words), NEW x \in Words
    PROVE  /\ FlattenSeq(p) \in Words
           /\ \E rest : IsRest(rest, p, x) /\ rest[0] = FlattenSeq(p) ++ x
  <1>. DEFINE n == Len(p)
  <1>1. n \in Nat /\ \A k \in 1..n : p[k] \in Words
    OBVIOUS
  <1>2. CASE n = 0
    <2>1. FlattenSeq(p) = <<>> /\ <<>> \in Words
      BY <1>2 DEF FlattenSeq, Words
    <2>2. <<>> ++ x = x
      BY NothingInFront
    <2>. DEFINE rest == [k \in 0..0 |-> x]
    <2>3. IsRest(rest, p, x) /\ rest[0] = x
      BY <1>2 DEF IsRest
    <2>. QED BY <2>1, <2>2, <2>3
  <1>3. CASE n # 0
    <2>. DEFINE g == CHOOSE g : IsFlattening(g, p, n)
    <2>1. FlattenSeq(p) = g[n]
      BY <1>3 DEF FlattenSeq, IsFlattening, ++
    <2>2. IsFlattening(g, p, n)
      BY FlatteningExists
    <2>. HIDE DEF g
    <2>3. \A i \in 1..n : g[i] = IF i = 1 THEN p[i] ELSE g[i - 1] ++ p[i]
      BY <2>2 DEF IsFlattening
    <2>. DEFINE Done(k) == k = 0 \/ (g[k] \in Words /\ \A y \in Words : \E r : IsRestOf(r, g, p, k, y))
                T == {k \in 0..n : Done(k)}
    <2>4. 0 \in T
      BY <1>1
    <2>5. ASSUME NEW k \in 1..n, k - 1 \in T PROVE k \in T
      <3>1. CASE k = 1
        <4>1. g[k] = p[1] /\ p[1] \in Words
          BY <3>1, <2>3, <1>1, <1>3
        <4>2. ASSUME NEW y \in Words PROVE \E r : IsRestOf(r, g, p, k, y)
          <5>. DEFINE r == [j \in 0..1 |-> IF j = 1 THEN y ELSE p[1] ++ y]
          <5>1. p[1] ++ y \in Words
            BY <4>1, Joins
          <5>2. IsRestOf(r, g, p, k, y)
            BY <3>1, <4>1, <5>1 DEF IsRestOf
          <5>. QED BY <5>2
        <4>. QED BY <4>1, <4>2
      <3>2. CASE k # 1
        <4>1. k \in 2..n /\ k - 1 # 0 /\ p[k] \in Words /\ g[k] = g[k - 1] ++ p[k]
          <5>1. k \in 2..n /\ k - 1 # 0
            BY <3>2, <1>1
          <5>2. g[k] = g[k - 1] ++ p[k]
            BY ONLY <2>3, <3>2, <1>1, k \in 1..n
          <5>. QED BY <5>1, <5>2, <1>1
        <4>2. g[k - 1] \in Words /\ \A y \in Words : \E r : IsRestOf(r, g, p, k - 1, y)
          BY <2>5, <4>1
        <4>3. g[k] \in Words
          BY <4>1, <4>2, Joins
        <4>4. ASSUME NEW y \in Words PROVE \E r : IsRestOf(r, g, p, k, y)
          <5>1. PICK q : IsRestOf(q, g, p, k - 1, p[k] ++ y)
            BY <4>1, <4>2, Joins
          <5>. QED BY <4>1, <4>2, <5>1, RestGrows
        <4>. QED BY <4>3, <4>4
      <3>. QED BY <3>1, <3>2
    <2>. HIDE DEF T
    <2>6. 0..n \subseteq T
      BY <1>1, <2>4, <2>5, Reaches
    <2>7. g[n] \in Words /\ \A y \in Words : \E r : IsRestOf(r, g, p, n, y)
      <3>1. n \in T
        BY <1>1, <2>6
      <3>. QED BY <3>1, <1>3 DEF T
    <2>8. PICK r : IsRestOf(r, g, p, n, x)
      BY <2>7
    <2>9. IsRest(r, p, x) /\ r[0] = FlattenSeq(p) ++ x
      BY <2>1, <2>8 DEF IsRest, IsRestOf
    <2>. QED BY <2>1, <2>7, <2>9
  <1>. QED BY <1>2, <1>3

\* Every piece but the first makes a word one of F.
Continues(p, F) == \A k \in 2..Len(p), s \in Words : p[k] ++ s \in F

\* No piece of p begins y.
NoneBegins(p, y) == \A k \in 1..Len(p), s \in Words : p[k] ++ s # y

\* Pieces in the same place can be told apart, when one of F comes after them.
Distinct(p, q, F) ==
    \A k \in (1..Len(p)) \cap (1..Len(q)) : \A s, t \in F :
        p[k] ++ s = q[k] ++ t => p[k] = q[k] /\ s = t

\* Two texts that are the same were joined of the same pieces, if every piece
\* can be told from another one and from what ends the text, given that what
\* comes after a piece is one of Follow.
LEMMA SamePieces ==
    ASSUME NEW p \in Seq(Words), NEW q \in Seq(Words), NEW x \in Words, NEW y \in Words,
           NEW Follow \in SUBSET Words, x \in Follow, y \in Follow,
           Continues(p, Follow), Continues(q, Follow), Distinct(p, q, Follow),
           NoneBegins(p, y), NoneBegins(q, x),
           FlattenSeq(p) ++ x = FlattenSeq(q) ++ y
    PROVE  p = q /\ x = y
  <1>. DEFINE m == Len(p)
              n == Len(q)
  <1>1. m \in Nat /\ n \in Nat /\ (\A k \in 1..m : p[k] \in Words) /\ \A k \in 1..n : q[k] \in Words
    OBVIOUS
  <1>2. PICK a : IsRest(a, p, x) /\ a[0] = FlattenSeq(p) ++ x
    BY Unfolds
  <1>3. PICK b : IsRest(b, q, y) /\ b[0] = FlattenSeq(q) ++ y
    BY Unfolds
  <1>4. /\ a[0] = b[0] /\ a[m] = x /\ b[n] = y
        /\ \A k \in 0..m : a[k] \in Words
        /\ \A k \in 0..n : b[k] \in Words
        /\ \A k \in 1..m : a[k - 1] = p[k] ++ a[k]
        /\ \A k \in 1..n : b[k - 1] = q[k] ++ b[k]
    BY <1>2, <1>3 DEF IsRest
  <1>5. /\ \A k \in 2..m : \A s \in Words : p[k] ++ s \in Follow
        /\ \A k \in 2..n : \A s \in Words : q[k] ++ s \in Follow
        /\ \A k \in 1..m : \A s \in Words : p[k] ++ s # y
        /\ \A k \in 1..n : \A s \in Words : q[k] ++ s # x
    BY DEF Continues, NoneBegins
  <1>6. /\ \A k \in 1..m : a[k] \in Words \cap Follow
        /\ \A k \in 1..n : b[k] \in Words \cap Follow
    <2>1. ASSUME NEW k \in 1..m PROVE a[k] \in Words \cap Follow
      <3>1. CASE k = m
        BY <3>1, <1>1, <1>4
      <3>2. CASE k # m
        <4>1. PICK i \in 2..m : i = k + 1
          BY <3>2, <1>1
        <4>2. i \in 1..m /\ i \in 0..m /\ i - 1 = k
          BY <4>1, <1>1
        <4>3. a[k] = p[i] ++ a[i] /\ a[i] \in Words
          BY <4>2, <1>4
        <4>4. p[i] ++ a[i] \in Follow
          BY ONLY <4>1, <4>3, <1>5
        <4>5. a[k] \in Words
          BY <1>1, <1>4
        <4>. QED BY ONLY <4>3, <4>4, <4>5
      <3>. QED BY <3>1, <3>2
    <2>2. ASSUME NEW k \in 1..n PROVE b[k] \in Words \cap Follow
      <3>1. CASE k = n
        BY <3>1, <1>1, <1>4
      <3>2. CASE k # n
        <4>1. PICK i \in 2..n : i = k + 1
          BY <3>2, <1>1
        <4>2. i \in 1..n /\ i \in 0..n /\ i - 1 = k
          BY <4>1, <1>1
        <4>3. b[k] = q[i] ++ b[i] /\ b[i] \in Words
          BY <4>2, <1>4
        <4>4. q[i] ++ b[i] \in Follow
          BY ONLY <4>1, <4>3, <1>5
        <4>5. b[k] \in Words
          BY <1>1, <1>4
        <4>. QED BY ONLY <4>3, <4>4, <4>5
      <3>. QED BY <3>1, <3>2
    <2>. QED BY <2>1, <2>2
  <1>. DEFINE T == {k \in 0..m : k <= n /\ a[k] = b[k] /\ \A j \in 1..k : p[j] = q[j]}
  <1>7. 0 \in T
    BY <1>1, <1>4
  <1>8. ASSUME NEW k \in 1..m, k - 1 \in T PROVE k \in T
    <2>1. k - 1 <= n /\ a[k - 1] = b[k - 1] /\ \A j \in 1..(k - 1) : p[j] = q[j]
      BY <1>8
    <2>2. a[k - 1] = p[k] ++ a[k] /\ a[k] \in Words /\ a[k] \in Follow
      BY <1>4, <1>6
    <2>3. k - 1 # n
      <3>. SUFFICES ASSUME k - 1 = n PROVE FALSE
        OBVIOUS
      <3>1. a[k - 1] = y
        BY <2>1, <1>4
      <3>2. p[k] ++ a[k] # y
        BY <2>2, <1>5
      <3>. QED BY <3>1, <3>2, <2>2
    <2>4. k \in 1..n /\ k <= n
      BY <2>1, <2>3, <1>1
    <2>5. b[k - 1] = q[k] ++ b[k] /\ b[k] \in Words /\ b[k] \in Follow
      BY <2>4, <1>4, <1>6
    <2>6. p[k] = q[k] /\ a[k] = b[k]
      <3>1. p[k] ++ a[k] = q[k] ++ b[k]
        BY <2>1, <2>2, <2>5
      <3>2. k \in (1..Len(p)) \cap (1..Len(q)) /\ a[k] \in Follow /\ b[k] \in Follow
        BY <2>2, <2>4, <2>5
      <3>. QED BY <3>1, <3>2 DEF Distinct
    <2>7. \A j \in 1..k : p[j] = q[j]
      BY <2>1, <2>6
    <2>. QED BY <2>4, <2>6, <2>7, <1>1
  <1>. HIDE DEF T
  <1>9. m \in T
    <2>1. 0..m \subseteq T
      BY <1>1, <1>7, <1>8, Reaches
    <2>. QED BY <2>1, <1>1
  <1>10. m <= n /\ x = b[m] /\ \A j \in 1..m : p[j] = q[j]
    BY <1>9, <1>4 DEF T
  <1>11. m = n
    <2>. SUFFICES ASSUME m # n PROVE FALSE
      OBVIOUS
    <2>1. m + 1 \in 1..n /\ m + 1 \in 0..n /\ (m + 1) - 1 = m
      BY <1>1, <1>10
    <2>2. b[m] = q[m + 1] ++ b[m + 1] /\ b[m + 1] \in Words
      BY <2>1, <1>4
    <2>3. q[m + 1] ++ b[m + 1] # x
      BY <2>1, <2>2, <1>5
    <2>. QED BY <2>2, <2>3, <1>10
  <1>12. p = q
    BY <1>10, <1>11, SeqEqual
  <1>. QED BY <1>4, <1>10, <1>11, <1>12
----------------------------------------------------------------------------
(***************************************************************************)
(* Escapes: a quoted text ends at the first quote that no backslash        *)
(* precedes.                                                               *)
(***************************************************************************)

\* A word of two symbols is one symbol behind the other.
LEMMA TwoSymbols ==
    ASSUME NEW s \in Symbols, NEW t \in Symbols
    PROVE  <<s, t>> \in Words /\ <<s, t>> = <<s>> ++ <<t>>
  <1>1. <<s>> \in Words /\ <<t>> \in Words /\ <<s, t>> \in Words
    BY DEF Words
  <1>2. Len(<<s>>) = 1 /\ Len(<<t>>) = 1 /\ Len(<<s, t>>) = 2
    OBVIOUS
  <1>3. /\ <<s>> ++ <<t>> \in Words /\ Len(<<s>> ++ <<t>>) = 2
        /\ (<<s>> ++ <<t>>)[1] = s /\ (<<s>> ++ <<t>>)[2] = t
    <2>1. 1 \in 1..(1 + 1) /\ 2 \in 1..(1 + 1) /\ 2 - 1 = 1 /\ ~(2 <= 1)
      OBVIOUS
    <2>. QED BY <1>1, <1>2, <2>1, ConcatProperties DEF Words, ++
  <1>4. \A i \in 1..2 : <<s, t>>[i] = (<<s>> ++ <<t>>)[i]
    BY <1>3
  <1>. QED BY <1>1, <1>2, <1>3, <1>4, SeqEqual DEF Words

\* Words begin with symbols.
LEMMA OneSymbol == \A s \in Symbols : <<s>> \in Words
  BY DEF Words

\* Two symbols in front of a word come one after the other.
LEMMA TwoInFront ==
    ASSUME NEW s \in Symbols, NEW t \in Symbols, NEW z \in Words
    PROVE  <<s, t>> ++ z = <<s>> ++ (<<t>> ++ z)
  <1>. DEFINE a == <<s>>
              b == <<t>>
  <1>1. a \in Words /\ b \in Words /\ <<s, t>> = a ++ b
    BY OneSymbol, TwoSymbols
  <1>. HIDE DEF a, b
  <1>2. (a ++ b) ++ z = a ++ (b ++ z)
    BY <1>1, Regroups
  <1>. QED BY <1>1, <1>2 DEF a, b

Escape(s) == IF s \in {Quote, Backslash} THEN <<Backslash, s>> ELSE <<s>>

\* The punctuation marks are symbols, and no two of those that matter are one.
LEMMA Marks ==
    /\ Punctuation \subseteq Symbols
    /\ \A c \in Punctuation : <<c>> \in Words
    /\ {LeftBrace, RightBrace, LeftBracket, RightBracket, Comma, Colon, Quote, Backslash}
          \subseteq Punctuation
    /\ Quote # Backslash
    /\ LeftBrace # LeftBracket /\ LeftBrace # Quote /\ LeftBracket # Quote
    /\ Comma # RightBrace /\ Comma # RightBracket
    /\ {LeftBrace, LeftBracket, Quote} \cap {RightBrace, RightBracket, Comma} = {}
  <1>1. Punctuation \subseteq Symbols
    BY CanonicalFormAssumption
  <1>2. \A c \in Punctuation : <<c>> \in Words
    BY <1>1, OneSymbol
  <1>3. /\ Quote # Backslash
        /\ LeftBrace # LeftBracket /\ LeftBrace # Quote /\ LeftBracket # Quote
        /\ Comma # RightBrace /\ Comma # RightBracket
        /\ LeftBrace # RightBrace /\ LeftBrace # RightBracket /\ LeftBrace # Comma
        /\ LeftBracket # RightBrace /\ LeftBracket # RightBracket /\ LeftBracket # Comma
        /\ Quote # RightBrace /\ Quote # RightBracket /\ Quote # Comma
    BY Zenon DEF LeftBrace, RightBrace, LeftBracket, RightBracket, Comma, Quote, Backslash
  <1>. QED BY <1>1, <1>2, <1>3 DEF Punctuation

\* The quote and the backslash that escapes it are two symbols.
LEMMA QuoteIsSymbol ==
    /\ Backslash \in Symbols /\ Quote \in Symbols /\ Quote # Backslash
    /\ <<Quote>> \in Words /\ <<Backslash>> \in Words
  BY Marks, Quote \in Punctuation, Backslash \in Punctuation

\* What a symbol is escaped to is a word.
LEMMA EscapeIsWord == \A s \in Symbols : Escape(s) \in Words
  BY QuoteIsSymbol, OneSymbol, TwoSymbols DEF Escape

\* An escaped symbol in front of a word.
LEMMA EscapeIs ==
    ASSUME NEW u \in Symbols, NEW z \in Words
    PROVE  /\ <<u>> ++ z \in Words
           /\ u \in {Quote, Backslash} => Escape(u) ++ z = <<Backslash>> ++ (<<u>> ++ z)
           /\ u \notin {Quote, Backslash} => Escape(u) ++ z = <<u>> ++ z
  <1>1. <<u>> \in Words /\ <<u>> ++ z \in Words
    BY OneSymbol, Joins
  <1>2. CASE u \in {Quote, Backslash}
    <2>1. Escape(u) = <<Backslash, u>>
      BY <1>2 DEF Escape
    <2>2. <<Backslash, u>> \in Words /\ <<Backslash, u>> ++ z = <<Backslash>> ++ (<<u>> ++ z)
      BY QuoteIsSymbol, TwoSymbols, TwoInFront
    <2>. QED BY <1>1, <1>2, <2>1, <2>2
  <1>3. CASE u \notin {Quote, Backslash}
    BY <1>1, <1>3 DEF Escape
  <1>. QED BY <1>2, <1>3

\* Two escaped symbols cannot be taken for each other.
LEMMA EscapeApart ==
    ASSUME NEW s \in Symbols, NEW t \in Symbols, NEW x \in Words, NEW y \in Words
    PROVE  Escape(s) ++ x = Escape(t) ++ y => s = t /\ x = y
  <1>1. Backslash \in Symbols /\ Quote \in Symbols /\ <<Backslash>> \in Words
    BY QuoteIsSymbol
  <1>2. /\ <<s>> ++ x \in Words /\ <<t>> ++ y \in Words
        /\ s \in {Quote, Backslash} => Escape(s) ++ x = <<Backslash>> ++ (<<s>> ++ x)
        /\ s \notin {Quote, Backslash} => Escape(s) ++ x = <<s>> ++ x
        /\ t \in {Quote, Backslash} => Escape(t) ++ y = <<Backslash>> ++ (<<t>> ++ y)
        /\ t \notin {Quote, Backslash} => Escape(t) ++ y = <<t>> ++ y
    BY EscapeIs
  <1>3. ASSUME Escape(s) ++ x = Escape(t) ++ y PROVE s = t /\ x = y
    <2>1. CASE s \in {Quote, Backslash} /\ t \in {Quote, Backslash}
      <3>1. <<Backslash>> ++ (<<s>> ++ x) = <<Backslash>> ++ (<<t>> ++ y) /\ <<s>> ++ x \in Words /\ <<t>> ++ y \in Words
        BY <1>2, <1>3, <2>1
      <3>2. <<s>> ++ x = <<t>> ++ y
        BY <3>1, <1>1, SameFront
      <3>. QED BY <3>2, HeadsApart
    <2>2. CASE s \in {Quote, Backslash} /\ t \notin {Quote, Backslash}
      <3>1. <<Backslash>> ++ (<<s>> ++ x) = <<t>> ++ y /\ <<s>> ++ x \in Words
        BY <1>2, <1>3, <2>2
      <3>2. Backslash = t
        BY <3>1, <1>1, HeadsApart
      <3>. QED BY <3>2, <2>2
    <2>3. CASE s \notin {Quote, Backslash} /\ t \in {Quote, Backslash}
      <3>1. <<s>> ++ x = <<Backslash>> ++ (<<t>> ++ y) /\ <<t>> ++ y \in Words
        BY <1>2, <1>3, <2>3
      <3>2. s = Backslash
        BY <3>1, <1>1, HeadsApart
      <3>. QED BY <3>2, <2>3
    <2>4. CASE s \notin {Quote, Backslash} /\ t \notin {Quote, Backslash}
      <3>1. <<s>> ++ x = <<t>> ++ y
        BY <1>2, <1>3, <2>4
      <3>. QED BY <3>1, HeadsApart
    <2>. QED BY <2>1, <2>2, <2>3, <2>4
  <1>. QED BY <1>3

\* An escaped symbol cannot be taken for a quote.
LEMMA EscapeIsNoQuote ==
    ASSUME NEW s \in Symbols, NEW x \in Words, NEW y \in Words
    PROVE  Escape(s) ++ x # <<Quote>> ++ y
  <1>1. Backslash \in Symbols /\ Quote \in Symbols /\ Quote # Backslash
    BY QuoteIsSymbol
  <1>2. /\ <<s>> ++ x \in Words
        /\ s \in {Quote, Backslash} => Escape(s) ++ x = <<Backslash>> ++ (<<s>> ++ x)
        /\ s \notin {Quote, Backslash} => Escape(s) ++ x = <<s>> ++ x
    BY EscapeIs
  <1>. SUFFICES ASSUME Escape(s) ++ x = <<Quote>> ++ y PROVE FALSE
    OBVIOUS
  <1>3. CASE s \in {Quote, Backslash}
    <2>1. <<Backslash>> ++ (<<s>> ++ x) = <<Quote>> ++ y
      BY <1>2, <1>3
    <2>. QED BY <2>1, <1>1, <1>2, OtherHeads
  <1>4. CASE s \notin {Quote, Backslash}
    <2>1. <<s>> ++ x = <<Quote>> ++ y
      BY <1>2, <1>4
    <2>2. s = Quote
      BY <2>1, <1>1, HeadsApart
    <2>. QED BY <2>2, <1>4
  <1>. QED BY <1>3, <1>4

\* What is between two quotes tells the text it was escaped from.
LEMMA EscapedApart ==
    ASSUME NEW t \in Words, NEW u \in Words, NEW x \in Words, NEW y \in Words
    PROVE  /\ Escaped(t) \in Words
           /\ Escaped(t) ++ (<<Quote>> ++ x) = Escaped(u) ++ (<<Quote>> ++ y) => t = u /\ x = y
  <1>. DEFINE Pieces(text) == [i \in DOMAIN text |-> Escape(text[i])]
  <1>1. Quote \in Symbols /\ <<Quote>> \in Words
    BY QuoteIsSymbol
  <1>2. ASSUME NEW text \in Words
        PROVE  /\ Pieces(text) \in Seq(Words) /\ Len(Pieces(text)) = Len(text)
               /\ \A i \in 1..Len(text) : Pieces(text)[i] = Escape(text[i]) /\ text[i] \in Symbols
               /\ Escaped(text) = FlattenSeq(Pieces(text))
    <2>1. \A i \in 1..Len(text) : text[i] \in Symbols
      BY DEF Words
    <2>2. \A i \in 1..Len(text) : Escape(text[i]) \in Words
      BY <2>1, EscapeIsWord
    <2>3. DOMAIN text = 1..Len(text) /\ Len(text) \in Nat
      BY DEF Words
    <2>4. Escaped(text) = FlattenSeq(Pieces(text))
      BY DEF Escaped, Escape
    <2>. QED BY <2>1, <2>2, <2>3, <2>4
  <1>. HIDE DEF Pieces
  <1>3. ASSUME Escaped(t) ++ (<<Quote>> ++ x) = Escaped(u) ++ (<<Quote>> ++ y)
        PROVE  t = u /\ x = y
    <2>. DEFINE p == Pieces(t)
                q == Pieces(u)
                xx == <<Quote>> ++ x
                yy == <<Quote>> ++ y
    <2>1. xx \in Words /\ yy \in Words
      BY <1>1, Joins
    <2>2. /\ p \in Seq(Words) /\ q \in Seq(Words) /\ Len(p) = Len(t) /\ Len(q) = Len(u)
          /\ \A i \in 1..Len(p) : p[i] = Escape(t[i]) /\ t[i] \in Symbols
          /\ \A i \in 1..Len(q) : q[i] = Escape(u[i]) /\ u[i] \in Symbols
          /\ FlattenSeq(p) ++ xx = FlattenSeq(q) ++ yy
      BY <1>2, <1>3
    <2>. HIDE DEF p, q, xx, yy
    <2>3. (\A i \in 1..Len(p) : p[i] \in Words) /\ \A i \in 1..Len(q) : q[i] \in Words
      BY <2>2
    <2>4. ASSUME NEW k \in 1..Len(p), NEW s \in Words PROVE p[k] ++ s \in Words /\ p[k] ++ s # yy
      <3>1. p[k] = Escape(t[k]) /\ t[k] \in Symbols /\ p[k] \in Words
        BY <2>2, <2>3
      <3>2. Escape(t[k]) ++ s # <<Quote>> ++ y
        BY <3>1, EscapeIsNoQuote
      <3>. QED BY <3>1, <3>2, Joins DEF yy
    <2>5. ASSUME NEW k \in 1..Len(q), NEW s \in Words PROVE q[k] ++ s \in Words /\ q[k] ++ s # xx
      <3>1. q[k] = Escape(u[k]) /\ u[k] \in Symbols /\ q[k] \in Words
        BY <2>2, <2>3
      <3>2. Escape(u[k]) ++ s # <<Quote>> ++ x
        BY <3>1, EscapeIsNoQuote
      <3>. QED BY <3>1, <3>2, Joins DEF xx
    <2>6. ASSUME NEW k \in (1..Len(p)) \cap (1..Len(q)), NEW s \in Words, NEW r \in Words,
                 p[k] ++ s = q[k] ++ r
          PROVE  p[k] = q[k] /\ s = r
      <3>1. p[k] = Escape(t[k]) /\ t[k] \in Symbols /\ q[k] = Escape(u[k]) /\ u[k] \in Symbols
        BY <2>2
      <3>2. Escape(t[k]) ++ s = Escape(u[k]) ++ r /\ s \in Words /\ r \in Words
        BY <2>6, <3>1
      <3>3. t[k] = u[k] /\ s = r
        BY <3>1, <3>2, EscapeApart
      <3>. QED BY <3>1, <3>3
    <2>7. p = q /\ xx = yy
      <3>1. Continues(p, Words) /\ NoneBegins(p, yy)
        BY <2>2, <2>4 DEF Continues, NoneBegins
      <3>2. Continues(q, Words) /\ NoneBegins(q, xx)
        BY <2>2, <2>5 DEF Continues, NoneBegins
      <3>3. Distinct(p, q, Words)
        BY <2>6 DEF Distinct
      <3>. QED BY ONLY <2>1, <2>2, <3>1, <3>2, <3>3, SamePieces
    <2>8. x = y
      BY <2>7, <1>1, HeadsApart DEF xx, yy
    <2>9. ASSUME NEW i \in 1..Len(t) PROVE t[i] = u[i]
      <3>1. Escape(t[i]) = Escape(u[i]) /\ t[i] \in Symbols /\ u[i] \in Symbols
        BY <2>2, <2>7
      <3>2. Escape(t[i]) ++ x = Escape(u[i]) ++ x
        BY <3>1
      <3>. QED BY <3>1, <3>2, EscapeApart
    <2>10. t = u
      BY <2>2, <2>7, <2>9, SeqEqual DEF Words
    <2>. QED BY <2>8, <2>10
  <1>4. Escaped(t) \in Words
    <2>1. <<>> \in Words
      BY DEF Words
    <2>. QED BY <1>2, <2>1, Unfolds
  <1>. QED BY <1>3, <1>4
----------------------------------------------------------------------------
(***************************************************************************)
(* The recursive functions of values, from their definitions: a level      *)
(* depends on the one below.                                               *)
(***************************************************************************)

Below(n) == IF n = 0 THEN {} ELSE Values[n - 1]

IsValues(f, n) == f = [k \in 0..n |-> Over(IF k = 0 THEN {} ELSE f[k - 1])]

\* The recursive definition of Values has a solution.
LEMMA ValuesExist == \E f : IsValues(f, MaxDepth)
  <1>. DEFINE T == {k \in 0..MaxDepth : \E f : IsValues(f, k)}
  <1>1. MaxDepth \in Nat
    BY CanonicalFormAssumption
  <1>2. 0 \in T
    <2>. DEFINE f == [k \in 0..0 |-> Over({})]
    <2>1. IsValues(f, 0)
      BY DEF IsValues
    <2>. QED BY <1>1, <2>1
  <1>3. ASSUME NEW k \in 1..MaxDepth, k - 1 \in T PROVE k \in T
    <2>1. PICK f : IsValues(f, k - 1)
      BY <1>3
    <2>. DEFINE g == [j \in 0..k |-> IF j = k THEN Over(f[k - 1]) ELSE f[j]]
    <2>2. ASSUME NEW j \in 0..k PROVE g[j] = Over(IF j = 0 THEN {} ELSE g[j - 1])
      <3>1. CASE j = k
        <4>1. k - 1 \in 0..k /\ k - 1 # k /\ k # 0
          OBVIOUS
        <4>. QED BY <3>1, <4>1
      <3>2. CASE j # k
        <4>1. j \in 0..(k - 1) /\ (j # 0 => j - 1 \in 0..k /\ j - 1 # k)
          BY <3>2
        <4>2. f[j] = Over(IF j = 0 THEN {} ELSE f[j - 1])
          BY <2>1, <4>1 DEF IsValues
        <4>. QED BY <3>2, <4>1, <4>2
      <3>. QED BY <3>1, <3>2
    <2>3. g = [j \in 0..k |-> g[j]]
      OBVIOUS
    <2>. HIDE DEF g
    <2>4. IsValues(g, k)
      BY <2>2, <2>3 DEF IsValues
    <2>. QED BY <2>4
  <1>. HIDE DEF T
  <1>4. MaxDepth \in T
    BY <1>1, <1>2, <1>3, Reaches
  <1>. QED BY <1>4 DEF T

\* Values are made of what is one level below them.
LEMMA ValuesDef ==
    ASSUME NEW n \in 0..MaxDepth
    PROVE  Values[n] = Over(Below(n))
  <1>1. Values = CHOOSE f : IsValues(f, MaxDepth)
    BY DEF Values, IsValues
  <1>2. IsValues(Values, MaxDepth)
    BY <1>1, ValuesExist
  <1>. QED BY <1>2 DEF IsValues, Below

\* The five recursive functions, together: what each makes of a value from what
\* it makes of the values below.
Level(n, f) ==
    [meaning   |-> [v \in Values[n] |-> MeaningFrom(v, IF n = 0 THEN <<>> ELSE f[n - 1].meaning)],
     sorted    |-> [v \in Values[n] |-> SortedFrom(v, IF n = 0 THEN <<>> ELSE f[n - 1].sorted)],
     text      |-> [keysEscaped \in BOOLEAN |-> [v \in Values[n] |->
                      TextFrom(v, keysEscaped, IF n = 0 THEN <<>> ELSE f[n - 1].text[keysEscaped])]],
     reordered |-> [v \in Values[n] |-> ReorderedFrom(v, IF n = 0 THEN <<>> ELSE f[n - 1].reordered)],
     plain     |-> [v \in Values[n] |-> PlainFrom(v, IF n = 0 THEN <<>> ELSE f[n - 1].plain)]]

IsLevels(f, n) == f = [k \in 0..n |-> Level(k, f)]

\* A level depends on the one below only.
LEMMA LevelDepends ==
    ASSUME NEW n \in Nat, NEW f, NEW g, n # 0 => f[n - 1] = g[n - 1]
    PROVE  Level(n, f) = Level(n, g)
  BY DEF Level

\* The recursive definitions of these functions have a solution.
LEMMA LevelsExist == \E f : IsLevels(f, MaxDepth)
  <1>. DEFINE T == {k \in 0..MaxDepth : \E f : IsLevels(f, k)}
  <1>1. MaxDepth \in Nat
    BY CanonicalFormAssumption
  <1>2. 0 \in T
    <2>. DEFINE f == [k \in 0..0 |-> Level(0, <<>>)]
    <2>1. Level(0, f) = Level(0, <<>>)
      BY LevelDepends
    <2>. HIDE DEF Level
    <2>2. IsLevels(f, 0)
      BY <2>1 DEF IsLevels
    <2>. QED BY <1>1, <2>2
  <1>3. ASSUME NEW k \in 1..MaxDepth, k - 1 \in T PROVE k \in T
    <2>1. PICK f : IsLevels(f, k - 1)
      BY <1>3
    <2>. DEFINE g == [j \in 0..k |-> IF j = k THEN Level(k, f) ELSE f[j]]
    <2>2. ASSUME NEW j \in 0..k PROVE g[j] = Level(j, g)
      <3>1. j \in Nat /\ (j # 0 => j - 1 \in 0..k /\ j - 1 # k /\ g[j - 1] = f[j - 1])
        OBVIOUS
      <3>. HIDE DEF g
      <3>2. Level(j, g) = Level(j, f)
        BY <3>1, LevelDepends
      <3>3. CASE j = k
        BY <3>2, <3>3 DEF g
      <3>4. CASE j # k
        <4>1. j \in 0..(k - 1)
          BY <3>4
        <4>2. f[j] = Level(j, f)
          BY <2>1, <4>1 DEF IsLevels
        <4>. QED BY <3>2, <3>4, <4>2 DEF g
      <3>. QED BY <3>3, <3>4
    <2>3. g = [j \in 0..k |-> g[j]]
      OBVIOUS
    <2>. HIDE DEF g
    <2>4. IsLevels(g, k)
      BY <2>2, <2>3 DEF IsLevels
    <2>. QED BY <2>4
  <1>. HIDE DEF T
  <1>4. MaxDepth \in T
    BY <1>1, <1>2, <1>3, Reaches
  <1>. QED BY <1>4 DEF T

\* Each is what its definition says, level by level: meanings,
LEMMA MeaningDef ==
    ASSUME NEW n \in 0..MaxDepth
    PROVE  MeaningAt[n] = [v \in Values[n] |-> MeaningFrom(v, IF n = 0 THEN <<>> ELSE MeaningAt[n - 1])]
  <1>. DEFINE Is(f) == f = [k \in 0..MaxDepth |->
                  [v \in Values[k] |-> MeaningFrom(v, IF k = 0 THEN <<>> ELSE f[k - 1])]]
  <1>1. PICK f : IsLevels(f, MaxDepth)
    BY LevelsExist
  <1>2. \A k \in 0..MaxDepth : f[k] = Level(k, f)
    BY <1>1 DEF IsLevels
  <1>. DEFINE g == [k \in 0..MaxDepth |-> f[k].meaning]
  <1>3. ASSUME NEW k \in 0..MaxDepth
        PROVE  g[k] = [v \in Values[k] |-> MeaningFrom(v, IF k = 0 THEN <<>> ELSE g[k - 1])]
    <2>1. k # 0 => k - 1 \in 0..MaxDepth
      BY CanonicalFormAssumption
    <2>2. Level(k, f).meaning = [v \in Values[k] |-> MeaningFrom(v, IF k = 0 THEN <<>> ELSE f[k - 1].meaning)]
      BY DEF Level
    <2>. QED BY <1>2, <2>1, <2>2
  <1>4. Is(g)
    BY <1>3
  <1>5. MeaningAt = CHOOSE h : Is(h)
    BY DEF MeaningAt
  <1>6. Is(MeaningAt)
    BY <1>4, <1>5
  <1>. QED BY <1>6
\* sorted values,
LEMMA SortedDef ==
    ASSUME NEW n \in 0..MaxDepth
    PROVE  SortedAt[n] = [v \in Values[n] |-> SortedFrom(v, IF n = 0 THEN <<>> ELSE SortedAt[n - 1])]
  <1>. DEFINE Is(f) == f = [k \in 0..MaxDepth |->
                  [v \in Values[k] |-> SortedFrom(v, IF k = 0 THEN <<>> ELSE f[k - 1])]]
  <1>1. PICK f : IsLevels(f, MaxDepth)
    BY LevelsExist
  <1>2. \A k \in 0..MaxDepth : f[k] = Level(k, f)
    BY <1>1 DEF IsLevels
  <1>. DEFINE g == [k \in 0..MaxDepth |-> f[k].sorted]
  <1>3. ASSUME NEW k \in 0..MaxDepth
        PROVE  g[k] = [v \in Values[k] |-> SortedFrom(v, IF k = 0 THEN <<>> ELSE g[k - 1])]
    <2>1. k # 0 => k - 1 \in 0..MaxDepth
      BY CanonicalFormAssumption
    <2>2. Level(k, f).sorted = [v \in Values[k] |-> SortedFrom(v, IF k = 0 THEN <<>> ELSE f[k - 1].sorted)]
      BY DEF Level
    <2>. QED BY <1>2, <2>1, <2>2
  <1>4. Is(g)
    BY <1>3
  <1>5. SortedAt = CHOOSE h : Is(h)
    BY DEF SortedAt
  <1>6. Is(SortedAt)
    BY <1>4, <1>5
  <1>. QED BY <1>6
\* values in the opposite order,
LEMMA ReorderedDef ==
    ASSUME NEW n \in 0..MaxDepth
    PROVE  ReorderedAt[n] = [v \in Values[n] |-> ReorderedFrom(v, IF n = 0 THEN <<>> ELSE ReorderedAt[n - 1])]
  <1>. DEFINE Is(f) == f = [k \in 0..MaxDepth |->
                  [v \in Values[k] |-> ReorderedFrom(v, IF k = 0 THEN <<>> ELSE f[k - 1])]]
  <1>1. PICK f : IsLevels(f, MaxDepth)
    BY LevelsExist
  <1>2. \A k \in 0..MaxDepth : f[k] = Level(k, f)
    BY <1>1 DEF IsLevels
  <1>. DEFINE g == [k \in 0..MaxDepth |-> f[k].reordered]
  <1>3. ASSUME NEW k \in 0..MaxDepth
        PROVE  g[k] = [v \in Values[k] |-> ReorderedFrom(v, IF k = 0 THEN <<>> ELSE g[k - 1])]
    <2>1. k # 0 => k - 1 \in 0..MaxDepth
      BY CanonicalFormAssumption
    <2>2. Level(k, f).reordered = [v \in Values[k] |-> ReorderedFrom(v, IF k = 0 THEN <<>> ELSE f[k - 1].reordered)]
      BY DEF Level
    <2>. QED BY <1>2, <2>1, <2>2
  <1>4. Is(g)
    BY <1>3
  <1>5. ReorderedAt = CHOOSE h : Is(h)
    BY DEF ReorderedAt
  <1>6. Is(ReorderedAt)
    BY <1>4, <1>5
  <1>. QED BY <1>6
\* the test for plain keys,
LEMMA PlainDef ==
    ASSUME NEW n \in 0..MaxDepth
    PROVE  PlainAt[n] = [v \in Values[n] |-> PlainFrom(v, IF n = 0 THEN <<>> ELSE PlainAt[n - 1])]
  <1>. DEFINE Is(f) == f = [k \in 0..MaxDepth |->
                  [v \in Values[k] |-> PlainFrom(v, IF k = 0 THEN <<>> ELSE f[k - 1])]]
  <1>1. PICK f : IsLevels(f, MaxDepth)
    BY LevelsExist
  <1>2. \A k \in 0..MaxDepth : f[k] = Level(k, f)
    BY <1>1 DEF IsLevels
  <1>. DEFINE g == [k \in 0..MaxDepth |-> f[k].plain]
  <1>3. ASSUME NEW k \in 0..MaxDepth
        PROVE  g[k] = [v \in Values[k] |-> PlainFrom(v, IF k = 0 THEN <<>> ELSE g[k - 1])]
    <2>1. k # 0 => k - 1 \in 0..MaxDepth
      BY CanonicalFormAssumption
    <2>2. Level(k, f).plain = [v \in Values[k] |-> PlainFrom(v, IF k = 0 THEN <<>> ELSE f[k - 1].plain)]
      BY DEF Level
    <2>. QED BY <1>2, <2>1, <2>2
  <1>4. Is(g)
    BY <1>3
  <1>5. PlainAt = CHOOSE h : Is(h)
    BY DEF PlainAt
  <1>6. Is(PlainAt)
    BY <1>4, <1>5
  <1>. QED BY <1>6
\* and texts.
LEMMA TextDef ==
    ASSUME NEW n \in 0..MaxDepth, NEW keysEscaped \in BOOLEAN
    PROVE  TextAt[n][keysEscaped] =
              [v \in Values[n] |->
                  TextFrom(v, keysEscaped, IF n = 0 THEN <<>> ELSE TextAt[n - 1][keysEscaped])]
  <1>. DEFINE G(h, k) == [e \in BOOLEAN |->
                  [v \in Values[k] |-> TextFrom(v, e, IF k = 0 THEN <<>> ELSE h[k - 1][e])]]
              Is(f) == f = [k \in 0..MaxDepth |-> G(f, k)]
  <1>1. PICK f : IsLevels(f, MaxDepth)
    BY LevelsExist
  <1>2. \A k \in 0..MaxDepth : f[k] = Level(k, f)
    BY <1>1 DEF IsLevels
  <1>. DEFINE g == [k \in 0..MaxDepth |-> f[k].text]
  <1>3. ASSUME NEW k \in 0..MaxDepth
        PROVE  g[k] = G(g, k)
    <2>1. k # 0 => g[k - 1] = f[k - 1].text
      BY CanonicalFormAssumption
    <2>2. g[k] = Level(k, f).text
      BY <1>2
    <2>3. Level(k, f).text = [e \in BOOLEAN |->
             [v \in Values[k] |-> TextFrom(v, e, IF k = 0 THEN <<>> ELSE f[k - 1].text[e])]]
      BY DEF Level
    <2>. QED BY Zenon, <2>1, <2>2, <2>3
  <1>4. g = [k \in 0..MaxDepth |-> g[k]]
    OBVIOUS
  <1>5. TextAt = CHOOSE h : Is(h)
    BY DEF TextAt
  <1>. HIDE DEF G, g
  <1>6. Is(TextAt)
    <2>1. Is(g)
      BY <1>3, <1>4
    <2>. HIDE DEF Is
    <2>. QED BY Zenon, <1>5, <2>1
  <1>7. TextAt[n] = [e \in BOOLEAN |->
           [v \in Values[n] |-> TextFrom(v, e, IF n = 0 THEN <<>> ELSE TextAt[n - 1][e])]]
    <2>1. TextAt[n] = G(TextAt, n)
      BY <1>6
    <2>. QED BY ONLY <2>1 DEF G
  <1>. QED BY <1>7
----------------------------------------------------------------------------
(***************************************************************************)
(* Lists: a comma or a closing mark ends an item, whatever the item is.    *)
(***************************************************************************)

\* The marks that end an item, a list or an object.
LEMMA Closing ==
    ASSUME NEW c \in {RightBrace, RightBracket, Comma}
    PROVE  c \in Symbols /\ c \in Punctuation /\ <<c>> \in Words
  BY Marks

\* Two words, the first with nothing of P in it, the second nothing or begun by one of P.
SplitAlike(P, t, x, u, y) ==
    /\ P \in SUBSET Symbols /\ t \in Seq(Symbols \ P) /\ u \in Seq(Symbols \ P)
    /\ x \in Words /\ (x = <<>> \/ x[1] \in P)
    /\ y \in Words /\ (y = <<>> \/ y[1] \in P)
    /\ t ++ x = u ++ y

\* Two words, each split where its first symbol of P is, have been split alike.
LEMMA SplitsAt ==
    ASSUME NEW P, NEW t, NEW x, NEW u, NEW y, SplitAlike(P, t, x, u, y)
    PROVE  t = u /\ x = y
  <1>. USE DEF SplitAlike
  <1>1. /\ t \in Words /\ u \in Words
        /\ Len(t) \in Nat /\ Len(u) \in Nat /\ Len(x) \in Nat /\ Len(y) \in Nat
        /\ \A i \in 1..Len(t) : t[i] \notin P
        /\ \A i \in 1..Len(u) : u[i] \notin P
    BY DEF Words
  <1>. DEFINE w == t ++ x
  <1>2. /\ Len(w) = Len(t) + Len(x) /\ Len(w) = Len(u) + Len(y)
        /\ \A i \in 1..Len(w) : w[i] = IF i <= Len(t) THEN t[i] ELSE x[i - Len(t)]
        /\ \A i \in 1..Len(w) : w[i] = IF i <= Len(u) THEN u[i] ELSE y[i - Len(u)]
    <2>1. /\ Len(t \o x) = Len(t) + Len(x)
          /\ \A i \in 1..(Len(t) + Len(x)) : (t \o x)[i] = IF i <= Len(t) THEN t[i] ELSE x[i - Len(t)]
      BY <1>1, ConcatProperties DEF Words
    <2>2. /\ Len(u \o y) = Len(u) + Len(y)
          /\ \A i \in 1..(Len(u) + Len(y)) : (u \o y)[i] = IF i <= Len(u) THEN u[i] ELSE y[i - Len(u)]
      BY <1>1, ConcatProperties DEF Words
    <2>3. w = t \o x /\ w = u \o y
      BY DEF ++
    <2>. HIDE DEF w
    <2>. QED BY <2>1, <2>2, <2>3
  <1>. HIDE DEF w
  <1>3. ~(Len(t) < Len(u))
    <2>. SUFFICES ASSUME Len(t) < Len(u) PROVE FALSE
      OBVIOUS
    <2>1. PICK i \in Nat : i = Len(t) + 1
      BY <1>1
    <2>2. i \in 1..Len(w) /\ i \in 1..Len(u) /\ ~(i <= Len(t)) /\ i <= Len(u) /\ i - Len(t) = 1
      BY <1>1, <1>2, <2>1
    <2>3. w[i] = u[i] /\ w[i] = x[1]
      BY <1>2, <2>2
    <2>4. x # <<>>
      <3>1. Len(x) > 0
        BY <1>1, <1>2, <2>1, <2>2
      <3>. QED BY <3>1
    <2>. QED BY <1>1, <2>2, <2>3, <2>4
  <1>4. ~(Len(u) < Len(t))
    <2>. SUFFICES ASSUME Len(u) < Len(t) PROVE FALSE
      OBVIOUS
    <2>1. PICK i \in Nat : i = Len(u) + 1
      BY <1>1
    <2>2. i \in 1..Len(w) /\ i \in 1..Len(t) /\ ~(i <= Len(u)) /\ i <= Len(t) /\ i - Len(u) = 1
      BY <1>1, <1>2, <2>1
    <2>3. w[i] = t[i] /\ w[i] = y[1]
      BY <1>2, <2>2
    <2>4. y # <<>>
      <3>1. Len(y) > 0
        BY <1>1, <1>2, <2>1, <2>2
      <3>. QED BY <3>1
    <2>. QED BY <1>1, <2>2, <2>3, <2>4
  <1>5. Len(t) = Len(u)
    BY <1>1, <1>3, <1>4
  <1>6. ASSUME NEW i \in 1..Len(t) PROVE t[i] = u[i]
    <2>1. i \in 1..Len(w) /\ i <= Len(t) /\ i <= Len(u)
      BY <1>1, <1>2, <1>5
    <2>. QED BY <1>2, <2>1
  <1>7. t = u
    BY <1>1, <1>5, <1>6, SeqEqual DEF Words
  <1>8. x = y
    BY <1>1, <1>7, SameFront
  <1>. QED BY <1>7, <1>8

\* What may come after a value: nothing, or a punctuation mark.
Follow == {x \in Words : x = <<>> \/ x[1] \in Punctuation}

\* A symbol in front of a word is the word's head; a punctuation mark may come after a value.
LEMMA Heads ==
    ASSUME NEW s \in Symbols, NEW z \in Words
    PROVE  /\ <<s>> ++ z \in Words /\ <<s>> ++ z # <<>> /\ (<<s>> ++ z)[1] = s
           /\ s \in Punctuation => <<s>> ++ z \in Follow
  <1>1. <<s>> \in Words /\ Len(<<s>>) = 1 /\ <<s>>[1] = s /\ Len(z) \in Nat
    BY OneSymbol DEF Words
  <1>2. <<s>> ++ z \in Words /\ Len(<<s>> ++ z) = 1 + Len(z)
    BY <1>1, ConcatProperties DEF Words, ++
  <1>3. (<<s>> ++ z)[1] = s
    <2>1. 1 \in 1..(1 + Len(z)) /\ 1 <= 1
      BY <1>1
    <2>. QED BY <1>1, <2>1, ConcatProperties DEF Words, ++
  <1>4. <<s>> ++ z # <<>>
    <2>1. Len(<<s>> ++ z) # 0
      BY <1>1, <1>2
    <2>. QED BY <2>1
  <1>. QED BY <1>2, <1>3, <1>4 DEF Follow

\* A text may come last.
LEMMA NothingFollows == <<>> \in Follow /\ <<>> \in Words
  BY DEF Follow, Words

\* Words of an item or a member begin with neither a comma nor a closing mark.
Opens(x) == x # <<>> /\ x[1] \notin {RightBrace, RightBracket, Comma}

\* The first symbol of a word stays first, whatever comes after it.
LEMMA FirstAhead ==
    ASSUME NEW x \in Words, x # <<>>, NEW y \in Words
    PROVE  x ++ y # <<>> /\ (x ++ y)[1] = x[1] /\ x[1] \in Symbols
  <1>1. Len(x) \in Nat /\ Len(y) \in Nat /\ Len(x) # 0 /\ x[1] \in Symbols
    BY DEF Words
  <1>2. x ++ y \in Words /\ Len(x ++ y) = Len(x) + Len(y)
    BY ConcatProperties DEF Words, ++
  <1>3. (x ++ y)[1] = x[1]
    <2>1. 1 \in 1..(Len(x) + Len(y)) /\ 1 <= Len(x)
      BY <1>1
    <2>. QED BY <2>1, ConcatProperties DEF Words, ++
  <1>4. Len(x ++ y) # 0
    BY <1>1, <1>2
  <1>. QED BY <1>1, <1>3, <1>4

\* Neither does what comes after a word change what opens it.
LEMMA OpensAhead ==
    ASSUME NEW x \in Words, Opens(x), NEW y \in Words
    PROVE  Opens(x ++ y)
  BY FirstAhead DEF Opens

\* Something that opens is not something that closes.
LEMMA OpensNotCloses ==
    ASSUME NEW x, Opens(x), NEW c \in {RightBrace, RightBracket, Comma}, NEW y \in Words
    PROVE  x # <<c>> ++ y
  <1>1. (<<c>> ++ y)[1] = c
    BY Closing, Heads
  <1>. QED BY <1>1 DEF Opens

\* What joining puts together: texts with commas between them.
Pieces(texts) == [i \in DOMAIN texts |-> IF i = 1 THEN texts[1] ELSE <<Comma>> ++ texts[i]]

\* Joining texts with commas is joining these pieces.
LEMMA PiecesAre ==
    ASSUME NEW texts \in Seq(Words)
    PROVE  /\ Pieces(texts) \in Seq(Words) /\ Len(Pieces(texts)) = Len(texts)
           /\ \A i \in 1..Len(texts) :
                 Pieces(texts)[i] = IF i = 1 THEN texts[1] ELSE <<Comma>> ++ texts[i]
           /\ Joined(texts) = FlattenSeq(Pieces(texts)) /\ Joined(texts) \in Words
  <1>1. \A i \in 1..Len(texts) : texts[i] \in Words
    OBVIOUS
  <1>2. \A i \in 1..Len(texts) : <<Comma>> ++ texts[i] \in Words
    BY <1>1, Closing, Joins
  <1>3. DOMAIN texts = 1..Len(texts) /\ Len(texts) \in Nat
    OBVIOUS
  <1>4. Joined(texts) = FlattenSeq(Pieces(texts))
    BY DEF Joined, Pieces, ++
  <1>5. Pieces(texts) \in Seq(Words) /\ Len(Pieces(texts)) = Len(texts)
    BY <1>1, <1>2, <1>3 DEF Pieces
  <1>6. Joined(texts) \in Words
    BY <1>4, <1>5, NothingFollows, Unfolds
  <1>. QED BY <1>3, <1>4, <1>5, <1>6 DEF Pieces

\* What a piece is the beginning of.
LEMMA PieceBegins ==
    ASSUME NEW texts \in Seq(Words), NEW k \in 1..Len(texts), Opens(texts[k]), NEW s \in Words
    PROVE  /\ \A c \in {RightBrace, RightBracket}, z \in Words : Pieces(texts)[k] ++ s # <<c>> ++ z
           /\ k # 1 => Pieces(texts)[k] ++ s = <<Comma>> ++ (texts[k] ++ s)
           /\ k # 1 => Pieces(texts)[k] ++ s \in Follow
  <1>0. texts[k] \in Words
    OBVIOUS
  <1>1. texts[k] ++ s \in Words
    BY <1>0, Joins
  <1>2. CASE k = 1
    <2>1. Pieces(texts)[k] = texts[k]
      BY <1>2, PiecesAre
    <2>2. Opens(texts[k] ++ s)
      BY <1>0, OpensAhead
    <2>. QED BY <1>2, <2>1, <2>2, OpensNotCloses
  <1>3. CASE k # 1
    <2>1. Pieces(texts)[k] = <<Comma>> ++ texts[k]
      BY <1>3, PiecesAre
    <2>2. Pieces(texts)[k] ++ s = <<Comma>> ++ (texts[k] ++ s)
      BY <2>1, <1>0, Closing, Regroups
    <2>3. Comma \in Symbols /\ Comma \in Punctuation
      BY Closing
    <2>4. ASSUME NEW c \in {RightBrace, RightBracket}, NEW z \in Words
          PROVE  <<Comma>> ++ (texts[k] ++ s) # <<c>> ++ z
      <3>1. c \in Symbols /\ Comma # c
        BY Closing, Marks
      <3>. QED BY <1>1, <2>3, <3>1, OtherHeads
    <2>5. <<Comma>> ++ (texts[k] ++ s) \in Follow
      BY <1>1, <2>3, Heads
    <2>. QED BY <2>2, <2>4, <2>5
  <1>. QED BY <1>2, <1>3

AllOpen(p) == \A k \in 1..Len(p) : Opens(p[k])

\* What comes after an item is a comma or the mark that closes the list, and no item begins with that.
LEMMA PiecesContinue ==
    ASSUME NEW p \in Seq(Words), AllOpen(p), NEW c \in {RightBrace, RightBracket}, NEW z \in Words
    PROVE  Continues(Pieces(p), Follow) /\ NoneBegins(Pieces(p), <<c>> ++ z)
  <1>1. Len(Pieces(p)) = Len(p) /\ Len(p) \in Nat
    BY PiecesAre
  <1>2. ASSUME NEW k \in 2..Len(p), NEW s \in Words PROVE Pieces(p)[k] ++ s \in Follow
    <2>1. k \in 1..Len(p) /\ k # 1 /\ Opens(p[k])
      BY <1>1 DEF AllOpen
    <2>. QED BY <2>1, PieceBegins
  <1>3. ASSUME NEW k \in 1..Len(p), NEW s \in Words PROVE Pieces(p)[k] ++ s # <<c>> ++ z
    <2>1. Opens(p[k])
      BY DEF AllOpen
    <2>. QED BY <2>1, PieceBegins
  <1>. QED BY <1>1, <1>2, <1>3 DEF Continues, NoneBegins

\* Items that can be told apart remain so behind a comma.
LEMMA PiecesDistinct ==
    ASSUME NEW p \in Seq(Words), NEW q \in Seq(Words), AllOpen(p), AllOpen(q), Distinct(p, q, Follow),
           NEW k \in (1..Len(p)) \cap (1..Len(q)), NEW s \in Follow, NEW t \in Follow,
           Pieces(p)[k] ++ s = Pieces(q)[k] ++ t
    PROVE  p[k] = q[k] /\ s = t /\ Pieces(p)[k] = Pieces(q)[k]
  <1>0. p[k] \in Words /\ q[k] \in Words /\ s \in Words /\ t \in Words /\ Opens(p[k]) /\ Opens(q[k])
        /\ k \in 1..Len(p) /\ k \in 1..Len(q)
    BY DEF Follow, AllOpen
  <1>1. p[k] ++ s = q[k] ++ t
    <2>1. CASE k = 1
      BY <2>1, PiecesAre
    <2>2. CASE k # 1
      <3>1. Pieces(p)[k] ++ s = <<Comma>> ++ (p[k] ++ s)
        BY <1>0, <2>2, PieceBegins
      <3>2. Pieces(q)[k] ++ t = <<Comma>> ++ (q[k] ++ t)
        BY <1>0, <2>2, PieceBegins
      <3>3. p[k] ++ s \in Words /\ q[k] ++ t \in Words
        BY <1>0, Joins
      <3>. QED BY <3>1, <3>2, <3>3, Closing, SameFront
    <2>. QED BY <2>1, <2>2
  <1>2. p[k] = q[k] /\ s = t
    BY <1>1 DEF Distinct
  <1>3. Pieces(p)[k] = Pieces(q)[k]
    BY <1>0, <1>2, PiecesAre
  <1>. QED BY <1>2, <1>3

\* A list of texts can be read off what joins them, up to the mark that closes it.
LEMMA JoinedApart ==
    ASSUME NEW c \in {RightBrace, RightBracket}, NEW p \in Seq(Words), NEW q \in Seq(Words),
           NEW x \in Words, NEW y \in Words, AllOpen(p), AllOpen(q), Distinct(p, q, Follow),
           Joined(p) ++ (<<c>> ++ x) = Joined(q) ++ (<<c>> ++ y)
    PROVE  p = q /\ x = y
  <1>. DEFINE pp == Pieces(p)
              qq == Pieces(q)
              xx == <<c>> ++ x
              yy == <<c>> ++ y
  <1>1. c \in Symbols /\ xx \in Follow /\ yy \in Follow /\ xx \in Words /\ yy \in Words
        /\ Follow \in SUBSET Words
    BY Closing, Heads DEF Follow
  <1>2. /\ pp \in Seq(Words) /\ qq \in Seq(Words) /\ Len(pp) = Len(p) /\ Len(qq) = Len(q)
        /\ Len(p) \in Nat /\ Len(q) \in Nat
        /\ FlattenSeq(pp) ++ xx = FlattenSeq(qq) ++ yy
    BY PiecesAre
  <1>3. Continues(pp, Follow) /\ NoneBegins(pp, yy)
    BY PiecesContinue
  <1>4. Continues(qq, Follow) /\ NoneBegins(qq, xx)
    BY PiecesContinue
  <1>5. ASSUME NEW k \in (1..Len(p)) \cap (1..Len(q)), NEW s \in Follow, NEW t \in Follow,
               pp[k] ++ s = qq[k] ++ t
        PROVE  p[k] = q[k] /\ s = t /\ pp[k] = qq[k]
    BY <1>5, PiecesDistinct
  <1>. HIDE DEF pp, qq, xx, yy
  <1>6. pp = qq /\ xx = yy
    <2>1. Distinct(pp, qq, Follow)
      BY ONLY <1>2, <1>5 DEF Distinct
    <2>. QED BY ONLY <1>1, <1>2, <1>3, <1>4, <2>1, SamePieces
  <1>7. x = y
    BY <1>1, <1>6, HeadsApart DEF xx, yy
  <1>8. ASSUME NEW k \in 1..Len(p) PROVE p[k] = q[k]
    <2>1. k \in 1..Len(q) /\ pp[k] ++ <<>> = qq[k] ++ <<>>
      BY ONLY <1>2, <1>6, k \in 1..Len(p)
    <2>. QED BY <1>5, <2>1, NothingFollows
  <1>9. p = q
    <2>1. Len(p) = Len(q)
      BY <1>2, <1>6
    <2>. QED BY ONLY <2>1, <1>8, SeqEqual, p \in Seq(Words), q \in Seq(Words)
  <1>. QED BY <1>7, <1>9
----------------------------------------------------------------------------
(***************************************************************************)
(* The text of a value tells the value, kind by kind and level by level,   *)
(* and whatever comes after it.                                            *)
(***************************************************************************)

\* The four kinds of values, and what each is made of.
LEMMA Shapes ==
    ASSUME NEW S, NEW v \in Over(S)
    PROVE  \/ /\ v.kind = "scalar" /\ v.text \in Seq(Symbols \ Punctuation) /\ v.text # <<>>
              /\ v = [kind |-> "scalar", text |-> v.text]
           \/ /\ v.kind = "string" /\ v.text \in Words
              /\ v = [kind |-> "string", text |-> v.text]
           \/ v.kind = "array" /\ v.items \in Seq(S) /\ v = Arr(v.items)
           \/ v.kind = "object" /\ v.members \in MembersOver(S) /\ v = Obj(v.members)
  <1>1. CASE v \in [kind : {"scalar"}, text : Seq(Symbols \ Punctuation) \ {<<>>}]
    BY <1>1
  <1>2. CASE v \in [kind : {"string"}, text : Seq(Symbols)]
    BY <1>2 DEF Words
  <1>3. CASE v \in [kind : {"array"}, items : Seq(S)]
    BY <1>3 DEF Arr
  <1>4. CASE v \in [kind : {"object"}, members : MembersOver(S)]
    BY <1>4 DEF Obj
  <1>. QED BY <1>1, <1>2, <1>3, <1>4 DEF Over, Leaves

\* What is made of values of one level is a value of the next.
LEMMA ShapesOver ==
    ASSUME NEW S
    PROVE  /\ \A text \in Words : Str(text) \in Over(S)
           /\ \A items \in Seq(S) : Arr(items) \in Over(S)
           /\ \A ms \in MembersOver(S) : Obj(ms) \in Over(S)
  BY DEF Over, Leaves, Words, Str, Arr, Obj

\* A key is a text.
LEMMA DocumentKeysAreWords == DocumentKeys \subseteq Words
  <1>1. KeyOrder \in Seq(Words)
    BY CanonicalFormAssumption DEF Words
  <1>. QED BY <1>1 DEF DocumentKeys, ToSet

\* The members of an object are pairs of a key and a value, and no two have one key.
LEMMA MembersAre ==
    ASSUME NEW S, NEW ms \in MembersOver(S)
    PROVE  /\ ms \in Seq(DocumentKeys \X S) /\ Len(ms) \in Nat /\ DOMAIN ms = 1..Len(ms)
           /\ \A i \in 1..Len(ms) : /\ ms[i] = <<ms[i][1], ms[i][2]>>
                                    /\ ms[i][1] \in DocumentKeys /\ ms[i][1] \in Words
                                    /\ ms[i][2] \in S
           /\ \A i, j \in 1..Len(ms) : ms[i][1] = ms[j][1] => i = j
  <1>1. ms \in Seq(DocumentKeys \X S) /\ \A i, j \in DOMAIN ms : ms[i][1] = ms[j][1] => i = j
    BY DEF MembersOver
  <1>2. DOMAIN ms = 1..Len(ms) /\ Len(ms) \in Nat
    BY <1>1
  <1>3. ASSUME NEW i \in 1..Len(ms)
        PROVE  ms[i] = <<ms[i][1], ms[i][2]>> /\ ms[i][1] \in DocumentKeys /\ ms[i][2] \in S
    <2>1. ms[i] \in DocumentKeys \X S
      BY <1>1
    <2>. QED BY <2>1
  <1>. QED BY <1>1, <1>2, <1>3, DocumentKeysAreWords

\* A text between two marks.
LEMMA Between ==
    ASSUME NEW a \in Punctuation, NEW c \in Punctuation, NEW w \in Words
    PROVE  /\ (<<a>> ++ w) ++ <<c>> \in Words
           /\ (<<a>> ++ w) ++ <<c>> = <<a>> ++ (w ++ <<c>>)
           /\ w ++ <<c>> \in Words
           /\ \A x \in Words : ((<<a>> ++ w) ++ <<c>>) ++ x = <<a>> ++ (w ++ (<<c>> ++ x))
  <1>1. <<a>> \in Words /\ <<c>> \in Words
    BY Marks
  <1>2. w ++ <<c>> \in Words /\ (<<a>> ++ w) ++ <<c>> = <<a>> ++ (w ++ <<c>>)
    BY <1>1, Joins, Regroups
  <1>3. <<a>> ++ (w ++ <<c>>) \in Words
    BY <1>1, <1>2, Joins
  <1>4. ASSUME NEW x \in Words
        PROVE  ((<<a>> ++ w) ++ <<c>>) ++ x = <<a>> ++ (w ++ (<<c>> ++ x))
    <2>. DEFINE b == w ++ <<c>>
    <2>1. (<<a>> ++ b) ++ x = <<a>> ++ (b ++ x)
      BY <1>1, <1>2, Regroups
    <2>2. b ++ x = w ++ (<<c>> ++ x)
      BY <1>1, Regroups
    <2>. QED BY <1>2, <2>1, <2>2
  <1>. QED BY <1>2, <1>3, <1>4

\* A quoted text is a text between two quotes.
LEMMA QuotedIs ==
    ASSUME NEW w \in Words
    PROVE  /\ Quoted(w) \in Words /\ Quoted(w) = <<Quote>> ++ (w ++ <<Quote>>) /\ w ++ <<Quote>> \in Words
           /\ \A x \in Words : Quoted(w) ++ x = <<Quote>> ++ (w ++ (<<Quote>> ++ x))
  <1>1. Quoted(w) = (<<Quote>> ++ w) ++ <<Quote>>
    BY DEF Quoted, ++
  <1>. DEFINE q == (<<Quote>> ++ w) ++ <<Quote>>
  <1>2. Quote \in Punctuation
    BY Marks
  <1>3. /\ q \in Words /\ q = <<Quote>> ++ (w ++ <<Quote>>) /\ w ++ <<Quote>> \in Words
        /\ \A x \in Words : q ++ x = <<Quote>> ++ (w ++ (<<Quote>> ++ x))
    BY <1>2, Between
  <1>. HIDE DEF q
  <1>4. Quoted(w) = q
    BY <1>1 DEF q
  <1>. QED BY <1>3, <1>4

\* A member of an object: its key between quotes, a colon and a text.
KeyedText(w, text) == Quoted(w) \o <<Colon>> \o text

\* A member's text is its key's between quotes, a colon, and its value's.
LEMMA KeyedTextIs ==
    ASSUME NEW w \in Words, NEW text \in Words
    PROVE  /\ KeyedText(w, text) \in Words
           /\ Opens(KeyedText(w, text))
           /\ \A x \in Words : /\ text ++ x \in Words
                               /\ <<Colon>> ++ (text ++ x) \in Words
                               /\ KeyedText(w, text) ++ x =
                                     <<Quote>> ++ (w ++ (<<Quote>> ++ (<<Colon>> ++ (text ++ x))))
  <1>1. KeyedText(w, text) = (Quoted(w) ++ <<Colon>>) ++ text
    BY DEF KeyedText, ++
  <1>2. Colon \in Symbols /\ <<Colon>> \in Words /\ Quote \in Symbols
    BY Marks
  <1>3. Quoted(w) \in Words
    BY QuotedIs
  <1>4. Quoted(w) ++ <<Colon>> \in Words
    BY <1>2, <1>3, Joins
  <1>5. KeyedText(w, text) \in Words
    BY <1>1, <1>4, Joins
  <1>6. ASSUME NEW x \in Words
        PROVE  /\ text ++ x \in Words
               /\ <<Colon>> ++ (text ++ x) \in Words
               /\ KeyedText(w, text) ++ x =
                     <<Quote>> ++ (w ++ (<<Quote>> ++ (<<Colon>> ++ (text ++ x))))
    <2>. DEFINE z == text ++ x
    <2>1. z \in Words
      BY Joins
    <2>2. KeyedText(w, text) ++ x = (Quoted(w) ++ <<Colon>>) ++ z
      BY <1>1, <1>4, Regroups
    <2>. HIDE DEF z
    <2>3. (Quoted(w) ++ <<Colon>>) ++ z = Quoted(w) ++ (<<Colon>> ++ z)
      BY <1>2, <1>3, <2>1, Regroups
    <2>4. <<Colon>> ++ z \in Words
      BY <1>2, <2>1, Joins
    <2>5. Quoted(w) ++ (<<Colon>> ++ z) = <<Quote>> ++ (w ++ (<<Quote>> ++ (<<Colon>> ++ z)))
      BY <2>4, QuotedIs
    <2>. QED BY <2>1, <2>2, <2>3, <2>4, <2>5 DEF z
  <1>7. Opens(KeyedText(w, text))
    <2>. DEFINE z == w ++ (<<Quote>> ++ (<<Colon>> ++ text))
    <2>1. <<Colon>> ++ text \in Words
      BY <1>2, Joins
    <2>2. <<Quote>> ++ (<<Colon>> ++ text) \in Words
      BY <2>1, <1>2, OneSymbol, Joins
    <2>3. z \in Words
      BY <2>2, Joins
    <2>4. KeyedText(w, text) = <<Quote>> ++ z
      <3>1. <<>> \in Words /\ KeyedText(w, text) ++ <<>> = KeyedText(w, text) /\ text ++ <<>> = text
        BY <1>5, NothingFollows, NothingInFront
      <3>. QED BY <1>6, <3>1
    <2>5. Quote \notin {RightBrace, RightBracket, Comma}
      BY Marks
    <2>. HIDE DEF z
    <2>6. <<Quote>> ++ z # <<>> /\ (<<Quote>> ++ z)[1] = Quote
      BY <1>2, <2>3, Heads
    <2>. QED BY <2>4, <2>5, <2>6 DEF Opens
  <1>. QED BY <1>5, <1>6, <1>7

\* The texts t of the values in S can be told apart, whatever comes after them.
Readable(S, t) ==
    /\ \A v \in S : t[v] \in Words /\ Opens(t[v])
    /\ \A v, w \in S : \A x, y \in Follow : t[v] ++ x = t[w] ++ y => v = w /\ x = y

\* The text of v from the texts t of the values below it.
Text(v, t) == TextFrom(v, TRUE, t)

ItemTexts(v, t) == [i \in DOMAIN v.items |-> t[v.items[i]]]
MemberTexts(v, t) ==
    [i \in DOMAIN v.members |-> KeyedText(Escaped(v.members[i][1]), t[v.members[i][2]])]

\* The text of a value of each kind, from the texts of what is below it.
LEMMA TextFromIs ==
    ASSUME NEW v, NEW t
    PROVE  /\ v.kind = "object" => Text(v, t) = (<<LeftBrace>> ++ Joined(MemberTexts(v, t))) ++ <<RightBrace>>
           /\ v.kind = "array" => Text(v, t) = (<<LeftBracket>> ++ Joined(ItemTexts(v, t))) ++ <<RightBracket>>
           /\ v.kind = "string" => Text(v, t) = Quoted(Escaped(v.text))
           /\ v.kind = "scalar" => Text(v, t) = v.text
  <1>1. v.kind = "object" => Text(v, t) = (<<LeftBrace>> ++ Joined(MemberTexts(v, t))) ++ <<RightBrace>>
    BY Zenon DEF Text, TextFrom, MemberTexts, KeyedText, ++
  <1>2. v.kind = "array" => Text(v, t) = (<<LeftBracket>> ++ Joined(ItemTexts(v, t))) ++ <<RightBracket>>
    BY Zenon DEF Text, TextFrom, ItemTexts, ++
  <1>3. v.kind = "string" => Text(v, t) = Quoted(Escaped(v.text))
    BY Zenon DEF Text, TextFrom
  <1>4. v.kind = "scalar" => Text(v, t) = v.text
    BY Zenon DEF Text, TextFrom
  <1>. QED BY <1>1, <1>2, <1>3, <1>4

\* The texts of items and members are lists that open.
LEMMA ItemTextsAre ==
    ASSUME NEW S, NEW t, Readable(S, t), NEW v, v.items \in Seq(S)
    PROVE  /\ ItemTexts(v, t) \in Seq(Words) /\ AllOpen(ItemTexts(v, t))
           /\ Len(ItemTexts(v, t)) = Len(v.items) /\ Len(v.items) \in Nat
           /\ \A i \in 1..Len(v.items) : ItemTexts(v, t)[i] = t[v.items[i]] /\ v.items[i] \in S
  <1>1. DOMAIN v.items = 1..Len(v.items) /\ Len(v.items) \in Nat /\ \A i \in 1..Len(v.items) : v.items[i] \in S
    OBVIOUS
  <1>2. \A i \in 1..Len(v.items) : t[v.items[i]] \in Words /\ Opens(t[v.items[i]])
    BY <1>1 DEF Readable
  <1>3. ItemTexts(v, t) = [i \in 1..Len(v.items) |-> t[v.items[i]]]
    BY <1>1 DEF ItemTexts
  <1>4. ItemTexts(v, t) \in Seq(Words) /\ Len(ItemTexts(v, t)) = Len(v.items)
    BY <1>1, <1>2, <1>3
  <1>. QED BY <1>1, <1>2, <1>3, <1>4 DEF AllOpen

\* The same of the members of an object.
LEMMA MemberTextsAre ==
    ASSUME NEW S, NEW t, Readable(S, t), NEW v, v.members \in MembersOver(S)
    PROVE  /\ MemberTexts(v, t) \in Seq(Words) /\ AllOpen(MemberTexts(v, t))
           /\ Len(MemberTexts(v, t)) = Len(v.members) /\ Len(v.members) \in Nat
           /\ \A i \in 1..Len(v.members) :
                 /\ MemberTexts(v, t)[i] = KeyedText(Escaped(v.members[i][1]), t[v.members[i][2]])
                 /\ v.members[i] = <<v.members[i][1], v.members[i][2]>>
                 /\ v.members[i][1] \in Words /\ v.members[i][2] \in S
  <1>1. /\ Len(v.members) \in Nat /\ DOMAIN v.members = 1..Len(v.members)
        /\ \A i \in 1..Len(v.members) : /\ v.members[i] = <<v.members[i][1], v.members[i][2]>>
                                        /\ v.members[i][1] \in Words /\ v.members[i][2] \in S
    BY MembersAre
  <1>2. ASSUME NEW i \in 1..Len(v.members)
        PROVE  /\ KeyedText(Escaped(v.members[i][1]), t[v.members[i][2]]) \in Words
               /\ Opens(KeyedText(Escaped(v.members[i][1]), t[v.members[i][2]]))
    <2>1. v.members[i][1] \in Words /\ t[v.members[i][2]] \in Words
      BY <1>1 DEF Readable
    <2>2. Escaped(v.members[i][1]) \in Words
      BY <2>1, EscapedApart
    <2>. QED BY <2>1, <2>2, KeyedTextIs
  <1>3. MemberTexts(v, t) =
            [i \in 1..Len(v.members) |-> KeyedText(Escaped(v.members[i][1]), t[v.members[i][2]])]
    BY <1>1 DEF MemberTexts
  <1>. DEFINE m == MemberTexts(v, t)
              n == Len(v.members)
              K(i) == KeyedText(Escaped(v.members[i][1]), t[v.members[i][2]])
  <1>4. n \in Nat /\ m = [i \in 1..n |-> K(i)] /\ \A i \in 1..n : K(i) \in Words /\ Opens(K(i))
    BY <1>1, <1>2, <1>3
  <1>5. \A i \in 1..n : m[i] = K(i)
    BY <1>3
  <1>. HIDE DEF m, n, K
  <1>6. m \in Seq(Words) /\ Len(m) = n
    BY ONLY <1>4
  <1>7. AllOpen(m)
    BY ONLY <1>4, <1>5, <1>6 DEF AllOpen
  <1>. QED BY Zenon, <1>1, <1>5, <1>6, <1>7 DEF m, n, K

\* Two members with the same text have the same key and the same value.
SameMember(S, t, k, v, x, l, w, y) ==
    /\ Readable(S, t) /\ k \in Words /\ l \in Words /\ v \in S /\ w \in S /\ x \in Follow /\ y \in Follow
    /\ KeyedText(Escaped(k), t[v]) ++ x = KeyedText(Escaped(l), t[w]) ++ y

\* Quotes cannot occur in an escaped key, so the key ends where it seems to end.
LEMMA KeyedApart ==
    ASSUME NEW S, NEW t, NEW k, NEW v, NEW x, NEW l, NEW w, NEW y, SameMember(S, t, k, v, x, l, w, y)
    PROVE  k = l /\ v = w /\ x = y
  <1>. USE DEF SameMember
  <1>. DEFINE a == t[v] ++ x
              b == t[w] ++ y
  <1>1. /\ Escaped(k) \in Words /\ Escaped(l) \in Words /\ t[v] \in Words /\ t[w] \in Words
        /\ x \in Words /\ y \in Words
    BY EscapedApart DEF Readable, Follow
  <1>2. /\ a \in Words /\ <<Colon>> ++ a \in Words
        /\ KeyedText(Escaped(k), t[v]) ++ x = <<Quote>> ++ (Escaped(k) ++ (<<Quote>> ++ (<<Colon>> ++ a)))
    BY ONLY <1>1, KeyedTextIs
  <1>3. /\ b \in Words /\ <<Colon>> ++ b \in Words
        /\ KeyedText(Escaped(l), t[w]) ++ y = <<Quote>> ++ (Escaped(l) ++ (<<Quote>> ++ (<<Colon>> ++ b)))
    BY ONLY <1>1, KeyedTextIs
  <1>4. k = l /\ a = b
    <2>. HIDE DEF a, b
    <2>. DEFINE ca == <<Colon>> ++ a
                cb == <<Colon>> ++ b
    <2>1. Quote \in Punctuation /\ Colon \in Punctuation /\ <<Quote>> \in Words /\ <<Colon>> \in Words
      BY Marks
    <2>2. <<Quote>> ++ (Escaped(k) ++ (<<Quote>> ++ ca)) = <<Quote>> ++ (Escaped(l) ++ (<<Quote>> ++ cb))
      BY <1>2, <1>3
    <2>3. ca \in Words /\ cb \in Words
      BY <1>2, <1>3
    <2>. HIDE DEF ca, cb
    <2>4. <<Quote>> ++ ca \in Words /\ <<Quote>> ++ cb \in Words
      BY <2>1, <2>3, Joins
    <2>5. Escaped(k) ++ (<<Quote>> ++ ca) \in Words /\ Escaped(l) ++ (<<Quote>> ++ cb) \in Words
      BY <1>1, <2>4, Joins
    <2>6. Escaped(k) ++ (<<Quote>> ++ ca) = Escaped(l) ++ (<<Quote>> ++ cb)
      BY <2>1, <2>2, <2>5, SameFront
    <2>7. k = l /\ ca = cb
      BY <2>3, <2>6, EscapedApart
    <2>8. a = b
      BY <2>1, <2>7, <1>2, <1>3, SameFront DEF ca, cb
    <2>. QED BY <2>7, <2>8
  <1>. QED BY <1>4 DEF Readable

\* The symbol c and the text x.
After(c, x) == <<c>> ++ x

\* f is w between the marks a and c, whatever follows.
Wraps(f, a, w, c) == \A x \in Words : f ++ x = <<a>> ++ (w ++ (<<c>> ++ x))

\* f followed by x and g followed by y are the same text, and f and g are
\* wrapped in the same marks.
SameWrapped(f, w, x, g, u, y, a, c) ==
    /\ a \in Punctuation /\ c \in Punctuation
    /\ w \in Words /\ u \in Words /\ x \in Words /\ y \in Words
    /\ Wraps(f, a, w, c) /\ Wraps(g, a, u, c) /\ f ++ x = g ++ y

\* What is between the marks is the same then.
LEMMA Unwraps ==
    ASSUME NEW f, NEW w, NEW x, NEW g, NEW u, NEW y, NEW a, NEW c, SameWrapped(f, w, x, g, u, y, a, c)
    PROVE  w ++ After(c, x) = u ++ After(c, y)
  <1>. DEFINE xx == <<c>> ++ x
              yy == <<c>> ++ y
  <1>1. <<a>> ++ (w ++ xx) = <<a>> ++ (u ++ yy)
    BY DEF SameWrapped, Wraps
  <1>2. w \in Words /\ u \in Words /\ a \in Symbols /\ <<a>> \in Words /\ xx \in Words /\ yy \in Words
    BY Marks, Joins DEF SameWrapped
  <1>. HIDE DEF xx, yy
  <1>3. w ++ xx \in Words /\ u ++ yy \in Words
    BY <1>2, Joins
  <1>4. w ++ xx = u ++ yy
    BY <1>1, <1>2, <1>3, SameFront
  <1>. QED BY <1>4 DEF xx, yy, After

\* The text of an object is the list of its members between braces,
LEMMA ObjectText ==
    ASSUME NEW S, NEW t, Readable(S, t), NEW v \in Over(S), v.kind = "object"
    PROVE  /\ Text(v, t) \in Words /\ Text(v, t) # <<>>
           /\ Text(v, t)[1] = LeftBrace
           /\ v.members \in MembersOver(S) /\ v = Obj(v.members)
           /\ Joined(MemberTexts(v, t)) \in Words
           /\ Wraps(Text(v, t), LeftBrace, Joined(MemberTexts(v, t)), RightBrace)
  <1>. DEFINE j == Joined(MemberTexts(v, t))
              f == Text(v, t)
  <1>1. v.members \in MembersOver(S) /\ v = Obj(v.members)
    BY Shapes
  <1>2. j \in Words
    BY <1>1, MemberTextsAre, PiecesAre
  <1>3. f = (<<LeftBrace>> ++ j) ++ <<RightBrace>>
    BY TextFromIs
  <1>4. LeftBrace \in Punctuation /\ RightBrace \in Punctuation /\ LeftBrace \in Symbols
    BY Marks
  <1>. HIDE DEF j, f
  <1>. DEFINE g == (<<LeftBrace>> ++ j) ++ <<RightBrace>>
  <1>5. /\ g \in Words /\ g = <<LeftBrace>> ++ (j ++ <<RightBrace>>) /\ j ++ <<RightBrace>> \in Words
        /\ Wraps(g, LeftBrace, j, RightBrace)
    <2>1. /\ g \in Words /\ g = <<LeftBrace>> ++ (j ++ <<RightBrace>>) /\ j ++ <<RightBrace>> \in Words
          /\ \A x \in Words : g ++ x = <<LeftBrace>> ++ (j ++ (<<RightBrace>> ++ x))
      BY ONLY Zenon, <1>2, <1>4, Between
    <2>. HIDE DEF g
    <2>. QED BY ONLY Zenon, <2>1 DEF Wraps
  <1>6. g # <<>> /\ g[1] = LeftBrace
    BY <1>4, <1>5, Heads
  <1>. HIDE DEF g
  <1>7. f = g
    BY <1>3 DEF g
  <1>. QED BY <1>1, <1>2, <1>5, <1>6, <1>7 DEF f, j

\* that of an array the list of its items between brackets,
LEMMA ArrayText ==
    ASSUME NEW S, NEW t, Readable(S, t), NEW v \in Over(S), v.kind = "array"
    PROVE  /\ Text(v, t) \in Words /\ Text(v, t) # <<>>
           /\ Text(v, t)[1] = LeftBracket
           /\ v.items \in Seq(S) /\ v = Arr(v.items)
           /\ Joined(ItemTexts(v, t)) \in Words
           /\ Wraps(Text(v, t), LeftBracket, Joined(ItemTexts(v, t)), RightBracket)
  <1>. DEFINE j == Joined(ItemTexts(v, t))
              f == Text(v, t)
  <1>1. v.items \in Seq(S) /\ v = Arr(v.items)
    BY Shapes
  <1>2. j \in Words
    BY <1>1, ItemTextsAre, PiecesAre
  <1>3. f = (<<LeftBracket>> ++ j) ++ <<RightBracket>>
    BY TextFromIs
  <1>4. LeftBracket \in Punctuation /\ RightBracket \in Punctuation /\ LeftBracket \in Symbols
    BY Marks
  <1>. HIDE DEF j, f
  <1>. DEFINE g == (<<LeftBracket>> ++ j) ++ <<RightBracket>>
  <1>5. /\ g \in Words /\ g = <<LeftBracket>> ++ (j ++ <<RightBracket>>) /\ j ++ <<RightBracket>> \in Words
        /\ Wraps(g, LeftBracket, j, RightBracket)
    <2>1. /\ g \in Words /\ g = <<LeftBracket>> ++ (j ++ <<RightBracket>>) /\ j ++ <<RightBracket>> \in Words
          /\ \A x \in Words : g ++ x = <<LeftBracket>> ++ (j ++ (<<RightBracket>> ++ x))
      BY ONLY Zenon, <1>2, <1>4, Between
    <2>. HIDE DEF g
    <2>. QED BY ONLY Zenon, <2>1 DEF Wraps
  <1>6. g # <<>> /\ g[1] = LeftBracket
    BY <1>4, <1>5, Heads
  <1>. HIDE DEF g
  <1>7. f = g
    BY <1>3 DEF g
  <1>. QED BY <1>1, <1>2, <1>5, <1>6, <1>7 DEF f, j

\* that of a string its escaped text between quotes,
LEMMA StringText ==
    ASSUME NEW S, NEW t, NEW v \in Over(S), v.kind = "string"
    PROVE  /\ Text(v, t) \in Words /\ Text(v, t) # <<>>
           /\ Text(v, t)[1] = Quote
           /\ v.text \in Words /\ v = [kind |-> "string", text |-> v.text] /\ Escaped(v.text) \in Words
           /\ Wraps(Text(v, t), Quote, Escaped(v.text), Quote)
  <1>1. v.text \in Words /\ v = [kind |-> "string", text |-> v.text]
    BY Shapes
  <1>. DEFINE e == Escaped(v.text)
              f == Text(v, t)
  <1>2. e \in Words
    BY <1>1, EscapedApart
  <1>3. f = Quoted(e)
    BY TextFromIs
  <1>. HIDE DEF e, f
  <1>4. /\ Quoted(e) \in Words /\ Quoted(e) = <<Quote>> ++ (e ++ <<Quote>>) /\ e ++ <<Quote>> \in Words
        /\ Wraps(Quoted(e), Quote, e, Quote)
    BY <1>2, QuotedIs DEF Wraps
  <1>5. Quoted(e) # <<>> /\ Quoted(e)[1] = Quote
    BY <1>4, QuoteIsSymbol, Heads
  <1>. QED BY <1>1, <1>2, <1>3, <1>4, <1>5 DEF e, f

\* and that of a scalar has no punctuation mark in it.
LEMMA ScalarText ==
    ASSUME NEW S, NEW t, NEW v \in Over(S), v.kind = "scalar"
    PROVE  /\ Text(v, t) \in Words /\ Text(v, t) # <<>>
           /\ Text(v, t)[1] \notin Punctuation
           /\ v = [kind |-> "scalar", text |-> v.text] /\ Text(v, t) = v.text
           /\ v.text \in Seq(Symbols \ Punctuation)
  <1>1. /\ v.text \in Seq(Symbols \ Punctuation) /\ v.text # <<>>
        /\ v = [kind |-> "scalar", text |-> v.text]
    BY Shapes
  <1>2. Text(v, t) = v.text
    BY TextFromIs
  <1>3. v.text \in Words /\ v.text[1] \notin Punctuation
    <2>1. Len(v.text) # 0 /\ Len(v.text) \in Nat
      BY <1>1
    <2>2. 1 \in 1..Len(v.text)
      BY <2>1
    <2>. QED BY <1>1, <2>2 DEF Words
  <1>. QED BY <1>1, <1>2, <1>3

\* Two values whose texts, with something after them, are one.
Twins(S, t, v, w, x, y) ==
    /\ Readable(S, t) /\ v \in Over(S) /\ w \in Over(S) /\ x \in Words /\ y \in Words
    /\ Text(v, t) ++ x = Text(w, t) ++ y

\* Such a text is a word, and begins with neither a comma nor a closing mark.
LEMMA TextOpens ==
    ASSUME NEW S, NEW t, Readable(S, t), NEW v \in Over(S)
    PROVE  Text(v, t) \in Words /\ Opens(Text(v, t))
  <1>1. v.kind \in {"object", "array", "string", "scalar"}
    BY Shapes
  <1>2. {RightBrace, RightBracket, Comma} \subseteq Punctuation
        /\ {LeftBrace, LeftBracket, Quote} \cap {RightBrace, RightBracket, Comma} = {}
    BY Marks
  <1>3. /\ Text(v, t) \in Words /\ Text(v, t) # <<>>
        /\ \/ Text(v, t)[1] \in {LeftBrace, LeftBracket, Quote}
           \/ Text(v, t)[1] \notin Punctuation
    <2>1. CASE v.kind = "object"
      BY <2>1, ObjectText
    <2>2. CASE v.kind = "array"
      BY <2>2, ArrayText
    <2>3. CASE v.kind = "string"
      BY <2>3, StringText
    <2>4. CASE v.kind = "scalar"
      BY <2>4, ScalarText
    <2>. QED BY <1>1, <2>1, <2>2, <2>3, <2>4
  <1>. DEFINE f == Text(v, t)
  <1>4. f \in Words /\ f # <<>> /\ (f[1] \in {LeftBrace, LeftBracket, Quote} \/ f[1] \notin Punctuation)
    BY <1>3
  <1>. HIDE DEF f
  <1>5. Opens(f)
    BY <1>2, <1>4 DEF Opens
  <1>. QED BY <1>4, <1>5 DEF f

\* The first symbol of a text tells the kind of its value.
LEMMA KindRead ==
    ASSUME NEW S, NEW t, NEW v, NEW w, NEW x, NEW y, Twins(S, t, v, w, x, y)
    PROVE  v.kind = w.kind /\ v.kind \in {"object", "array", "string", "scalar"}
  <1>0. v \in Over(S) /\ w \in Over(S) /\ x \in Words /\ y \in Words
    BY DEF Twins
  <1>. DEFINE f(u) == Text(u, t)
  <1>1. ASSUME NEW u \in Over(S)
        PROVE  /\ f(u) \in Words /\ f(u) # <<>>
               /\ u.kind \in {"object", "array", "string", "scalar"}
               /\ u.kind = "object" => f(u)[1] = LeftBrace
               /\ u.kind = "array" => f(u)[1] = LeftBracket
               /\ u.kind = "string" => f(u)[1] = Quote
               /\ u.kind = "scalar" => f(u)[1] \notin Punctuation
    <2>1. Readable(S, t) /\ u.kind \in {"object", "array", "string", "scalar"}
      BY Shapes DEF Twins
    <2>2. f(u) \in Words
      BY <2>1, TextOpens
    <2>3. u.kind = "object" => f(u) # <<>> /\ f(u)[1] = LeftBrace
      BY <2>1, ObjectText
    <2>4. u.kind = "array" => f(u) # <<>> /\ f(u)[1] = LeftBracket
      BY <2>1, ArrayText
    <2>5. u.kind = "string" => f(u) # <<>> /\ f(u)[1] = Quote
      BY <2>1, StringText
    <2>6. u.kind = "scalar" => f(u) # <<>> /\ f(u)[1] \notin Punctuation
      BY <2>1, ScalarText
    <2>. HIDE DEF f
    <2>. QED BY <2>1, <2>2, <2>3, <2>4, <2>5, <2>6
  <1>. HIDE DEF f
  <1>2. f(v)[1] = f(w)[1]
    <2>1. f(v) ++ x = f(w) ++ y
      BY DEF f, Twins
    <2>. QED BY <1>0, <1>1, <2>1, FirstAhead
  <1>3. /\ {LeftBrace, LeftBracket, Quote} \subseteq Punctuation
        /\ LeftBrace # LeftBracket /\ LeftBrace # Quote /\ LeftBracket # Quote
    BY Marks
  <1>. QED BY <1>0, <1>1, <1>2, <1>3

\* Two such objects are one, with the same behind them; so are
LEMMA ObjectsApart ==
    ASSUME NEW S, NEW t, NEW v, NEW w, NEW x, NEW y, Twins(S, t, v, w, x, y),
           v.kind = "object", w.kind = "object"
    PROVE  v = w /\ x = y
  <1>. DEFINE p == MemberTexts(v, t)
              q == MemberTexts(w, t)
              a == v.members
              b == w.members
  <1>0. /\ Readable(S, t) /\ v \in Over(S) /\ w \in Over(S) /\ x \in Words /\ y \in Words
        /\ Text(v, t) ++ x = Text(w, t) ++ y
    BY DEF Twins
  <1>1. x \in Words /\ y \in Words
    BY <1>0
  <1>2. a \in MembersOver(S) /\ v = Obj(a) /\ Joined(p) \in Words /\ Wraps(Text(v, t), LeftBrace, Joined(p), RightBrace)
    BY <1>0, ObjectText
  <1>3. b \in MembersOver(S) /\ w = Obj(b) /\ Joined(q) \in Words /\ Wraps(Text(w, t), LeftBrace, Joined(q), RightBrace)
    BY <1>0, ObjectText
  <1>4. /\ p \in Seq(Words) /\ AllOpen(p) /\ Len(p) = Len(a) /\ Len(a) \in Nat
        /\ \A i \in 1..Len(a) : /\ p[i] = KeyedText(Escaped(a[i][1]), t[a[i][2]])
                                /\ a[i] = <<a[i][1], a[i][2]>> /\ a[i][1] \in Words /\ a[i][2] \in S
    BY <1>0, <1>2, MemberTextsAre
  <1>5. /\ q \in Seq(Words) /\ AllOpen(q) /\ Len(q) = Len(b) /\ Len(b) \in Nat
        /\ \A i \in 1..Len(b) : /\ q[i] = KeyedText(Escaped(b[i][1]), t[b[i][2]])
                                /\ b[i] = <<b[i][1], b[i][2]>> /\ b[i][1] \in Words /\ b[i][2] \in S
    BY <1>0, <1>3, MemberTextsAre
  <1>6. LeftBrace \in Punctuation /\ RightBrace \in Punctuation
    BY Marks
  <1>. HIDE DEF p, q, a, b
  <1>7. Joined(p) ++ (<<RightBrace>> ++ x) = Joined(q) ++ (<<RightBrace>> ++ y)
    <2>1. SameWrapped(Text(v, t), Joined(p), x, Text(w, t), Joined(q), y, LeftBrace, RightBrace)
      BY <1>0, <1>1, <1>2, <1>3, <1>6 DEF SameWrapped
    <2>2. Joined(p) ++ After(RightBrace, x) = Joined(q) ++ After(RightBrace, y)
      BY ONLY <2>1, Unwraps
    <2>. QED BY <2>2 DEF After
  <1>8. ASSUME NEW k \in (1..Len(p)) \cap (1..Len(q)), NEW r \in Follow, NEW s \in Follow,
               p[k] ++ r = q[k] ++ s
        PROVE  a[k] = b[k] /\ p[k] = q[k] /\ r = s
    <2>1. /\ p[k] = KeyedText(Escaped(a[k][1]), t[a[k][2]])
          /\ a[k] = <<a[k][1], a[k][2]>> /\ a[k][1] \in Words /\ a[k][2] \in S
      BY <1>4
    <2>2. /\ q[k] = KeyedText(Escaped(b[k][1]), t[b[k][2]])
          /\ b[k] = <<b[k][1], b[k][2]>> /\ b[k][1] \in Words /\ b[k][2] \in S
      BY <1>5
    <2>3. a[k][1] = b[k][1] /\ a[k][2] = b[k][2] /\ r = s
      <3>1. SameMember(S, t, a[k][1], a[k][2], r, b[k][1], b[k][2], s)
        BY <1>0, <1>8, <2>1, <2>2 DEF SameMember
      <3>. QED BY ONLY <3>1, KeyedApart
    <2>. QED BY <2>1, <2>2, <2>3
  <1>9. p = q /\ x = y
    <2>1. Distinct(p, q, Follow)
      BY <1>8 DEF Distinct
    <2>. QED BY ONLY <1>1, <1>4, <1>5, <1>7, <2>1, JoinedApart
  <1>10. a = b
    <2>1. ASSUME NEW k \in 1..Len(a) PROVE a[k] = b[k]
      <3>1. k \in (1..Len(p)) \cap (1..Len(q)) /\ p[k] ++ <<>> = q[k] ++ <<>>
        BY <1>4, <1>5, <1>9
      <3>. QED BY <1>8, <3>1, NothingFollows
    <2>2. a \in Seq(DocumentKeys \X S) /\ b \in Seq(DocumentKeys \X S) /\ Len(a) = Len(b)
      BY <1>2, <1>3, <1>4, <1>5, <1>9, MembersAre
    <2>. QED BY ONLY <2>1, <2>2, SeqEqual
  <1>. QED BY <1>2, <1>3, <1>9, <1>10

\* two arrays,
LEMMA ArraysApart ==
    ASSUME NEW S, NEW t, NEW v, NEW w, NEW x, NEW y, Twins(S, t, v, w, x, y),
           v.kind = "array", w.kind = "array"
    PROVE  v = w /\ x = y
  <1>. DEFINE p == ItemTexts(v, t)
              q == ItemTexts(w, t)
              a == v.items
              b == w.items
  <1>0. /\ Readable(S, t) /\ v \in Over(S) /\ w \in Over(S) /\ x \in Words /\ y \in Words
        /\ Text(v, t) ++ x = Text(w, t) ++ y
    BY DEF Twins
  <1>1. x \in Words /\ y \in Words
    BY <1>0
  <1>2. a \in Seq(S) /\ v = Arr(a) /\ Joined(p) \in Words /\ Wraps(Text(v, t), LeftBracket, Joined(p), RightBracket)
    BY <1>0, ArrayText
  <1>3. b \in Seq(S) /\ w = Arr(b) /\ Joined(q) \in Words /\ Wraps(Text(w, t), LeftBracket, Joined(q), RightBracket)
    BY <1>0, ArrayText
  <1>4. /\ p \in Seq(Words) /\ AllOpen(p) /\ Len(p) = Len(a) /\ Len(a) \in Nat
        /\ \A i \in 1..Len(a) : p[i] = t[a[i]] /\ a[i] \in S
    BY <1>0, <1>2, ItemTextsAre
  <1>5. /\ q \in Seq(Words) /\ AllOpen(q) /\ Len(q) = Len(b) /\ Len(b) \in Nat
        /\ \A i \in 1..Len(b) : q[i] = t[b[i]] /\ b[i] \in S
    BY <1>0, <1>3, ItemTextsAre
  <1>6. LeftBracket \in Punctuation /\ RightBracket \in Punctuation
    BY Marks
  <1>. HIDE DEF p, q, a, b
  <1>7. Joined(p) ++ (<<RightBracket>> ++ x) = Joined(q) ++ (<<RightBracket>> ++ y)
    <2>1. SameWrapped(Text(v, t), Joined(p), x, Text(w, t), Joined(q), y, LeftBracket, RightBracket)
      BY <1>0, <1>1, <1>2, <1>3, <1>6 DEF SameWrapped
    <2>2. Joined(p) ++ After(RightBracket, x) = Joined(q) ++ After(RightBracket, y)
      BY ONLY <2>1, Unwraps
    <2>. QED BY <2>2 DEF After
  <1>8. ASSUME NEW k \in (1..Len(p)) \cap (1..Len(q)), NEW r \in Follow, NEW s \in Follow,
               p[k] ++ r = q[k] ++ s
        PROVE  a[k] = b[k] /\ p[k] = q[k] /\ r = s
    <2>1. p[k] = t[a[k]] /\ a[k] \in S /\ q[k] = t[b[k]] /\ b[k] \in S
      BY <1>4, <1>5
    <2>2. a[k] = b[k] /\ r = s
      BY <1>0, <1>8, <2>1 DEF Readable
    <2>. QED BY <2>1, <2>2
  <1>9. p = q /\ x = y
    <2>1. Distinct(p, q, Follow)
      BY <1>8 DEF Distinct
    <2>. QED BY ONLY <1>1, <1>4, <1>5, <1>7, <2>1, JoinedApart
  <1>10. a = b
    <2>1. ASSUME NEW k \in 1..Len(a) PROVE a[k] = b[k]
      <3>1. k \in (1..Len(p)) \cap (1..Len(q)) /\ p[k] ++ <<>> = q[k] ++ <<>>
        BY <1>4, <1>5, <1>9
      <3>. QED BY <1>8, <3>1, NothingFollows
    <2>2. a \in Seq(S) /\ b \in Seq(S) /\ Len(a) = Len(b)
      BY <1>2, <1>3, <1>4, <1>5, <1>9
    <2>. QED BY ONLY <2>1, <2>2, SeqEqual
  <1>. QED BY <1>2, <1>3, <1>9, <1>10

\* two strings,
LEMMA StringsApart ==
    ASSUME NEW S, NEW t, NEW v, NEW w, NEW x, NEW y, Twins(S, t, v, w, x, y),
           v.kind = "string", w.kind = "string"
    PROVE  v = w /\ x = y
  <1>0. /\ Readable(S, t) /\ v \in Over(S) /\ w \in Over(S) /\ x \in Words /\ y \in Words
        /\ Text(v, t) ++ x = Text(w, t) ++ y
    BY DEF Twins
  <1>1. x \in Words /\ y \in Words /\ Quote \in Punctuation
    BY <1>0, Marks
  <1>2. /\ v.text \in Words /\ v = [kind |-> "string", text |-> v.text] /\ Escaped(v.text) \in Words
        /\ Wraps(Text(v, t), Quote, Escaped(v.text), Quote)
    BY <1>0, StringText
  <1>3. /\ w.text \in Words /\ w = [kind |-> "string", text |-> w.text] /\ Escaped(w.text) \in Words
        /\ Wraps(Text(w, t), Quote, Escaped(w.text), Quote)
    BY <1>0, StringText
  <1>4. Escaped(v.text) ++ (<<Quote>> ++ x) = Escaped(w.text) ++ (<<Quote>> ++ y)
    <2>1. SameWrapped(Text(v, t), Escaped(v.text), x, Text(w, t), Escaped(w.text), y, Quote, Quote)
      BY <1>0, <1>1, <1>2, <1>3 DEF SameWrapped
    <2>2. Escaped(v.text) ++ After(Quote, x) = Escaped(w.text) ++ After(Quote, y)
      BY ONLY <2>1, Unwraps
    <2>. QED BY <2>2 DEF After
  <1>5. v.text = w.text /\ x = y
    BY <1>1, <1>2, <1>3, <1>4, EscapedApart
  <1>. QED BY <1>2, <1>3, <1>5

\* and two scalars, if what is behind them can come after a value.
LEMMA ScalarsApart ==
    ASSUME NEW S, NEW t, NEW v, NEW w, NEW x, NEW y, Twins(S, t, v, w, x, y),
           v.kind = "scalar", w.kind = "scalar",
           x \in Follow, y \in Follow
    PROVE  v = w /\ x = y
  <1>0. /\ Readable(S, t) /\ v \in Over(S) /\ w \in Over(S) /\ x \in Words /\ y \in Words
        /\ Text(v, t) ++ x = Text(w, t) ++ y
    BY DEF Twins
  <1>1. /\ x \in Words /\ (x = <<>> \/ x[1] \in Punctuation)
        /\ y \in Words /\ (y = <<>> \/ y[1] \in Punctuation)
    BY <1>0 DEF Follow
  <1>2. /\ v = [kind |-> "scalar", text |-> v.text] /\ Text(v, t) = v.text
        /\ v.text \in Seq(Symbols \ Punctuation)
        /\ w = [kind |-> "scalar", text |-> w.text] /\ Text(w, t) = w.text
        /\ w.text \in Seq(Symbols \ Punctuation)
    BY <1>0, ScalarText
  <1>3. v.text ++ x = w.text ++ y
    BY <1>0, <1>2
  <1>4. v.text = w.text /\ x = y
    <2>1. Punctuation \in SUBSET Symbols
      BY Marks
    <2>2. SplitAlike(Punctuation, v.text, x, w.text, y)
      BY <1>1, <1>2, <1>3, <2>1 DEF SplitAlike
    <2>. QED BY ONLY <2>2, SplitsAt
  <1>. QED BY <1>2, <1>4

\* Readable texts of the values of one level make those of the next.
LEMMA ReadableOver ==
    ASSUME NEW S, NEW t, Readable(S, t)
    PROVE  Readable(Over(S), [v \in Over(S) |-> Text(v, t)])
  <1>. DEFINE f(v) == Text(v, t)
              g == [v \in Over(S) |-> f(v)]
  <1>2. ASSUME NEW v \in Over(S) PROVE f(v) \in Words /\ Opens(f(v))
    BY TextOpens
  <1>3. ASSUME NEW v \in Over(S), NEW w \in Over(S), NEW x \in Follow, NEW y \in Follow,
               f(v) ++ x = f(w) ++ y
        PROVE  v = w /\ x = y
    <2>0. Twins(S, t, v, w, x, y)
      BY <1>3 DEF Twins, Follow
    <2>. HIDE DEF f
    <2>1. v.kind = w.kind /\ v.kind \in {"object", "array", "string", "scalar"}
      BY ONLY <2>0, KindRead
    <2>2. CASE v.kind = "object"
      BY ONLY <2>0, <2>1, <2>2, ObjectsApart
    <2>3. CASE v.kind = "array"
      BY ONLY <2>0, <2>1, <2>3, ArraysApart
    <2>4. CASE v.kind = "string"
      BY ONLY <2>0, <2>1, <2>4, StringsApart
    <2>5. CASE v.kind = "scalar"
      BY <2>0, <2>1, <2>5, ScalarsApart
    <2>. QED BY <2>1, <2>2, <2>3, <2>4, <2>5
  <1>. HIDE DEF f
  <1>4. \A v \in Over(S) : g[v] = f(v)
    OBVIOUS
  <1>. HIDE DEF g
  <1>5. Readable(Over(S), g)
    BY <1>2, <1>3, <1>4 DEF Readable
  <1>. QED BY <1>5 DEF f, g

\* The texts of all values can be told apart.
LEMMA TextsReadable ==
    ASSUME NEW n \in 0..MaxDepth
    PROVE  Readable(Values[n], TextAt[n][TRUE])
  <1>. DEFINE T == {k \in 0..MaxDepth : Readable(Values[k], TextAt[k][TRUE])}
  <1>1. MaxDepth \in Nat
    BY CanonicalFormAssumption
  <1>2. ASSUME NEW k \in 0..MaxDepth,
               Readable(Below(k), IF k = 0 THEN <<>> ELSE TextAt[k - 1][TRUE])
        PROVE  k \in T
    <2>. DEFINE t == IF k = 0 THEN <<>> ELSE TextAt[k - 1][TRUE]
                f == [v \in Over(Below(k)) |-> Text(v, t)]
    <2>1. Values[k] = Over(Below(k)) /\ TextAt[k][TRUE] = [v \in Values[k] |-> TextFrom(v, TRUE, t)]
      BY ValuesDef, TextDef
    <2>2. TextAt[k][TRUE] = f
      BY <2>1 DEF Text
    <2>3. Readable(Over(Below(k)), f)
      BY <1>2, ReadableOver
    <2>. HIDE DEF f, t
    <2>. QED BY <2>1, <2>2, <2>3
  <1>3. 0 \in T
    <2>1. Readable({}, <<>>)
      BY DEF Readable
    <2>2. 0 \in 0..MaxDepth /\ Below(0) = {}
      BY <1>1 DEF Below
    <2>. QED BY <1>2, <2>1, <2>2
  <1>4. ASSUME NEW k \in 1..MaxDepth, k - 1 \in T PROVE k \in T
    <2>1. k \in 0..MaxDepth /\ k # 0 /\ Below(k) = Values[k - 1]
      BY <1>1 DEF Below
    <2>. QED BY <1>2, <1>4, <2>1
  <1>. HIDE DEF T
  <1>5. n \in T
    <2>1. 0..MaxDepth \subseteq T
      BY <1>1, <1>3, <1>4, Reaches
    <2>. QED BY <2>1
  <1>. QED BY <1>5 DEF T

\* Nor does it matter what comes after an object.
SameObjectTexts(n, v, x, w, y) ==
    /\ v \in Values[n] /\ w \in Values[n] /\ x \in Words /\ y \in Words
    /\ v.kind = "object" /\ w.kind = "object"
    /\ TextAt[n][TRUE][v] ++ x = TextAt[n][TRUE][w] ++ y

\* A closing brace ends an object, whatever is behind it.
LEMMA ObjectsReadable ==
    ASSUME NEW n \in 0..MaxDepth, NEW v, NEW x, NEW w, NEW y, SameObjectTexts(n, v, x, w, y)
    PROVE  v = w /\ x = y
  <1>. DEFINE S == Below(n)
              t == IF n = 0 THEN <<>> ELSE TextAt[n - 1][TRUE]
              f == TextAt[n][TRUE]
  <1>1. Values[n] = Over(S) /\ f = [u \in Values[n] |-> Text(u, t)]
    BY ValuesDef, TextDef DEF Text
  <1>2. Readable(S, t)
    <2>1. CASE n = 0
      BY <2>1 DEF Below, Readable
    <2>2. CASE n # 0
      <3>1. n - 1 \in 0..MaxDepth
        BY <2>2, CanonicalFormAssumption
      <3>. QED BY <2>2, <3>1, TextsReadable DEF Below
    <2>. QED BY <2>1, <2>2
  <1>3. /\ v \in Values[n] /\ w \in Values[n] /\ x \in Words /\ y \in Words
        /\ v.kind = "object" /\ w.kind = "object" /\ f[v] ++ x = f[w] ++ y
    BY DEF SameObjectTexts
  <1>. HIDE DEF S, t, f
  <1>4. Twins(S, t, v, w, x, y)
    BY <1>1, <1>2, <1>3 DEF Twins
  <1>. QED BY <1>3, <1>4, ObjectsApart
----------------------------------------------------------------------------
(***************************************************************************)
(* Sorting: two values are sorted to one exactly if they mean the same,    *)
(* and so have one canonical text exactly then.                            *)
(***************************************************************************)

\* f[i] is the list of those of the first i keys that are in keys.
IsUpTo(f, keys, n) ==
    f = [i \in 0..n |->
            IF i = 0 THEN <<>>
            ELSE IF KeyOrder[i] \in keys THEN Append(f[i - 1], KeyOrder[i]) ELSE f[i - 1]]

\* The recursive definition inside SortedKeys has a solution.
LEMMA UpToExists ==
    ASSUME NEW keys
    PROVE  \E f : IsUpTo(f, keys, Len(KeyOrder))
  <1>. DEFINE N == Len(KeyOrder)
              T == {k \in 0..N : \E f : IsUpTo(f, keys, k)}
  <1>1. N \in Nat
    BY CanonicalFormAssumption
  <1>2. 0 \in T
    <2>. DEFINE f == [i \in 0..0 |-> <<>>]
    <2>1. IsUpTo(f, keys, 0)
      BY DEF IsUpTo
    <2>. QED BY <1>1, <2>1
  <1>3. ASSUME NEW k \in 1..N, k - 1 \in T PROVE k \in T
    <2>1. PICK f : IsUpTo(f, keys, k - 1)
      BY <1>3
    <2>. DEFINE g == [i \in 0..k |->
                        IF i # k THEN f[i]
                        ELSE IF KeyOrder[k] \in keys THEN Append(f[k - 1], KeyOrder[k]) ELSE f[k - 1]]
    <2>2. ASSUME NEW i \in 0..k
          PROVE  g[i] = IF i = 0 THEN <<>>
                        ELSE IF KeyOrder[i] \in keys THEN Append(g[i - 1], KeyOrder[i]) ELSE g[i - 1]
      <3>1. CASE i = k
        <4>1. k - 1 \in 0..k /\ k - 1 # k /\ k # 0
          OBVIOUS
        <4>. QED BY <3>1, <4>1
      <3>2. CASE i # k
        <4>1. i \in 0..(k - 1) /\ (i # 0 => i - 1 \in 0..k /\ i - 1 # k)
          BY <3>2
        <4>2. f[i] = IF i = 0 THEN <<>>
                     ELSE IF KeyOrder[i] \in keys THEN Append(f[i - 1], KeyOrder[i]) ELSE f[i - 1]
          BY <2>1, <4>1 DEF IsUpTo
        <4>. QED BY <3>2, <4>1, <4>2
      <3>. QED BY <3>1, <3>2
    <2>3. g = [i \in 0..k |-> g[i]]
      OBVIOUS
    <2>. HIDE DEF g
    <2>4. IsUpTo(g, keys, k)
      BY <2>2, <2>3 DEF IsUpTo
    <2>. QED BY <2>4
  <1>. HIDE DEF T, N
  <1>4. N \in T
    BY <1>1, <1>2, <1>3, Reaches
  <1>. QED BY <1>4 DEF T, N

\* list holds those of the first i keys that are in keys, each once.
Lists(list, keys, i) ==
    /\ list \in Seq(DocumentKeys)
    /\ \A j \in 1..Len(list) : list[j] \in keys /\ \E k \in 1..i : list[j] = KeyOrder[k]
    /\ \A j, k \in 1..Len(list) : list[j] = list[k] => j = k
    /\ \A k \in 1..i : KeyOrder[k] \in keys => \E j \in 1..Len(list) : list[j] = KeyOrder[k]

\* One key more.
LEMMA ListsOneMore ==
    ASSUME NEW list, NEW keys, NEW i \in 1..Len(KeyOrder), Lists(list, keys, i - 1)
    PROVE  Lists(IF KeyOrder[i] \in keys THEN Append(list, KeyOrder[i]) ELSE list, keys, i)
  <1>0. /\ Len(KeyOrder) \in Nat
        /\ \A j \in 1..Len(KeyOrder) : KeyOrder[j] \in DocumentKeys
        /\ \A j, k \in 1..Len(KeyOrder) : KeyOrder[j] = KeyOrder[k] => j = k
    BY CanonicalFormAssumption DEF DocumentKeys, ToSet, IsInjective
  <1>1. i \in Nat /\ i \in 1..i /\ i \notin 1..(i - 1) /\ \A k \in 1..i : k = i \/ k \in 1..(i - 1)
    BY <1>0
  <1>. DEFINE key == KeyOrder[i]
  <1>2. CASE key \notin keys
    <2>1. \A k \in 1..(i - 1) : k \in 1..i
      BY <1>0
    <2>. QED BY <1>1, <1>2, <2>1 DEF Lists
  <1>3. CASE key \in keys
    <2>. DEFINE longer == Append(list, key)
                n == Len(list)
    <2>1. list \in Seq(DocumentKeys) /\ n \in Nat /\ key \in DocumentKeys
      BY <1>0 DEF Lists
    <2>2. /\ longer \in Seq(DocumentKeys) /\ Len(longer) = n + 1 /\ longer[n + 1] = key
          /\ \A j \in 1..n : longer[j] = list[j]
          /\ \A j \in 1..(n + 1) : j = n + 1 \/ j \in 1..n
          /\ \A j \in 1..n : j \in 1..(n + 1)
      BY <2>1
    <2>3. /\ \A j \in 1..n : list[j] \in keys /\ \E k \in 1..(i - 1) : list[j] = KeyOrder[k]
          /\ \A j, k \in 1..n : list[j] = list[k] => j = k
          /\ \A k \in 1..(i - 1) : KeyOrder[k] \in keys => \E j \in 1..n : list[j] = KeyOrder[k]
      BY DEF Lists
    <2>4. \A k \in 1..(i - 1) : k \in 1..i /\ k \in 1..Len(KeyOrder)
      BY <1>0
    <2>5. \A j \in 1..n : list[j] # key
      BY <1>0, <1>1, <2>3, <2>4
    <2>. HIDE DEF longer, n, key
    <2>6. n + 1 \in 1..(n + 1)
      BY <2>1
    <2>7. ASSUME NEW j \in 1..(n + 1)
          PROVE  longer[j] \in keys /\ \E k \in 1..i : longer[j] = KeyOrder[k]
      <3>1. CASE j = n + 1
        <4>1. longer[j] = KeyOrder[i] /\ longer[j] \in keys
          BY Zenon, <1>3, <2>2, <3>1 DEF key
        <4>. QED BY Zenon, <1>1, <4>1
      <3>2. CASE j \in 1..n
        <4>1. longer[j] = list[j] /\ list[j] \in keys /\ \E k \in 1..(i - 1) : list[j] = KeyOrder[k]
          BY Zenon, <2>2, <2>3, <3>2
        <4>. QED BY Zenon, <2>4, <4>1
      <3>. QED BY Zenon, <2>2, <3>1, <3>2
    <2>8. \A j, k \in 1..(n + 1) : longer[j] = longer[k] => j = k
      <3>1. \A j \in 1..n : longer[j] # longer[n + 1]
        BY Zenon, <2>2, <2>5
      <3>2. \A j, k \in 1..n : longer[j] = longer[k] => j = k
        BY Zenon, <2>2, <2>3
      <3>. QED BY Zenon, <2>2, <3>1, <3>2
    <2>9. \A k \in 1..i : KeyOrder[k] \in keys => \E j \in 1..(n + 1) : longer[j] = KeyOrder[k]
      BY <1>1, <2>2, <2>3, <2>6 DEF key
    <2>10. Lists(longer, keys, i)
      BY <2>2, <2>7, <2>8, <2>9 DEF Lists
    <2>. QED BY <1>3, <2>10 DEF longer, key
  <1>. QED BY <1>2, <1>3

\* SortedKeys lists the keys of a document, each once.
LEMMA SortedKeysAre ==
    ASSUME NEW keys \in SUBSET DocumentKeys
    PROVE  /\ SortedKeys(keys) \in Seq(DocumentKeys) /\ Len(SortedKeys(keys)) \in Nat
           /\ \A i \in 1..Len(SortedKeys(keys)) : SortedKeys(keys)[i] \in keys
           /\ \A i, j \in 1..Len(SortedKeys(keys)) : SortedKeys(keys)[i] = SortedKeys(keys)[j] => i = j
           /\ \A k \in keys : \E i \in 1..Len(SortedKeys(keys)) : SortedKeys(keys)[i] = k
  <1>. DEFINE N == Len(KeyOrder)
              f == CHOOSE f : IsUpTo(f, keys, N)
              T == {k \in 0..N : Lists(f[k], keys, k)}
  <1>1. N \in Nat /\ \A k \in DocumentKeys : \E i \in 1..N : k = KeyOrder[i]
    BY CanonicalFormAssumption DEF DocumentKeys, ToSet
  <1>2. SortedKeys(keys) = f[N]
    BY DEF SortedKeys, IsUpTo
  <1>3. IsUpTo(f, keys, N)
    BY UpToExists
  <1>. HIDE DEF f
  <1>4. \A i \in 0..N : f[i] = IF i = 0 THEN <<>>
                        ELSE IF KeyOrder[i] \in keys THEN Append(f[i - 1], KeyOrder[i]) ELSE f[i - 1]
    BY <1>3 DEF IsUpTo
  <1>5. 0 \in T
    <2>1. 0 \in 0..N /\ f[0] = <<>>
      BY <1>1, <1>4
    <2>2. Lists(<<>>, keys, 0)
      BY DEF Lists
    <2>. QED BY <2>1, <2>2
  <1>6. ASSUME NEW k \in 1..N, k - 1 \in T PROVE k \in T
    <2>1. k \in 0..N /\ k # 0
      BY <1>1
    <2>2. Lists(f[k - 1], keys, k - 1)
      BY <1>6
    <2>3. Lists(IF KeyOrder[k] \in keys THEN Append(f[k - 1], KeyOrder[k]) ELSE f[k - 1], keys, k)
      BY <2>2, ListsOneMore
    <2>. QED BY <1>4, <2>1, <2>3
  <1>. HIDE DEF T, N
  <1>7. Lists(f[N], keys, N)
    <2>1. N \in 0..N /\ 0..N \subseteq T
      BY <1>1, <1>5, <1>6, Reaches
    <2>2. N \in T
      BY <2>1
    <2>. QED BY <2>2 DEF T
  <1>8. Lists(SortedKeys(keys), keys, N)
    BY <1>2, <1>7
  <1>. DEFINE list == SortedKeys(keys)
  <1>9. /\ list \in Seq(DocumentKeys)
        /\ \A j \in 1..Len(list) : list[j] \in keys
        /\ \A j, k \in 1..Len(list) : list[j] = list[k] => j = k
        /\ \A k \in 1..N : KeyOrder[k] \in keys => \E j \in 1..Len(list) : list[j] = KeyOrder[k]
    BY <1>8 DEF Lists
  <1>. HIDE DEF list
  <1>10. Len(list) \in Nat /\ \A k \in keys : \E j \in 1..Len(list) : list[j] = k
    BY <1>1, <1>9
  <1>. QED BY <1>9, <1>10 DEF list

\* What an object holds under each of its keys.
LEMMA MemberAtIs ==
    ASSUME NEW S, NEW v, v.members \in MembersOver(S)
    PROVE  /\ KeysOf(v) \in SUBSET DocumentKeys
           /\ \A i \in 1..Len(v.members) : /\ v.members[i][1] \in KeysOf(v)
                                           /\ MemberAt(v, v.members[i][1]) = v.members[i][2]
           /\ \A k \in KeysOf(v) : /\ MemberAt(v, k) \in S
                                   /\ \E i \in 1..Len(v.members) : v.members[i] = <<k, MemberAt(v, k)>>
  <1>. DEFINE ms == v.members
  <1>1. /\ Len(ms) \in Nat /\ DOMAIN ms = 1..Len(ms)
        /\ \A i \in 1..Len(ms) : ms[i] = <<ms[i][1], ms[i][2]>> /\ ms[i][1] \in DocumentKeys /\ ms[i][2] \in S
        /\ \A i, j \in 1..Len(ms) : ms[i][1] = ms[j][1] => i = j
    BY MembersAre
  <1>2. ASSUME NEW i \in 1..Len(ms)
        PROVE  MemberAt(v, ms[i][1]) = ms[i][2]
    <2>1. (CHOOSE j \in DOMAIN ms : ms[j][1] = ms[i][1]) = i
      BY <1>1
    <2>. QED BY <2>1 DEF MemberAt
  <1>3. KeysOf(v) = {ms[i][1] : i \in 1..Len(ms)}
    BY <1>1 DEF KeysOf
  <1>. HIDE DEF ms
  <1>4. \A k \in KeysOf(v) : MemberAt(v, k) \in S /\ \E i \in 1..Len(ms) : ms[i] = <<k, MemberAt(v, k)>>
    BY <1>1, <1>2, <1>3
  <1>5. KeysOf(v) \in SUBSET DocumentKeys /\ \A i \in 1..Len(ms) : ms[i][1] \in KeysOf(v)
    BY <1>1, <1>3
  <1>. QED BY <1>2, <1>4, <1>5 DEF ms

\* The members of an object, sorted.
SortedMembers(v, below) ==
    [i \in DOMAIN SortedKeys(KeysOf(v)) |->
        <<SortedKeys(KeysOf(v))[i], below[MemberAt(v, SortedKeys(KeysOf(v))[i])]>>]

MappedItems(v, below) == [i \in DOMAIN v.items |-> below[v.items[i]]]

MemberSet(v, below) == {<<m[1], below[m[2]]>> : m \in ToSet(v.members)}

MeaningMap(map) == [kind |-> "object", map |-> map]

\* Sorting a value of each kind, from the sorted values below it.
LEMMA SortedFromIs ==
    ASSUME NEW v, NEW below
    PROVE  /\ v.kind = "object" => SortedFrom(v, below) = Obj(SortedMembers(v, below))
           /\ v.kind = "array" => SortedFrom(v, below) = Arr(MappedItems(v, below))
           /\ v.kind \in {"scalar", "string"} => SortedFrom(v, below) = v
  <1>1. v.kind = "object" => SortedFrom(v, below) = Obj(SortedMembers(v, below))
    BY Zenon DEF SortedFrom, SortedMembers
  <1>2. v.kind = "array" => SortedFrom(v, below) = Arr(MappedItems(v, below))
    BY Zenon DEF SortedFrom, MappedItems
  <1>3. v.kind = "scalar" => SortedFrom(v, below) = v
    BY Zenon DEF SortedFrom
  <1>4. v.kind = "string" => SortedFrom(v, below) = v
    BY Zenon DEF SortedFrom
  <1>. QED BY <1>1, <1>2, <1>3, <1>4

\* The meaning of a value of each kind, from the meanings below it.
LEMMA MeaningFromIs ==
    ASSUME NEW v, NEW below
    PROVE  /\ v.kind = "object" => MeaningFrom(v, below) = MeaningMap(MemberSet(v, below))
           /\ v.kind = "array" => MeaningFrom(v, below) = Arr(MappedItems(v, below))
           /\ v.kind \in {"scalar", "string"} => MeaningFrom(v, below) = v
  <1>1. v.kind = "object" => MeaningFrom(v, below) = MeaningMap(MemberSet(v, below))
    BY Zenon DEF MeaningFrom, MemberSet, MeaningMap
  <1>2. v.kind = "array" => MeaningFrom(v, below) = Arr(MappedItems(v, below))
    BY Zenon DEF MeaningFrom, MappedItems
  <1>3. v.kind = "scalar" => MeaningFrom(v, below) = v
    BY Zenon DEF MeaningFrom
  <1>4. v.kind = "string" => MeaningFrom(v, below) = v
    BY Zenon DEF MeaningFrom
  <1>. QED BY <1>1, <1>2, <1>3, <1>4

\* Sorting keeps the members of an object, each under its key.
LEMMA SortedMembersAre ==
    ASSUME NEW S, NEW v, v.members \in MembersOver(S), NEW below, \A s \in S : below[s] \in S
    PROVE  /\ SortedMembers(v, below) \in MembersOver(S)
           /\ Len(SortedMembers(v, below)) = Len(SortedKeys(KeysOf(v)))
           /\ \A i \in 1..Len(SortedKeys(KeysOf(v))) :
                 /\ SortedKeys(KeysOf(v))[i] \in KeysOf(v)
                 /\ SortedMembers(v, below)[i] =
                       <<SortedKeys(KeysOf(v))[i], below[MemberAt(v, SortedKeys(KeysOf(v))[i])]>>
  <1>. DEFINE ks == SortedKeys(KeysOf(v))
              ms == SortedMembers(v, below)
  <1>1. KeysOf(v) \in SUBSET DocumentKeys /\ \A k \in KeysOf(v) : MemberAt(v, k) \in S
    BY MemberAtIs
  <1>2. /\ ks \in Seq(DocumentKeys) /\ Len(ks) \in Nat
        /\ \A i \in 1..Len(ks) : ks[i] \in KeysOf(v)
        /\ \A i, j \in 1..Len(ks) : ks[i] = ks[j] => i = j
    BY <1>1, SortedKeysAre
  <1>3. DOMAIN ks = 1..Len(ks)
    BY <1>2
  <1>4. ms = [i \in 1..Len(ks) |-> <<ks[i], below[MemberAt(v, ks[i])]>>]
    BY <1>3 DEF SortedMembers
  <1>. HIDE DEF ks, ms
  <1>5. ms \in Seq(DocumentKeys \X S) /\ Len(ms) = Len(ks) /\ DOMAIN ms = 1..Len(ks)
    BY <1>1, <1>2, <1>4
  <1>6. \A i \in 1..Len(ks) : ms[i] = <<ks[i], below[MemberAt(v, ks[i])]>> /\ ms[i][1] = ks[i]
    BY <1>4
  <1>7. ms \in MembersOver(S)
    BY <1>2, <1>5, <1>6 DEF MembersOver
  <1>. QED BY <1>2, <1>5, <1>6, <1>7 DEF ks, ms

Maps(below, S, T) == \A s \in S : below[s] \in T

\* Items are sorted in their places.
LEMMA MappedItemsAre ==
    ASSUME NEW S, NEW T, NEW v, v.items \in Seq(S), NEW below, Maps(below, S, T)
    PROVE  /\ MappedItems(v, below) \in Seq(T) /\ Len(MappedItems(v, below)) = Len(v.items)
           /\ Len(v.items) \in Nat
           /\ \A i \in 1..Len(v.items) : v.items[i] \in S /\ MappedItems(v, below)[i] = below[v.items[i]]
  <1>1. DOMAIN v.items = 1..Len(v.items) /\ Len(v.items) \in Nat /\ \A i \in 1..Len(v.items) : v.items[i] \in S
    OBVIOUS
  <1>2. MappedItems(v, below) = [i \in 1..Len(v.items) |-> below[v.items[i]]]
    BY <1>1 DEF MappedItems
  <1>. QED BY <1>1, <1>2 DEF Maps

\* Sorting a value gives a value of its kind.
LEMMA SortedIsValue ==
    ASSUME NEW S, NEW below, \A s \in S : below[s] \in S, NEW v \in Over(S)
    PROVE  SortedFrom(v, below) \in Over(S) /\ SortedFrom(v, below).kind = v.kind
  <1>1. CASE v.kind = "object"
    <2>1. v.members \in MembersOver(S)
      BY <1>1, Shapes
    <2>2. SortedMembers(v, below) \in MembersOver(S)
      BY <2>1, SortedMembersAre
    <2>3. Obj(SortedMembers(v, below)) \in Over(S) /\ Obj(SortedMembers(v, below)).kind = "object"
      BY <2>2, ShapesOver DEF Obj
    <2>. QED BY <1>1, <2>3, SortedFromIs
  <1>2. CASE v.kind = "array"
    <2>1. v.items \in Seq(S)
      BY <1>2, Shapes
    <2>2. MappedItems(v, below) \in Seq(S)
      BY <2>1, MappedItemsAre, Maps(below, S, S) DEF Maps
    <2>3. Arr(MappedItems(v, below)) \in Over(S) /\ Arr(MappedItems(v, below)).kind = "array"
      BY <2>2, ShapesOver DEF Arr
    <2>. QED BY <1>2, <2>3, SortedFromIs
  <1>3. CASE v.kind \in {"scalar", "string"}
    BY <1>3, SortedFromIs
  <1>. QED BY <1>1, <1>2, <1>3, Shapes

\* Two objects hold what is alike under the same keys.
AlikeMembers(v, w, b) ==
    KeysOf(v) = KeysOf(w) /\ \A k \in KeysOf(v) : b[MemberAt(v, k)] = b[MemberAt(w, k)]

AlikeItems(v, w, b) ==
    Len(v.items) = Len(w.items) /\ \A i \in 1..Len(v.items) : b[v.items[i]] = b[w.items[i]]

\* Two objects are one after sorting exactly if they hold what is alike under the same keys,
LEMMA SortedObjects ==
    ASSUME NEW S, NEW v, NEW w, v.members \in MembersOver(S), w.members \in MembersOver(S),
           NEW b, \A s \in S : b[s] \in S
    PROVE  SortedMembers(v, b) = SortedMembers(w, b) <=> AlikeMembers(v, w, b)
  <1>. DEFINE ks == SortedKeys(KeysOf(v))
              ls == SortedKeys(KeysOf(w))
              ms == SortedMembers(v, b)
              ns == SortedMembers(w, b)
              m(k) == b[MemberAt(v, k)]
              n(k) == b[MemberAt(w, k)]
  <1>1. /\ Len(ms) = Len(ks) /\ ms \in MembersOver(S)
        /\ \A i \in 1..Len(ks) : ks[i] \in KeysOf(v) /\ ms[i] = <<ks[i], m(ks[i])>>
    BY SortedMembersAre
  <1>2. /\ Len(ns) = Len(ls) /\ ns \in MembersOver(S)
        /\ \A i \in 1..Len(ls) : ls[i] \in KeysOf(w) /\ ns[i] = <<ls[i], n(ls[i])>>
    BY SortedMembersAre
  <1>3. KeysOf(v) \in SUBSET DocumentKeys /\ KeysOf(w) \in SUBSET DocumentKeys
    BY MemberAtIs
  <1>4. /\ \A k \in KeysOf(v) : \E i \in 1..Len(ks) : ks[i] = k
        /\ \A k \in KeysOf(w) : \E i \in 1..Len(ls) : ls[i] = k
    BY <1>3, SortedKeysAre
  <1>5. ms \in Seq(DocumentKeys \X S) /\ ns \in Seq(DocumentKeys \X S)
    BY <1>1, <1>2, MembersAre
  <1>6. KeysOf(v) = KeysOf(w) => ks = ls
    OBVIOUS
  <1>7. AlikeMembers(v, w, b) <=> KeysOf(v) = KeysOf(w) /\ \A k \in KeysOf(v) : m(k) = n(k)
    BY DEF AlikeMembers
  <1>. HIDE DEF ks, ls, ms, ns, m, n
  <1>8. ASSUME ms = ns PROVE AlikeMembers(v, w, b)
    <2>1. Len(ks) = Len(ls) /\ \A i \in 1..Len(ks) : ks[i] = ls[i] /\ m(ks[i]) = n(ks[i])
      BY <1>1, <1>2, <1>8
    <2>2. KeysOf(v) = KeysOf(w)
      <3>1. \A k \in KeysOf(v) : k \in KeysOf(w)
        BY <1>2, <1>4, <2>1
      <3>2. \A k \in KeysOf(w) : k \in KeysOf(v)
        BY <1>1, <1>4, <2>1
      <3>. QED BY <3>1, <3>2
    <2>3. \A k \in KeysOf(v) : m(k) = n(k)
      BY <1>4, <2>1
    <2>. QED BY <1>7, <2>2, <2>3
  <1>9. ASSUME AlikeMembers(v, w, b) PROVE ms = ns
    <2>1. ks = ls /\ Len(ms) = Len(ns)
      BY <1>1, <1>2, <1>6, <1>7, <1>9
    <2>2. ASSUME NEW i \in 1..Len(ms) PROVE ms[i] = ns[i]
      <3>1. i \in 1..Len(ks) /\ ks[i] \in KeysOf(v) /\ ms[i] = <<ks[i], m(ks[i])>> /\ ns[i] = <<ks[i], n(ks[i])>>
        BY <1>1, <1>2, <2>1
      <3>2. m(ks[i]) = n(ks[i])
        BY <1>7, <1>9, <3>1
      <3>. QED BY <3>1, <3>2
    <2>. QED BY ONLY <1>5, <2>1, <2>2, SeqEqual
  <1>. QED BY <1>8, <1>9 DEF ms, ns

\* and mean the same exactly then.
LEMMA MeaningObjects ==
    ASSUME NEW S, NEW v, NEW w, v.members \in MembersOver(S), w.members \in MembersOver(S), NEW b
    PROVE  MemberSet(v, b) = MemberSet(w, b) <=> AlikeMembers(v, w, b)
  <1>. DEFINE Pairs(u) == {<<k, b[MemberAt(u, k)]>> : k \in KeysOf(u)}
  <1>1. ASSUME NEW u, u.members \in MembersOver(S)
        PROVE  MemberSet(u, b) = Pairs(u)
    <2>1. /\ \A i \in 1..Len(u.members) : /\ u.members[i][1] \in KeysOf(u)
                                          /\ MemberAt(u, u.members[i][1]) = u.members[i][2]
          /\ \A k \in KeysOf(u) : \E i \in 1..Len(u.members) : u.members[i] = <<k, MemberAt(u, k)>>
      BY <1>1, MemberAtIs
    <2>2. ToSet(u.members) = {u.members[i] : i \in 1..Len(u.members)}
      BY <1>1, MembersAre DEF ToSet
    <2>3. MemberSet(u, b) = {<<u.members[i][1], b[u.members[i][2]]>> : i \in 1..Len(u.members)}
      BY <2>2 DEF MemberSet
    <2>4. \A k \in KeysOf(u) : \E i \in 1..Len(u.members) :
             u.members[i][1] = k /\ u.members[i][2] = MemberAt(u, k)
      <3>1. ASSUME NEW k \in KeysOf(u)
            PROVE  \E i \in 1..Len(u.members) : u.members[i][1] = k /\ u.members[i][2] = MemberAt(u, k)
        <4>1. PICK i \in 1..Len(u.members) : u.members[i] = <<k, MemberAt(u, k)>>
          BY <2>1
        <4>2. u.members[i][1] = k /\ u.members[i][2] = MemberAt(u, k)
          BY <4>1
        <4>. QED BY <4>2
      <3>. QED BY <3>1
    <2>. QED BY <2>1, <2>3, <2>4
  <1>2. MemberSet(v, b) = Pairs(v) /\ MemberSet(w, b) = Pairs(w)
    BY <1>1
  <1>3. Pairs(v) = Pairs(w) => KeysOf(v) = KeysOf(w) /\ \A k \in KeysOf(v) : b[MemberAt(v, k)] = b[MemberAt(w, k)]
    <2>. SUFFICES ASSUME Pairs(v) = Pairs(w)
                  PROVE  KeysOf(v) = KeysOf(w) /\ \A k \in KeysOf(v) : b[MemberAt(v, k)] = b[MemberAt(w, k)]
      OBVIOUS
    <2>1. \A k \in KeysOf(v) : <<k, b[MemberAt(v, k)]>> \in Pairs(w)
      OBVIOUS
    <2>2. \A k \in KeysOf(w) : <<k, b[MemberAt(w, k)]>> \in Pairs(v)
      OBVIOUS
    <2>3. \A k \in KeysOf(v) : k \in KeysOf(w) /\ b[MemberAt(v, k)] = b[MemberAt(w, k)]
      BY <2>1
    <2>4. \A k \in KeysOf(w) : k \in KeysOf(v)
      BY <2>2
    <2>. QED BY <2>3, <2>4
  <1>4. AlikeMembers(v, w, b) => Pairs(v) = Pairs(w)
    BY DEF AlikeMembers
  <1>. QED BY <1>2, <1>3, <1>4 DEF AlikeMembers

\* Two arrays are one item by item.
LEMMA ItemsAlike ==
    ASSUME NEW S, NEW v, NEW w, v.items \in Seq(S), w.items \in Seq(S), NEW b
    PROVE  MappedItems(v, b) = MappedItems(w, b) <=> AlikeItems(v, w, b)
  <1>. DEFINE p == MappedItems(v, b)
              q == MappedItems(w, b)
  <1>1. /\ Len(v.items) \in Nat /\ DOMAIN v.items = 1..Len(v.items)
        /\ Len(w.items) \in Nat /\ DOMAIN w.items = 1..Len(w.items)
    OBVIOUS
  <1>2. p = [i \in 1..Len(v.items) |-> b[v.items[i]]] /\ q = [i \in 1..Len(w.items) |-> b[w.items[i]]]
    BY <1>1 DEF MappedItems
  <1>. HIDE DEF p, q
  <1>3. ASSUME p = q PROVE AlikeItems(v, w, b)
    <2>1. DOMAIN p = 1..Len(v.items) /\ DOMAIN q = 1..Len(w.items)
      BY <1>2
    <2>2. 1..Len(v.items) = 1..Len(w.items)
      BY <1>3, <2>1
    <2>3. Len(v.items) = Len(w.items)
      BY <1>1, <2>2
    <2>. QED BY <1>2, <1>3, <2>3 DEF AlikeItems
  <1>4. ASSUME AlikeItems(v, w, b) PROVE p = q
    BY <1>2, <1>4 DEF AlikeItems
  <1>. QED BY <1>3, <1>4 DEF p, q

\* b and m take the same values of S for one.
SameFibres(S, b, m) == \A s, t \in S : b[s] = b[t] <=> m[s] = m[t]

\* Two values are one after sorting if and only if they mean the same.
LEMMA SortedIsMeaning ==
    ASSUME NEW S, NEW b, NEW m, \A s \in S : b[s] \in S, SameFibres(S, b, m),
           NEW v \in Over(S), NEW w \in Over(S)
    PROVE  SortedFrom(v, b) = SortedFrom(w, b) <=> MeaningFrom(v, m) = MeaningFrom(w, m)
  <1>1. /\ v.kind \in {"object", "array", "scalar", "string"}
        /\ w.kind \in {"object", "array", "scalar", "string"}
    BY Shapes
  <1>2. SortedFrom(v, b).kind = v.kind /\ SortedFrom(w, b).kind = w.kind
    BY SortedIsValue
  <1>3. ASSUME NEW u \in Over(S) PROVE MeaningFrom(u, m).kind = u.kind
    <2>1. CASE u.kind = "object"
      BY <2>1, MeaningFromIs DEF MeaningMap
    <2>2. CASE u.kind = "array"
      BY <2>2, MeaningFromIs DEF Arr
    <2>3. CASE u.kind \in {"scalar", "string"}
      BY <2>3, MeaningFromIs
    <2>. QED BY <2>1, <2>2, <2>3, Shapes
  <1>4. CASE v.kind # w.kind
    BY <1>2, <1>3, <1>4
  <1>5. CASE v.kind = "object" /\ w.kind = "object"
    <2>1. v.members \in MembersOver(S) /\ w.members \in MembersOver(S)
      BY <1>5, Shapes
    <2>2. SortedMembers(v, b) = SortedMembers(w, b) <=> AlikeMembers(v, w, b)
      BY <2>1, SortedObjects
    <2>3. MemberSet(v, m) = MemberSet(w, m) <=> AlikeMembers(v, w, m)
      BY <2>1, MeaningObjects
    <2>4. AlikeMembers(v, w, b) <=> AlikeMembers(v, w, m)
      <3>1. /\ \A k \in KeysOf(v) : MemberAt(v, k) \in S
            /\ \A k \in KeysOf(w) : MemberAt(w, k) \in S
        BY <2>1, MemberAtIs
      <3>. QED BY <3>1 DEF AlikeMembers, SameFibres
    <2>5. SortedFrom(v, b) = Obj(SortedMembers(v, b)) /\ SortedFrom(w, b) = Obj(SortedMembers(w, b))
      BY <1>5, SortedFromIs
    <2>6. MeaningFrom(v, m) = MeaningMap(MemberSet(v, m)) /\ MeaningFrom(w, m) = MeaningMap(MemberSet(w, m))
      BY <1>5, MeaningFromIs
    <2>7. \A x, y : Obj(x) = Obj(y) <=> x = y
      BY DEF Obj
    <2>8. \A x, y : MeaningMap(x) = MeaningMap(y) <=> x = y
      BY DEF MeaningMap
    <2>. QED BY <2>2, <2>3, <2>4, <2>5, <2>6, <2>7, <2>8
  <1>6. CASE v.kind = "array" /\ w.kind = "array"
    <2>1. v.items \in Seq(S) /\ w.items \in Seq(S)
      BY <1>6, Shapes
    <2>2. /\ MappedItems(v, b) = MappedItems(w, b) <=> AlikeItems(v, w, b)
          /\ MappedItems(v, m) = MappedItems(w, m) <=> AlikeItems(v, w, m)
      BY <2>1, ItemsAlike
    <2>3. AlikeItems(v, w, b) <=> AlikeItems(v, w, m)
      <3>1. /\ \A i \in 1..Len(v.items) : v.items[i] \in S
            /\ \A i \in 1..Len(w.items) : w.items[i] \in S
        BY <2>1
      <3>. QED BY <3>1 DEF AlikeItems, SameFibres
    <2>4. SortedFrom(v, b) = Arr(MappedItems(v, b)) /\ SortedFrom(w, b) = Arr(MappedItems(w, b))
      BY <1>6, SortedFromIs
    <2>5. MeaningFrom(v, m) = Arr(MappedItems(v, m)) /\ MeaningFrom(w, m) = Arr(MappedItems(w, m))
      BY <1>6, MeaningFromIs
    <2>6. \A x, y : Arr(x) = Arr(y) <=> x = y
      BY DEF Arr
    <2>. QED BY <2>2, <2>3, <2>4, <2>5, <2>6
  <1>7. CASE v.kind = w.kind /\ v.kind \in {"scalar", "string"}
    BY <1>7, SortedFromIs, MeaningFromIs
  <1>. QED BY <1>1, <1>4, <1>5, <1>6, <1>7

\* What holds of the values below those of level 0, and of the values of a
\* level if it holds of those below, holds of the values of every level.
Inherited(T) == \A k \in 0..MaxDepth : (k # 0 => k - 1 \in T) => k \in T

\* Induction on the level: a set of levels that each inherits from the one below has them all.
LEMMA Inherits ==
    ASSUME NEW T, Inherited(T)
    PROVE  \A n \in 0..MaxDepth : n \in T
  <1>1. MaxDepth \in Nat
    BY CanonicalFormAssumption
  <1>2. 0 \in T
    BY <1>1 DEF Inherited
  <1>3. \A k \in 1..MaxDepth : k - 1 \in T => k \in T
    BY <1>1 DEF Inherited
  <1>4. 0..MaxDepth \subseteq T
    BY <1>1, <1>2, <1>3, Reaches
  <1>. QED BY <1>4

\* Sorting, level by level: values of the level and of the same kind.
KeepsValues(n) ==
    \A v \in Values[n] : SortedAt[n][v] \in Values[n] /\ SortedAt[n][v].kind = v.kind

\* Sorting a value of any level gives one of that level and of the same kind.
LEMMA SortedKeepsValues ==
    ASSUME NEW n \in 0..MaxDepth
    PROVE  KeepsValues(n)
  <1>. DEFINE T == {k \in 0..MaxDepth : KeepsValues(k)}
  <1>1. ASSUME NEW k \in 0..MaxDepth, k # 0 => k - 1 \in T PROVE k \in T
    <2>. DEFINE b == IF k = 0 THEN <<>> ELSE SortedAt[k - 1]
    <2>1. Values[k] = Over(Below(k)) /\ SortedAt[k] = [v \in Values[k] |-> SortedFrom(v, b)]
      BY ValuesDef, SortedDef
    <2>2. \A s \in Below(k) : b[s] \in Below(k)
      BY <1>1 DEF Below, KeepsValues
    <2>. HIDE DEF b
    <2>3. \A v \in Values[k] : SortedFrom(v, b) \in Values[k] /\ SortedFrom(v, b).kind = v.kind
      BY <2>1, <2>2, SortedIsValue
    <2>4. KeepsValues(k)
      BY <2>1, <2>3 DEF KeepsValues
    <2>. QED BY <2>4
  <1>2. Inherited(T)
    BY <1>1 DEF Inherited
  <1>. HIDE DEF T
  <1>3. n \in T
    BY <1>2, Inherits
  <1>. QED BY <1>3 DEF T

\* Two values of a level are one after sorting exactly if they mean the same.
LEMMA SortedMeans ==
    ASSUME NEW n \in 0..MaxDepth
    PROVE  SameFibres(Values[n], SortedAt[n], MeaningAt[n])
  <1>. DEFINE T == {k \in 0..MaxDepth : SameFibres(Values[k], SortedAt[k], MeaningAt[k])}
  <1>1. ASSUME NEW k \in 0..MaxDepth, k # 0 => k - 1 \in T PROVE k \in T
    <2>. DEFINE b == IF k = 0 THEN <<>> ELSE SortedAt[k - 1]
                m == IF k = 0 THEN <<>> ELSE MeaningAt[k - 1]
    <2>1. /\ Values[k] = Over(Below(k))
          /\ SortedAt[k] = [v \in Values[k] |-> SortedFrom(v, b)]
          /\ MeaningAt[k] = [v \in Values[k] |-> MeaningFrom(v, m)]
      BY ValuesDef, SortedDef, MeaningDef
    <2>2. \A s \in Below(k) : b[s] \in Below(k)
      <3>1. k # 0 => k - 1 \in 0..MaxDepth
        BY CanonicalFormAssumption
      <3>2. k # 0 => KeepsValues(k - 1)
        BY <3>1, SortedKeepsValues
      <3>. QED BY <3>2 DEF Below, KeepsValues
    <2>3. SameFibres(Below(k), b, m)
      BY <1>1 DEF Below, SameFibres
    <2>. HIDE DEF b, m
    <2>4. \A v, w \in Values[k] :
             SortedFrom(v, b) = SortedFrom(w, b) <=> MeaningFrom(v, m) = MeaningFrom(w, m)
      BY <2>1, <2>2, <2>3, SortedIsMeaning
    <2>5. SameFibres(Values[k], SortedAt[k], MeaningAt[k])
      BY <2>1, <2>4 DEF SameFibres
    <2>. QED BY <2>5
  <1>2. Inherited(T)
    BY <1>1 DEF Inherited
  <1>. HIDE DEF T
  <1>3. n \in T
    BY <1>2, Inherits
  <1>. QED BY <1>3 DEF T

\* What is a value of a level is one of every higher level.
LEMMA SeqsGrow ==
    ASSUME NEW S, NEW T, S \subseteq T
    PROVE  Seq(S) \subseteq Seq(T) /\ MembersOver(S) \subseteq MembersOver(T) /\ Over(S) \subseteq Over(T)
  <1>1. Seq(S) \subseteq Seq(T) /\ Seq(DocumentKeys \X S) \subseteq Seq(DocumentKeys \X T)
    OBVIOUS
  <1>2. MembersOver(S) \subseteq MembersOver(T)
    BY <1>1 DEF MembersOver
  <1>. QED BY <1>1, <1>2 DEF Over

\* Values nested less deep are values.
LEMMA ValuesGrow ==
    ASSUME NEW n \in 1..MaxDepth
    PROVE  Values[n - 1] \subseteq Values[n]
  <1>. DEFINE T == {k \in 0..MaxDepth : Below(k) \subseteq Values[k]}
  <1>1. ASSUME NEW k \in 0..MaxDepth, k # 0 => k - 1 \in T PROVE k \in T
    <2>1. CASE k = 0
      BY <2>1 DEF Below
    <2>2. CASE k # 0
      <3>1. k - 1 \in 0..MaxDepth /\ Below(k) = Values[k - 1] /\ Below(k - 1) \subseteq Values[k - 1]
        BY <1>1, <2>2 DEF Below
      <3>2. Values[k - 1] = Over(Below(k - 1)) /\ Values[k] = Over(Below(k))
        BY <3>1, ValuesDef
      <3>. DEFINE a == Below(k - 1)
                  c == Below(k)
      <3>3. a \subseteq c
        BY <3>1
      <3>. HIDE DEF a, c
      <3>4. Over(a) \subseteq Over(c)
        BY <3>3, SeqsGrow
      <3>5. Over(Below(k - 1)) \subseteq Over(Below(k))
        BY <3>4 DEF a, c
      <3>. QED BY <3>1, <3>2, <3>5
    <2>. QED BY <2>1, <2>2
  <1>2. Inherited(T)
    BY <1>1 DEF Inherited
  <1>. HIDE DEF T
  <1>3. n \in 0..MaxDepth /\ n # 0
    BY CanonicalFormAssumption
  <1>4. n \in T
    BY <1>2, <1>3, Inherits
  <1>. QED BY <1>3, <1>4 DEF T, Below

\* Two JSON values have one canonical text exactly if they mean the same, even
\* when something follows the texts.
LEMMA CanonicalExact ==
    ASSUME NEW v \in Values[MaxDepth], NEW w \in Values[MaxDepth], NEW x \in Follow, NEW y \in Follow
    PROVE  /\ CanonicalSerialize(v) \in Words /\ Opens(CanonicalSerialize(v))
           /\ Same(v, w) <=> CanonicalSerialize(v) = CanonicalSerialize(w)
           /\ CanonicalSerialize(v) ++ x = CanonicalSerialize(w) ++ y => Same(v, w) /\ x = y
  <1>. DEFINE s == SortedAt[MaxDepth]
              t == TextAt[MaxDepth][TRUE]
  <1>1. MaxDepth \in 0..MaxDepth
    BY CanonicalFormAssumption
  <1>2. s[v] \in Values[MaxDepth] /\ s[w] \in Values[MaxDepth]
    BY <1>1, SortedKeepsValues DEF KeepsValues
  <1>3. s[v] = s[w] <=> Same(v, w)
    BY <1>1, SortedMeans DEF SameFibres, Same, Meaning
  <1>4. Readable(Values[MaxDepth], t)
    BY <1>1, TextsReadable
  <1>5. CanonicalSerialize(v) = t[s[v]] /\ CanonicalSerialize(w) = t[s[w]]
    BY DEF CanonicalSerialize, TextOf, SortJsonValue
  <1>. HIDE DEF s, t
  <1>6. t[s[v]] \in Words /\ Opens(t[s[v]]) /\ t[s[w]] \in Words
    BY <1>2, <1>4 DEF Readable
  <1>7. \A p, q \in Follow : t[s[v]] ++ p = t[s[w]] ++ q => s[v] = s[w] /\ p = q
    BY <1>2, <1>4 DEF Readable
  <1>8. t[s[v]] = t[s[w]] => s[v] = s[w]
    BY <1>7, NothingFollows
  <1>. QED BY <1>3, <1>5, <1>6, <1>7, <1>8
----------------------------------------------------------------------------
(***************************************************************************)
(* The second implementation writes the same text where no key needs an    *)
(* escape.                                                                 *)
(***************************************************************************)

\* The text policy.rs formats, from the texts t of the values below.
Bare(v, t) == TextFrom(v, FALSE, t)

BareMembers(v, t) == [i \in DOMAIN v.members |-> KeyedText(v.members[i][1], t[v.members[i][2]])]

\* The text of a value of each kind, keys as they are, from the texts below it.
LEMMA BareIs ==
    ASSUME NEW v, NEW t
    PROVE  /\ v.kind = "object" => Bare(v, t) = (<<LeftBrace>> ++ Joined(BareMembers(v, t))) ++ <<RightBrace>>
           /\ v.kind = "array" => Bare(v, t) = (<<LeftBracket>> ++ Joined(ItemTexts(v, t))) ++ <<RightBracket>>
           /\ v.kind = "string" => Bare(v, t) = Quoted(Escaped(v.text))
           /\ v.kind = "scalar" => Bare(v, t) = v.text
  <1>1. v.kind = "object" => Bare(v, t) = (<<LeftBrace>> ++ Joined(BareMembers(v, t))) ++ <<RightBrace>>
    BY Zenon DEF Bare, TextFrom, BareMembers, KeyedText, ++
  <1>2. v.kind = "array" => Bare(v, t) = (<<LeftBracket>> ++ Joined(ItemTexts(v, t))) ++ <<RightBracket>>
    BY Zenon DEF Bare, TextFrom, ItemTexts, ++
  <1>3. v.kind = "string" => Bare(v, t) = Quoted(Escaped(v.text))
    BY Zenon DEF Bare, TextFrom
  <1>4. v.kind = "scalar" => Bare(v, t) = v.text
    BY Zenon DEF Bare, TextFrom
  <1>. QED BY <1>1, <1>2, <1>3, <1>4

\* What is below a plain value is plain, and its keys are what they are escaped to.
LEMMA PlainFromIs ==
    ASSUME NEW v, NEW pl, PlainFrom(v, pl)
    PROVE  /\ v.kind = "object" => \A m \in ToSet(v.members) : Escaped(m[1]) = m[1] /\ pl[m[2]]
           /\ v.kind = "array" => \A item \in ToSet(v.items) : pl[item]
  <1>1. v.kind = "object" => \A m \in ToSet(v.members) : Escaped(m[1]) = m[1] /\ pl[m[2]]
    BY Zenon DEF PlainFrom
  <1>2. v.kind = "array" => \A item \in ToSet(v.items) : pl[item]
    BY Zenon DEF PlainFrom
  <1>. QED BY <1>1, <1>2

\* Whatever is plain has one text, however its keys are written.
OneText(S, b, pl, tf, tt) == \A s \in S : pl[s] => tf[b[s]] = tt[b[s]]

\* Escaping the keys of a plain object changes nothing, sorted as it is;
LEMMA PlainObject ==
    ASSUME NEW S, NEW b, \A s \in S : b[s] \in S, NEW pl, NEW tf, NEW tt, OneText(S, b, pl, tf, tt),
           NEW v \in Over(S), v.kind = "object", PlainFrom(v, pl),
           NEW u, u = SortedFrom(v, b)
    PROVE  Bare(u, tf) = Text(u, tt)
  <1>. DEFINE ks == SortedKeys(KeysOf(v))
              ms == SortedMembers(v, b)
  <1>1. v.members \in MembersOver(S) /\ u = Obj(ms)
    BY Shapes, SortedFromIs
  <1>2. u.kind = "object" /\ u.members = ms
    BY <1>1 DEF Obj
  <1>3. /\ ms \in MembersOver(S) /\ Len(ms) = Len(ks)
        /\ \A i \in 1..Len(ks) : ks[i] \in KeysOf(v) /\ ms[i] = <<ks[i], b[MemberAt(v, ks[i])]>>
    BY <1>1, SortedMembersAre
  <1>4. DOMAIN ms = 1..Len(ms)
    BY <1>3, MembersAre
  <1>5. ASSUME NEW k \in KeysOf(v)
        PROVE  Escaped(k) = k /\ tf[b[MemberAt(v, k)]] = tt[b[MemberAt(v, k)]]
    <2>1. PICK j \in 1..Len(v.members) : v.members[j] = <<k, MemberAt(v, k)>>
      BY <1>1, MemberAtIs
    <2>2. MemberAt(v, k) \in S
      BY <1>1, MemberAtIs
    <2>3. v.members[j] \in ToSet(v.members)
      BY <1>1, MembersAre DEF ToSet
    <2>4. Escaped(v.members[j][1]) = v.members[j][1] /\ pl[v.members[j][2]]
      BY <2>3, PlainFromIs
    <2>5. v.members[j][1] = k /\ v.members[j][2] = MemberAt(v, k)
      BY <2>1
    <2>6. Escaped(k) = k /\ pl[MemberAt(v, k)]
      BY <2>4, <2>5
    <2>. QED BY <2>2, <2>6 DEF OneText
  <1>. HIDE DEF ks, ms
  <1>6. ASSUME NEW i \in DOMAIN ms
        PROVE  KeyedText(ms[i][1], tf[ms[i][2]]) = KeyedText(Escaped(ms[i][1]), tt[ms[i][2]])
    <2>1. ks[i] \in KeysOf(v) /\ ms[i][1] = ks[i] /\ ms[i][2] = b[MemberAt(v, ks[i])]
      BY <1>3, <1>4
    <2>2. Escaped(ms[i][1]) = ms[i][1] /\ tf[ms[i][2]] = tt[ms[i][2]]
      BY <1>5, <2>1
    <2>. QED BY <2>2
  <1>7. BareMembers(u, tf) = MemberTexts(u, tt)
    BY <1>2, <1>6 DEF BareMembers, MemberTexts
  <1>8. /\ Bare(u, tf) = (<<LeftBrace>> ++ Joined(BareMembers(u, tf))) ++ <<RightBrace>>
        /\ Text(u, tt) = (<<LeftBrace>> ++ Joined(MemberTexts(u, tt))) ++ <<RightBrace>>
    BY <1>2, BareIs, TextFromIs
  <1>. QED BY <1>7, <1>8

\* nor does it in an array of plain values,
LEMMA PlainArray ==
    ASSUME NEW S, NEW b, \A s \in S : b[s] \in S, NEW pl, NEW tf, NEW tt, OneText(S, b, pl, tf, tt),
           NEW v \in Over(S), v.kind = "array", PlainFrom(v, pl),
           NEW u, u = SortedFrom(v, b)
    PROVE  Bare(u, tf) = Text(u, tt)
  <1>. DEFINE its == MappedItems(v, b)
  <1>1. v.items \in Seq(S) /\ u = Arr(its)
    BY Shapes, SortedFromIs
  <1>2. u.kind = "array" /\ u.items = its
    BY <1>1 DEF Arr
  <1>3. DOMAIN its = DOMAIN v.items /\ \A i \in DOMAIN v.items : its[i] = b[v.items[i]]
    BY DEF MappedItems
  <1>4. ASSUME NEW i \in DOMAIN v.items
        PROVE  tf[its[i]] = tt[its[i]]
    <2>1. v.items[i] \in S /\ v.items[i] \in ToSet(v.items)
      BY <1>1 DEF ToSet
    <2>2. pl[v.items[i]]
      BY <2>1, PlainFromIs
    <2>. QED BY <1>3, <2>1, <2>2 DEF OneText
  <1>. HIDE DEF its
  <1>5. ItemTexts(u, tf) = ItemTexts(u, tt)
    BY <1>2, <1>3, <1>4 DEF ItemTexts
  <1>6. /\ Bare(u, tf) = (<<LeftBracket>> ++ Joined(ItemTexts(u, tf))) ++ <<RightBracket>>
        /\ Text(u, tt) = (<<LeftBracket>> ++ Joined(ItemTexts(u, tt))) ++ <<RightBracket>>
    BY <1>2, BareIs, TextFromIs
  <1>. QED BY <1>5, <1>6

\* nor in any plain value, if it does not in those below.
LEMMA PlainOver ==
    ASSUME NEW S, NEW b, \A s \in S : b[s] \in S, NEW pl, NEW tf, NEW tt, OneText(S, b, pl, tf, tt),
           NEW v \in Over(S), PlainFrom(v, pl)
    PROVE  Bare(SortedFrom(v, b), tf) = Text(SortedFrom(v, b), tt)
  <1>. DEFINE u == SortedFrom(v, b)
  <1>1. u = SortedFrom(v, b)
    OBVIOUS
  <1>. HIDE DEF u
  <1>2. CASE v.kind = "object"
    <2>1. Bare(u, tf) = Text(u, tt)
      BY <1>1, <1>2, PlainObject
    <2>. QED BY <1>1, <2>1
  <1>3. CASE v.kind = "array"
    <2>1. Bare(u, tf) = Text(u, tt)
      BY <1>1, <1>3, PlainArray
    <2>. QED BY <1>1, <2>1
  <1>4. CASE v.kind = "string"
    BY <1>4, SortedFromIs, BareIs, TextFromIs
  <1>5. CASE v.kind = "scalar"
    BY <1>5, SortedFromIs, BareIs, TextFromIs
  <1>. QED BY <1>2, <1>3, <1>4, <1>5, Shapes

\* By induction, the two texts of a plain value are one.
LEMMA PlainTexts ==
    ASSUME NEW n \in 0..MaxDepth
    PROVE  OneText(Values[n], SortedAt[n], PlainAt[n], TextAt[n][FALSE], TextAt[n][TRUE])
  <1>. DEFINE Is(k) == OneText(Values[k], SortedAt[k], PlainAt[k], TextAt[k][FALSE], TextAt[k][TRUE])
              T == {k \in 0..MaxDepth : Is(k)}
  <1>1. ASSUME NEW k \in 0..MaxDepth, k # 0 => k - 1 \in T PROVE k \in T
    <2>. DEFINE b == IF k = 0 THEN <<>> ELSE SortedAt[k - 1]
                pl == IF k = 0 THEN <<>> ELSE PlainAt[k - 1]
                tf == IF k = 0 THEN <<>> ELSE TextAt[k - 1][FALSE]
                tt == IF k = 0 THEN <<>> ELSE TextAt[k - 1][TRUE]
                sorted == SortedAt[k]
                plain == PlainAt[k]
                bare == TextAt[k][FALSE]
                text == TextAt[k][TRUE]
    <2>1. /\ Values[k] = Over(Below(k))
          /\ sorted = [v \in Values[k] |-> SortedFrom(v, b)]
          /\ plain = [v \in Values[k] |-> PlainFrom(v, pl)]
      BY ValuesDef, SortedDef, PlainDef
    <2>2. bare = [v \in Values[k] |-> Bare(v, tf)]
      BY TextDef, FALSE \in BOOLEAN DEF Bare
    <2>3. text = [v \in Values[k] |-> Text(v, tt)]
      BY TextDef, TRUE \in BOOLEAN DEF Text
    <2>4. k # 0 => k - 1 \in 0..MaxDepth
      BY CanonicalFormAssumption
    <2>5. \A s \in Below(k) : b[s] \in Below(k)
      <3>1. k # 0 => KeepsValues(k - 1)
        BY <2>4, SortedKeepsValues
      <3>. QED BY <3>1 DEF Below, KeepsValues
    <2>6. OneText(Below(k), b, pl, tf, tt)
      BY <1>1 DEF Below, OneText
    <2>7. \A v \in Values[k] : sorted[v] \in Values[k]
      BY SortedKeepsValues DEF KeepsValues
    <2>. HIDE DEF b, pl, tf, tt, sorted, plain, bare, text
    <2>8. ASSUME NEW v \in Values[k], plain[v]
          PROVE  bare[sorted[v]] = text[sorted[v]]
      <3>1. v \in Over(Below(k)) /\ PlainFrom(v, pl) /\ sorted[v] = SortedFrom(v, b) /\ sorted[v] \in Values[k]
        BY <2>1, <2>7, <2>8
      <3>2. Bare(SortedFrom(v, b), tf) = Text(SortedFrom(v, b), tt)
        BY <2>5, <2>6, <3>1, PlainOver
      <3>. QED BY <2>2, <2>3, <3>1, <3>2
    <2>9. OneText(Values[k], sorted, plain, bare, text)
      BY <2>8 DEF OneText
    <2>. QED BY <2>9 DEF sorted, plain, bare, text
  <1>2. Inherited(T)
    BY <1>1 DEF Inherited
  <1>. HIDE DEF T
  <1>3. n \in T
    BY <1>2, Inherits
  <1>. QED BY <1>3 DEF T

\* The two implementations write one text of a document whose keys need no escape.
LEMMA PlainExact ==
    ASSUME NEW v \in Values[MaxDepth], PlainKeys(v)
    PROVE  CanonicalJson(v) = CanonicalSerialize(v)
  <1>1. MaxDepth \in 0..MaxDepth
    BY CanonicalFormAssumption
  <1>. DEFINE sorted == SortedAt[MaxDepth]
              plain == PlainAt[MaxDepth]
              bare == TextAt[MaxDepth][FALSE]
              text == TextAt[MaxDepth][TRUE]
  <1>2. OneText(Values[MaxDepth], sorted, plain, bare, text)
    BY <1>1, PlainTexts
  <1>3. plain[v]
    BY DEF PlainKeys
  <1>4. CanonicalJson(v) = bare[sorted[v]] /\ CanonicalSerialize(v) = text[sorted[v]]
    BY DEF CanonicalJson, CanonicalSerialize, TextOf, SortJsonValue
  <1>. HIDE DEF sorted, plain, bare, text
  <1>. QED BY <1>2, <1>3, <1>4 DEF OneText

\* The canonical text of an object ends where it ends, whatever comes after it,
\* and begins with its brace.
LEMMA CanonicalObject ==
    ASSUME NEW v \in Values[MaxDepth], v.kind = "object"
    PROVE  CanonicalSerialize(v)[1] = LeftBrace
  <1>. DEFINE n == MaxDepth
              u == SortedAt[n][v]
              t == IF n = 0 THEN <<>> ELSE TextAt[n - 1][TRUE]
              S == Below(n)
              f == TextAt[n][TRUE]
  <1>1. n \in 0..MaxDepth /\ (n # 0 => n - 1 \in 0..MaxDepth)
    BY CanonicalFormAssumption
  <1>2. u \in Values[n] /\ u.kind = "object"
    BY <1>1, SortedKeepsValues DEF KeepsValues
  <1>3. Values[n] = Over(S) /\ f = [w \in Values[n] |-> Text(w, t)]
    BY <1>1, ValuesDef, TextDef DEF Text
  <1>4. CanonicalSerialize(v) = f[u]
    BY DEF CanonicalSerialize, TextOf, SortJsonValue
  <1>5. Readable(S, t)
    <2>1. CASE n = 0
      BY <2>1 DEF Below, Readable
    <2>2. CASE n # 0
      BY <1>1, <2>2, TextsReadable DEF Below
    <2>. QED BY <2>1, <2>2
  <1>. HIDE DEF n, u, t, S, f
  <1>6. Text(u, t)[1] = LeftBrace
    BY <1>2, <1>3, <1>5, ObjectText
  <1>. QED BY <1>2, <1>3, <1>4, <1>6

CanonicalAlike(v, x, w, y) ==
    /\ v \in Values[MaxDepth] /\ w \in Values[MaxDepth] /\ x \in Words /\ y \in Words
    /\ CanonicalSerialize(v) ++ x = CanonicalSerialize(w) ++ y

\* Two objects whose canonical texts, with something behind them, are one mean the same.
LEMMA CanonicalObjects ==
    ASSUME NEW v, NEW x, NEW w, NEW y, CanonicalAlike(v, x, w, y), v.kind = "object", w.kind = "object"
    PROVE  Same(v, w) /\ x = y
  <1>. DEFINE n == MaxDepth
              s == SortedAt[n]
              f == TextAt[n][TRUE]
  <1>1. n \in 0..MaxDepth /\ v \in Values[n] /\ w \in Values[n] /\ x \in Words /\ y \in Words
    BY CanonicalFormAssumption DEF CanonicalAlike
  <1>2. s[v] \in Values[n] /\ s[v].kind = "object" /\ s[w] \in Values[n] /\ s[w].kind = "object"
    BY <1>1, SortedKeepsValues DEF KeepsValues
  <1>3. f[s[v]] ++ x = f[s[w]] ++ y
    BY DEF CanonicalAlike, CanonicalSerialize, TextOf, SortJsonValue
  <1>4. s[v] = s[w] /\ x = y
    <2>1. SameObjectTexts(n, s[v], x, s[w], y)
      BY <1>1, <1>2, <1>3 DEF SameObjectTexts
    <2>. QED BY ONLY <1>1, <2>1, ObjectsReadable
  <1>. QED BY <1>1, <1>4, SortedMeans DEF SameFibres, Same, Meaning

\* What policy.rs formats is a text.
LEMMA BareMembersAre ==
    ASSUME NEW S, NEW v, v.members \in MembersOver(S), NEW t, Maps(t, S, Words)
    PROVE  BareMembers(v, t) \in Seq(Words)
  <1>1. /\ Len(v.members) \in Nat /\ DOMAIN v.members = 1..Len(v.members)
        /\ \A i \in 1..Len(v.members) : v.members[i][1] \in Words /\ v.members[i][2] \in S
    BY MembersAre
  <1>2. ASSUME NEW i \in 1..Len(v.members)
        PROVE  KeyedText(v.members[i][1], t[v.members[i][2]]) \in Words
    <2>1. v.members[i][1] \in Words /\ t[v.members[i][2]] \in Words
      BY <1>1 DEF Maps
    <2>. QED BY <2>1, KeyedTextIs
  <1>3. BareMembers(v, t) = [i \in 1..Len(v.members) |-> KeyedText(v.members[i][1], t[v.members[i][2]])]
    BY <1>1 DEF BareMembers
  <1>. QED BY <1>1, <1>2, <1>3

\* From texts below, the text of a value is a text,
LEMMA BareIsWord ==
    ASSUME NEW S, NEW t, Maps(t, S, Words), NEW v \in Over(S)
    PROVE  Bare(v, t) \in Words
  <1>1. CASE v.kind = "object"
    <2>. DEFINE j == Joined(BareMembers(v, t))
    <2>1. v.members \in MembersOver(S)
      BY <1>1, Shapes
    <2>2. BareMembers(v, t) \in Seq(Words)
      BY <2>1, BareMembersAre
    <2>3. j \in Words
      BY <2>2, PiecesAre
    <2>4. Bare(v, t) = (<<LeftBrace>> ++ j) ++ <<RightBrace>>
      BY <1>1, BareIs
    <2>. HIDE DEF j
    <2>5. LeftBrace \in Punctuation /\ RightBrace \in Punctuation
      BY Marks
    <2>6. (<<LeftBrace>> ++ j) ++ <<RightBrace>> \in Words
      BY ONLY <2>3, <2>5, Between
    <2>. QED BY <2>4, <2>6
  <1>2. CASE v.kind = "array"
    <2>. DEFINE j == Joined(ItemTexts(v, t))
    <2>1. v.items \in Seq(S)
      BY <1>2, Shapes
    <2>2. ItemTexts(v, t) \in Seq(Words)
      BY <2>1 DEF ItemTexts, Maps
    <2>3. j \in Words
      BY <2>2, PiecesAre
    <2>4. Bare(v, t) = (<<LeftBracket>> ++ j) ++ <<RightBracket>>
      BY <1>2, BareIs
    <2>. HIDE DEF j
    <2>5. LeftBracket \in Punctuation /\ RightBracket \in Punctuation
      BY Marks
    <2>6. (<<LeftBracket>> ++ j) ++ <<RightBracket>> \in Words
      BY ONLY <2>3, <2>5, Between
    <2>. QED BY <2>4, <2>6
  <1>3. CASE v.kind = "string"
    <2>1. v.text \in Words
      BY <1>3, Shapes
    <2>2. Escaped(v.text) \in Words
      BY <2>1, EscapedApart
    <2>. QED BY <1>3, <2>2, BareIs, QuotedIs
  <1>4. CASE v.kind = "scalar"
    <2>1. v.text \in Seq(Symbols \ Punctuation) /\ Bare(v, t) = v.text
      BY <1>4, Shapes, BareIs
    <2>. QED BY <2>1 DEF Words
  <1>. QED BY <1>1, <1>2, <1>3, <1>4, Shapes

\* so that those of all levels are,
LEMMA BareTexts ==
    ASSUME NEW n \in 0..MaxDepth
    PROVE  Maps(TextAt[n][FALSE], Values[n], Words)
  <1>. DEFINE T == {k \in 0..MaxDepth : Maps(TextAt[k][FALSE], Values[k], Words)}
  <1>1. ASSUME NEW k \in 0..MaxDepth, k # 0 => k - 1 \in T PROVE k \in T
    <2>. DEFINE t == IF k = 0 THEN <<>> ELSE TextAt[k - 1][FALSE]
                f == TextAt[k][FALSE]
    <2>1. Values[k] = Over(Below(k)) /\ f = [v \in Values[k] |-> Bare(v, t)]
      BY ValuesDef, TextDef DEF Bare
    <2>2. Maps(t, Below(k), Words)
      BY <1>1 DEF Below, Maps
    <2>. HIDE DEF t, f
    <2>3. \A v \in Values[k] : Bare(v, t) \in Words
      BY <2>1, <2>2, BareIsWord
    <2>4. Maps(f, Values[k], Words)
      BY <2>1, <2>3 DEF Maps
    <2>. QED BY <2>4 DEF f
  <1>2. Inherited(T)
    BY <1>1 DEF Inherited
  <1>. HIDE DEF T
  <1>3. n \in T
    BY <1>2, Inherits
  <1>. QED BY <1>3 DEF T

\* and canonical_json returns one.
LEMMA CanonicalJsonIsWord ==
    ASSUME NEW v \in Values[MaxDepth]
    PROVE  CanonicalJson(v) \in Words
  <1>1. MaxDepth \in 0..MaxDepth
    BY CanonicalFormAssumption
  <1>. DEFINE s == SortedAt[MaxDepth]
              f == TextAt[MaxDepth][FALSE]
  <1>2. s[v] \in Values[MaxDepth] /\ Maps(f, Values[MaxDepth], Words)
    BY <1>1, SortedKeepsValues, BareTexts DEF KeepsValues
  <1>3. CanonicalJson(v) = f[s[v]]
    BY DEF CanonicalJson, TextOf, SortJsonValue
  <1>. HIDE DEF s, f
  <1>. QED BY <1>2, <1>3 DEF Maps
----------------------------------------------------------------------------
(***************************************************************************)
(* The text of an attestation, which cannot be read from the front: a      *)
(* condition's id may hold quotes. From the end it can.                    *)
(***************************************************************************)

\* Where the symbols of two words come together.
LEMMA ConcatIs ==
    ASSUME NEW x \in Words, NEW y \in Words
    PROVE  /\ x ++ y \in Words /\ Len(x) \in Nat /\ Len(y) \in Nat /\ Len(x ++ y) = Len(x) + Len(y)
           /\ \A i \in 1..Len(x) : (x ++ y)[i] = x[i]
           /\ \A i \in 1..Len(y) : (x ++ y)[Len(x) + i] = y[i]
  <1>1. Len(x) \in Nat /\ Len(y) \in Nat
    BY DEF Words
  <1>2. x \o y \in Words /\ Len(x \o y) = Len(x) + Len(y)
    BY ConcatProperties DEF Words
  <1>3. \A i \in 1..Len(x) : (x \o y)[i] = x[i]
    BY DEF Words
  <1>4. \A i \in 1..Len(y) : (x \o y)[Len(x) + i] = y[i]
    BY DEF Words
  <1>. QED BY <1>1, <1>2, <1>3, <1>4 DEF ++

Mark(c) == <<c>>

\* A text can be read from its end: up to the last of some mark.
SameToLast(c, a, t, b, u) ==
    /\ c \in Symbols /\ a \in Words /\ b \in Words
    /\ t \in Seq(Symbols \ {c}) /\ u \in Seq(Symbols \ {c})
    /\ (a ++ Mark(c)) ++ t = (b ++ Mark(c)) ++ u

Marked(c, a, t) == c \in Symbols /\ a \in Words /\ t \in Seq(Symbols \ {c})

\* The mark c is in w behind a, and t, which is what follows it, has none.
LastAt(w, c, a, t) ==
    /\ Len(a) \in Nat /\ Len(t) \in Nat /\ Len(w) = Len(a) + 1 + Len(t) /\ w[Len(a) + 1] = c
    /\ \A i \in 1..Len(t) : w[Len(a) + 1 + i] = t[i] /\ t[i] # c

\* In a word with a mark in it, and none after it, the mark is the last one.
LEMMA MarkedIs ==
    ASSUME NEW c, NEW a, NEW t, Marked(c, a, t)
    PROVE  LastAt((a ++ Mark(c)) ++ t, c, a, t)
  <1>1. /\ a \in Words /\ t \in Words /\ Mark(c) \in Words /\ Len(Mark(c)) = 1 /\ Mark(c)[1] = c
        /\ Len(a) \in Nat /\ Len(t) \in Nat /\ \A i \in 1..Len(t) : t[i] # c
    BY DEF Words, Marked, Mark
  <1>. DEFINE m == a ++ Mark(c)
  <1>2. m \in Words /\ Len(m) = Len(a) + 1 /\ m[Len(a) + 1] = c
    <2>1. /\ m \in Words /\ Len(m) = Len(a) + Len(Mark(c))
          /\ \A i \in 1..Len(Mark(c)) : m[Len(a) + i] = Mark(c)[i]
      BY <1>1, ConcatIs
    <2>. HIDE DEF m
    <2>2. 1 \in 1..Len(Mark(c))
      BY <1>1
    <2>. QED BY <1>1, <2>1, <2>2
  <1>. HIDE DEF m
  <1>3. /\ m ++ t \in Words /\ Len(m ++ t) = Len(m) + Len(t)
        /\ \A i \in 1..Len(m) : (m ++ t)[i] = m[i]
        /\ \A i \in 1..Len(t) : (m ++ t)[Len(m) + i] = t[i]
    BY <1>1, <1>2, ConcatIs
  <1>4. (m ++ t)[Len(a) + 1] = c
    BY <1>1, <1>2, <1>3
  <1>5. \A i \in 1..Len(t) : (m ++ t)[Len(a) + 1 + i] = t[i]
    BY <1>2, <1>3
  <1>6. Len(m ++ t) = Len(a) + 1 + Len(t)
    BY <1>2, <1>3
  <1>7. LastAt(m ++ t, c, a, t)
    BY <1>1, <1>4, <1>5, <1>6 DEF LastAt
  <1>. QED BY <1>7 DEF m

\* A piece at the end of two words.
LEMMA SameBack ==
    ASSUME NEW p \in Words, NEW x \in Words, NEW y \in Words, x ++ p = y ++ p
    PROVE  x = y
  BY ConcatSimplifications DEF Words, ++

\* Two such words that are one have the same on either side of the mark.
LEMMA LastMark ==
    ASSUME NEW c, NEW a, NEW t, NEW b, NEW u, SameToLast(c, a, t, b, u)
    PROVE  a = b /\ t = u
  <1>. DEFINE w == (a ++ Mark(c)) ++ t
              z == (b ++ Mark(c)) ++ u
  <1>1. c \in Symbols /\ a \in Words /\ b \in Words /\ w = z
        /\ t \in Seq(Symbols \ {c}) /\ u \in Seq(Symbols \ {c})
    BY DEF SameToLast
  <1>2. /\ Len(a) \in Nat /\ Len(t) \in Nat /\ Len(w) = Len(a) + 1 + Len(t) /\ w[Len(a) + 1] = c
        /\ \A i \in 1..Len(t) : w[Len(a) + 1 + i] = t[i] /\ t[i] # c
    <2>1. Marked(c, a, t)
      BY Zenon, <1>1 DEF Marked
    <2>2. LastAt(w, c, a, t)
      BY ONLY Zenon, <2>1, MarkedIs
    <2>. HIDE DEF w
    <2>. QED BY ONLY Zenon, <2>2 DEF LastAt
  <1>3. /\ Len(b) \in Nat /\ Len(u) \in Nat /\ Len(z) = Len(b) + 1 + Len(u) /\ z[Len(b) + 1] = c
        /\ \A i \in 1..Len(u) : z[Len(b) + 1 + i] = u[i] /\ u[i] # c
    <2>1. Marked(c, b, u)
      BY Zenon, <1>1 DEF Marked
    <2>2. LastAt(z, c, b, u)
      BY ONLY Zenon, <2>1, MarkedIs
    <2>. HIDE DEF z
    <2>. QED BY ONLY Zenon, <2>2 DEF LastAt
  <1>. HIDE DEF w, z
  <1>4. ~ Len(t) < Len(u)
    <2>. SUFFICES ASSUME Len(t) < Len(u) PROVE FALSE
      OBVIOUS
    <2>. DEFINE i == Len(a) - Len(b)
    <2>1. i \in 1..Len(u) /\ Len(b) + 1 + i = Len(a) + 1
      BY <1>1, <1>2, <1>3
    <2>. HIDE DEF i
    <2>2. z[Len(b) + 1 + i] # c
      BY ONLY Zenon, <1>3, <2>1
    <2>. QED BY ONLY Zenon, <1>1, <1>2, <2>1, <2>2
  <1>5. ~ Len(u) < Len(t)
    <2>. SUFFICES ASSUME Len(u) < Len(t) PROVE FALSE
      OBVIOUS
    <2>. DEFINE i == Len(b) - Len(a)
    <2>1. i \in 1..Len(t) /\ Len(a) + 1 + i = Len(b) + 1
      BY <1>1, <1>2, <1>3
    <2>. HIDE DEF i
    <2>2. w[Len(a) + 1 + i] # c
      BY ONLY Zenon, <1>2, <2>1
    <2>. QED BY ONLY Zenon, <1>1, <1>3, <2>1, <2>2
  <1>6. Len(t) = Len(u) /\ Len(a) = Len(b)
    BY <1>1, <1>2, <1>3, <1>4, <1>5
  <1>7. t = u
    <2>1. \A i \in 1..Len(t) : t[i] = u[i]
      BY <1>1, <1>2, <1>3, <1>6
    <2>. QED BY ONLY <1>1, <1>6, <2>1, SeqEqual
  <1>8. a = b
    <2>1. Mark(c) \in Words /\ t \in Words
      BY <1>1, OneSymbol DEF Words, Mark
    <2>2. a ++ Mark(c) \in Words /\ b ++ Mark(c) \in Words
      BY <1>1, <2>1, Joins
    <2>3. (a ++ Mark(c)) ++ t = (b ++ Mark(c)) ++ t
      BY <1>1, <1>7 DEF w, z
    <2>4. a ++ Mark(c) = b ++ Mark(c)
      BY <2>1, <2>2, <2>3, SameBack
    <2>. QED BY <1>1, <2>1, <2>4, SameBack
  <1>. QED BY <1>7, <1>8

\* A field at the end of a text: its key k with a mark behind it, and its value.
Field(c, k, t) == (k ++ Mark(c)) ++ t

SameField(c, k, g, t, h, u) ==
    /\ c \in Symbols /\ k \in Words /\ g \in Words /\ h \in Words
    /\ t \in Seq(Symbols \ {c}) /\ u \in Seq(Symbols \ {c})
    /\ g ++ Field(c, k, t) = h ++ Field(c, k, u)

\* A field is its key, a mark and its value.
LEMMA FieldIs ==
    ASSUME NEW c \in Symbols, NEW k \in Words, NEW g \in Words, NEW t \in Words
    PROVE  /\ Mark(c) \in Words /\ Field(c, k, t) \in Words
           /\ g ++ Field(c, k, t) = ((g ++ k) ++ Mark(c)) ++ t
  <1>1. Mark(c) \in Words
    BY DEF Mark, Words
  <1>. DEFINE m == Mark(c)
  <1>. HIDE DEF m
  <1>2. m \in Words /\ k ++ m \in Words
    BY <1>1, Joins DEF m
  <1>3. (k ++ m) ++ t \in Words /\ g ++ ((k ++ m) ++ t) = (g ++ (k ++ m)) ++ t
    BY <1>2, Joins, Regroups
  <1>4. g ++ (k ++ m) = (g ++ k) ++ m
    BY <1>2, Regroups
  <1>. QED BY <1>2, <1>3, <1>4 DEF m, Field

\* The last field can be read from the end, if its value holds no mark.
LEMMA LastField ==
    ASSUME NEW c, NEW k, NEW g, NEW t, NEW h, NEW u, SameField(c, k, g, t, h, u)
    PROVE  g = h /\ t = u
  <1>1. /\ c \in Symbols /\ k \in Words /\ g \in Words /\ h \in Words
        /\ t \in Seq(Symbols \ {c}) /\ u \in Seq(Symbols \ {c}) /\ t \in Words /\ u \in Words
        /\ g ++ Field(c, k, t) = h ++ Field(c, k, u)
    BY DEF SameField, Words
  <1>2. g ++ k \in Words /\ h ++ k \in Words
    BY <1>1, Joins
  <1>3. ((g ++ k) ++ Mark(c)) ++ t = ((h ++ k) ++ Mark(c)) ++ u
    BY <1>1, FieldIs
  <1>4. SameToLast(c, g ++ k, t, h ++ k, u)
    BY <1>1, <1>2, <1>3 DEF SameToLast
  <1>5. g ++ k = h ++ k /\ t = u
    BY ONLY <1>4, LastMark
  <1>. QED BY <1>1, <1>5, SameBack

\* Four texts, joined.
FourWords(a, b, c, d) == a \in Words /\ b \in Words /\ c \in Words /\ d \in Words

UpToLast(a, b, c) == (((((a ++ Mark(Comma)) ++ b) ++ Mark(Comma)) ++ c) ++ Mark(Comma))

\* Joining four texts is joining three and then the last.
LEMMA JoinedFour ==
    ASSUME NEW a, NEW b, NEW c, NEW d, FourWords(a, b, c, d)
    PROVE  Joined(<<a, b, c, d>>) = UpToLast(a, b, c) ++ d
  <1>. DEFINE p == <<a, b, c, d>>
              m == Mark(Comma)
              pp == Pieces(p)
  <1>1. /\ a \in Words /\ b \in Words /\ c \in Words /\ d \in Words
        /\ p \in Seq(Words) /\ Len(p) = 4 /\ p[1] = a /\ p[2] = b /\ p[3] = c /\ p[4] = d
    BY DEF FourWords
  <1>. HIDE DEF p
  <1>2. m \in Words /\ m = <<Comma>>
    BY Closing DEF Mark, Words
  <1>3. /\ pp \in Seq(Words) /\ Len(pp) = 4 /\ Joined(p) = FlattenSeq(pp) /\ Joined(p) \in Words
        /\ pp[1] = a /\ pp[2] = m ++ b /\ pp[3] = m ++ c /\ pp[4] = m ++ d
    <2>1. /\ pp \in Seq(Words) /\ Len(pp) = Len(p) /\ Joined(p) = FlattenSeq(pp) /\ Joined(p) \in Words
          /\ \A i \in 1..Len(p) : pp[i] = IF i = 1 THEN p[1] ELSE <<Comma>> ++ p[i]
      BY Zenon, <1>1, PiecesAre
    <2>. HIDE DEF pp
    <2>2. 1 \in 1..4 /\ 2 \in 1..4 /\ 3 \in 1..4 /\ 4 \in 1..4 /\ 2 # 1 /\ 3 # 1 /\ 4 # 1
      OBVIOUS
    <2>3. /\ pp[1] = p[1] /\ pp[2] = <<Comma>> ++ p[2]
          /\ pp[3] = <<Comma>> ++ p[3] /\ pp[4] = <<Comma>> ++ p[4]
      BY Zenon, <1>1, <2>1, <2>2
    <2>. QED BY Zenon, <1>1, <1>2, <2>1, <2>3
  <1>4. <<>> \in Words
    BY NothingFollows
  <1>. HIDE DEF pp, m
  <1>5. PICK r : IsRest(r, pp, <<>>) /\ r[0] = FlattenSeq(pp) ++ <<>>
    BY <1>3, <1>4, Unfolds
  <1>6. r[4] = <<>> /\ r[3] = pp[4] ++ r[4] /\ r[2] = pp[3] ++ r[3] /\ r[1] = pp[2] ++ r[2] /\ r[0] = pp[1] ++ r[1]
    <2>1. \A k \in 1..4 : r[k - 1] = pp[k] ++ r[k]
      BY <1>3, <1>5 DEF IsRest
    <2>2. r[4 - 1] = pp[4] ++ r[4] /\ r[3 - 1] = pp[3] ++ r[3] /\ r[2 - 1] = pp[2] ++ r[2] /\ r[1 - 1] = pp[1] ++ r[1]
      BY ONLY <2>1
    <2>3. r[4] = <<>>
      BY <1>3, <1>5 DEF IsRest
    <2>. QED BY <2>2, <2>3
  <1>7. m ++ b \in Words /\ m ++ c \in Words /\ m ++ d \in Words /\ a ++ m \in Words
    BY <1>1, <1>2, Joins
  <1>8. Joined(p) = a ++ ((m ++ b) ++ ((m ++ c) ++ (m ++ d)))
    <2>1. r[0] = Joined(p)
      BY <1>3, <1>5, NothingInFront
    <2>2. r[3] = m ++ d
      BY <1>3, <1>6, <1>7, NothingInFront
    <2>. QED BY <1>3, <1>6, <2>1, <2>2
  <1>9. a ++ ((m ++ b) ++ ((m ++ c) ++ (m ++ d))) = (((((a ++ m) ++ b) ++ m) ++ c) ++ m) ++ d
    <2>. DEFINE x == (m ++ c) ++ (m ++ d)
                h == ((a ++ m) ++ b)
                g == ((h ++ m) ++ c)
    <2>1. x \in Words /\ h \in Words /\ g \in Words /\ h ++ m \in Words
      BY <1>1, <1>2, <1>7, Joins
    <2>2. a ++ ((m ++ b) ++ x) = h ++ x
      <3>. HIDE DEF x, h
      <3>1. a ++ ((m ++ b) ++ x) = (a ++ (m ++ b)) ++ x
        BY <1>1, <1>7, <2>1, Regroups
      <3>2. a ++ (m ++ b) = (a ++ m) ++ b
        BY <1>1, <1>2, Regroups
      <3>. QED BY <3>1, <3>2 DEF h
    <2>3. h ++ x = g ++ (m ++ d)
      <3>. HIDE DEF h
      <3>1. h ++ ((m ++ c) ++ (m ++ d)) = (h ++ (m ++ c)) ++ (m ++ d)
        BY <1>7, <2>1, Regroups
      <3>2. h ++ (m ++ c) = (h ++ m) ++ c
        BY <1>1, <1>2, <2>1, Regroups
      <3>. QED BY <3>1, <3>2
    <2>4. g ++ (m ++ d) = (g ++ m) ++ d
      <3>. HIDE DEF g
      <3>. QED BY <1>1, <1>2, <2>1, Regroups
    <2>. QED BY <2>2, <2>3, <2>4
  <1>. QED BY <1>8, <1>9 DEF p, m, UpToLast

KeyWord(key) == Quoted(<<key>>)

\* What attestation_payload_hash is called with: only the id of the condition
\* can hold a quote.
AttestedPayloads ==
    [condition_id : Seq(Symbols), confidence_bps : Seq(Symbols \ Punctuation),
     result : Seq(Symbols \ Punctuation), signed_at : Seq(Symbols \ {Quote})]

\* The four values as they are put into the text: neither number nor bool holds a colon,
\* nor a timestamp a quote.
LEMMA PayloadIs ==
    ASSUME NEW p \in AttestedPayloads
    PROVE  /\ p.condition_id \in Words
           /\ p.confidence_bps \in Seq(Symbols \ {Colon}) /\ p.confidence_bps \in Words
           /\ p.result \in Seq(Symbols \ {Colon}) /\ p.result \in Words
           /\ p.signed_at \in Seq(Symbols \ {Quote}) /\ p.signed_at \in Words
           /\ Quoted(p.condition_id) \in Words
           /\ Quoted(p.signed_at) = (Mark(Quote) ++ p.signed_at) ++ Mark(Quote)
           /\ Quoted(p.condition_id) = (Mark(Quote) ++ p.condition_id) ++ Mark(Quote)
           /\ p = [condition_id |-> p.condition_id, confidence_bps |-> p.confidence_bps,
                   result |-> p.result, signed_at |-> p.signed_at]
  <1>1. /\ p.condition_id \in Seq(Symbols) /\ p.confidence_bps \in Seq(Symbols \ Punctuation)
        /\ p.result \in Seq(Symbols \ Punctuation) /\ p.signed_at \in Seq(Symbols \ {Quote})
        /\ p = [condition_id |-> p.condition_id, confidence_bps |-> p.confidence_bps,
                result |-> p.result, signed_at |-> p.signed_at]
    BY DEF AttestedPayloads
  <1>2. Colon \in Punctuation
    BY Marks
  <1>3. Symbols \ Punctuation \subseteq Symbols \ {Colon} /\ Symbols \ {Colon} \subseteq Symbols
        /\ Symbols \ {Quote} \subseteq Symbols
    BY <1>2
  <1>4. /\ p.condition_id \in Words
        /\ p.confidence_bps \in Seq(Symbols \ {Colon}) /\ p.confidence_bps \in Words
        /\ p.result \in Seq(Symbols \ {Colon}) /\ p.result \in Words
        /\ p.signed_at \in Words
    BY <1>1, <1>3 DEF Words
  <1>5. Quoted(p.condition_id) \in Words
    BY <1>4, QuotedIs
  <1>6. /\ Quoted(p.signed_at) = (Mark(Quote) ++ p.signed_at) ++ Mark(Quote)
        /\ Quoted(p.condition_id) = (Mark(Quote) ++ p.condition_id) ++ Mark(Quote)
    BY DEF Quoted, Mark, ++
  <1>. QED BY <1>1, <1>4, <1>5, <1>6

\* The four keys.
LEMMA KeyWords ==
    /\ KeyWord("condition_id") \in Words /\ KeyWord("confidence_bps") \in Words
    /\ KeyWord("result") \in Words /\ KeyWord("signed_at") \in Words
  <1>1. /\ <<"condition_id">> \in Words /\ <<"confidence_bps">> \in Words
        /\ <<"result">> \in Words /\ <<"signed_at">> \in Words
    BY SigningAssumption DEF Words
  <1>. QED BY <1>1, QuotedIs DEF KeyWord

\* The text, field by field.
LEMMA AttestationTextIs ==
    ASSUME NEW p \in AttestedPayloads
    PROVE  /\ FourWords(Field(Colon, KeyWord("condition_id"), Quoted(p.condition_id)),
                        Field(Colon, KeyWord("confidence_bps"), p.confidence_bps),
                        Field(Colon, KeyWord("result"), p.result),
                        Field(Colon, KeyWord("signed_at"), Quoted(p.signed_at)))
           /\ AttestationText(p) =
                 (Mark(LeftBrace)
                    ++ (UpToLast(Field(Colon, KeyWord("condition_id"), Quoted(p.condition_id)),
                                 Field(Colon, KeyWord("confidence_bps"), p.confidence_bps),
                                 Field(Colon, KeyWord("result"), p.result))
                          ++ Field(Colon, KeyWord("signed_at"), Quoted(p.signed_at))))
                    ++ Mark(RightBrace)
  <1>. DEFINE a == Field(Colon, KeyWord("condition_id"), Quoted(p.condition_id))
              b == Field(Colon, KeyWord("confidence_bps"), p.confidence_bps)
              c == Field(Colon, KeyWord("result"), p.result)
              d == Field(Colon, KeyWord("signed_at"), Quoted(p.signed_at))
  <1>1. /\ Colon \in Symbols /\ Quoted(p.condition_id) \in Words /\ p.confidence_bps \in Words
        /\ p.result \in Words /\ p.signed_at \in Words
    BY PayloadIs, Marks
  <1>2. Quoted(p.signed_at) \in Words /\ <<>> \in Words
    BY <1>1, QuotedIs, NothingFollows
  <1>3. FourWords(a, b, c, d)
    <2>1. a \in Words
      BY <1>1, <1>2, KeyWords, FieldIs
    <2>2. b \in Words
      BY <1>1, <1>2, KeyWords, FieldIs
    <2>3. c \in Words
      BY <1>1, <1>2, KeyWords, FieldIs
    <2>4. d \in Words
      BY <1>1, <1>2, KeyWords, FieldIs
    <2>. HIDE DEF a, b, c, d
    <2>. QED BY <2>1, <2>2, <2>3, <2>4 DEF FourWords
  <1>4. /\ Member("condition_id", Quoted(p.condition_id)) = a
        /\ Member("confidence_bps", p.confidence_bps) = b
        /\ Member("result", p.result) = c
        /\ Member("signed_at", Quoted(p.signed_at)) = d
    BY DEF Member, KeyWord, Field, Mark, ++
  <1>5. AttestationText(p) = (<<LeftBrace>> ++ Joined(<<a, b, c, d>>)) ++ <<RightBrace>>
    BY Zenon, <1>4 DEF AttestationText, ++
  <1>. HIDE DEF a, b, c, d
  <1>6. Joined(<<a, b, c, d>>) = UpToLast(a, b, c) ++ d
    BY <1>3, JoinedFour
  <1>7. AttestationText(p) = (Mark(LeftBrace) ++ (UpToLast(a, b, c) ++ d)) ++ Mark(RightBrace)
    BY <1>5, <1>6 DEF Mark
  <1>. QED BY <1>3, <1>7 DEF a, b, c, d

\* What is between the braces, up to its last field.
LEMMA UpToLastIs ==
    ASSUME NEW a, NEW b, NEW c, NEW d, FourWords(a, b, c, d)
    PROVE  /\ Mark(Comma) \in Words /\ a ++ Mark(Comma) \in Words
           /\ (a ++ Mark(Comma)) ++ b \in Words
           /\ ((a ++ Mark(Comma)) ++ b) ++ Mark(Comma) \in Words
           /\ (((a ++ Mark(Comma)) ++ b) ++ Mark(Comma)) ++ c \in Words
           /\ UpToLast(a, b, c) \in Words
           /\ UpToLast(a, b, c) ++ d \in Words
  <1>1. a \in Words /\ b \in Words /\ c \in Words /\ d \in Words /\ Mark(Comma) \in Words
    BY Closing DEF FourWords, Mark, Words
  <1>2. a ++ Mark(Comma) \in Words
    BY <1>1, Joins
  <1>3. (a ++ Mark(Comma)) ++ b \in Words
    BY <1>1, <1>2, Joins
  <1>4. ((a ++ Mark(Comma)) ++ b) ++ Mark(Comma) \in Words
    BY <1>1, <1>3, Joins
  <1>5. (((a ++ Mark(Comma)) ++ b) ++ Mark(Comma)) ++ c \in Words
    BY <1>1, <1>4, Joins
  <1>6. UpToLast(a, b, c) \in Words
    BY <1>1, <1>5, Joins DEF UpToLast
  <1>7. UpToLast(a, b, c) ++ d \in Words
    BY <1>1, <1>6, Joins
  <1>. QED BY <1>1, <1>2, <1>3, <1>4, <1>5, <1>6, <1>7

\* A quoted text at the end, behind its key.
SameQuotedField(k, g, t, h, u) ==
    /\ k \in Words /\ g \in Words /\ h \in Words
    /\ t \in Seq(Symbols \ {Quote}) /\ u \in Seq(Symbols \ {Quote})
    /\ g ++ Field(Colon, k, (Mark(Quote) ++ t) ++ Mark(Quote))
         = h ++ Field(Colon, k, (Mark(Quote) ++ u) ++ Mark(Quote))

\* A quoted value is a value behind a key that ends with a colon, and before a quote.
LEMMA QuotedFieldIs ==
    ASSUME NEW k \in Words, NEW g \in Words, NEW t \in Words
    PROVE  /\ Mark(Quote) \in Words /\ Mark(Colon) \in Words /\ k ++ Mark(Colon) \in Words
           /\ g ++ Field(Quote, k ++ Mark(Colon), t) \in Words
           /\ g ++ Field(Colon, k, (Mark(Quote) ++ t) ++ Mark(Quote))
                = (g ++ Field(Quote, k ++ Mark(Colon), t)) ++ Mark(Quote)
  <1>. DEFINE q == Mark(Quote)
              kc == k ++ Mark(Colon)
  <1>1. q \in Words /\ Mark(Colon) \in Words
    BY QuoteIsSymbol, Marks DEF Mark, Words
  <1>2. kc \in Words
    BY <1>1, Joins
  <1>. HIDE DEF q, kc
  <1>3. q ++ t \in Words /\ kc ++ q \in Words
    BY <1>1, <1>2, Joins
  <1>4. kc ++ ((q ++ t) ++ q) = (kc ++ (q ++ t)) ++ q
    BY <1>1, <1>2, <1>3, Regroups
  <1>5. kc ++ (q ++ t) = (kc ++ q) ++ t
    BY <1>1, <1>2, Regroups
  <1>. DEFINE f == (kc ++ q) ++ t
  <1>6. f \in Words
    BY <1>3, Joins
  <1>7. Field(Quote, kc, t) = f /\ Field(Colon, k, (q ++ t) ++ q) = f ++ q
    BY <1>4, <1>5 DEF Field, q, kc
  <1>. HIDE DEF f
  <1>8. g ++ (f ++ q) = (g ++ f) ++ q /\ g ++ f \in Words
    BY <1>1, <1>6, Regroups, Joins
  <1>. QED BY <1>1, <1>2, <1>7, <1>8 DEF q, kc

\* It can be read from the end, if there is no quote in it.
LEMMA LastQuotedField ==
    ASSUME NEW k, NEW g, NEW t, NEW h, NEW u, SameQuotedField(k, g, t, h, u)
    PROVE  g = h /\ t = u
  <1>1. /\ k \in Words /\ g \in Words /\ h \in Words /\ t \in Words /\ u \in Words
        /\ t \in Seq(Symbols \ {Quote}) /\ u \in Seq(Symbols \ {Quote})
    BY DEF SameQuotedField, Words
  <1>2. (g ++ Field(Quote, k ++ Mark(Colon), t)) ++ Mark(Quote) = (h ++ Field(Quote, k ++ Mark(Colon), u)) ++ Mark(Quote)
    BY <1>1, QuotedFieldIs DEF SameQuotedField
  <1>3. /\ g ++ Field(Quote, k ++ Mark(Colon), t) \in Words /\ h ++ Field(Quote, k ++ Mark(Colon), u) \in Words
        /\ Mark(Quote) \in Words /\ k ++ Mark(Colon) \in Words
    BY <1>1, QuotedFieldIs
  <1>4. g ++ Field(Quote, k ++ Mark(Colon), t) = h ++ Field(Quote, k ++ Mark(Colon), u)
    BY ONLY <1>2, <1>3, SameBack
  <1>5. SameField(Quote, k ++ Mark(Colon), g, t, h, u)
    BY <1>1, <1>3, <1>4, QuoteIsSymbol DEF SameField
  <1>. QED BY ONLY <1>5, LastField

\* The text of an attestation says what is attested, even of a condition with
\* quotes in its id: it can be read from its end.
LEMMA AttestationTextExact ==
    ASSUME NEW p \in AttestedPayloads, NEW q \in AttestedPayloads, AttestationText(p) = AttestationText(q)
    PROVE  p = q
  <1>. DEFINE cm == Mark(Comma)
              k1 == KeyWord("condition_id")
              k2 == KeyWord("confidence_bps")
              k3 == KeyWord("result")
              k4 == KeyWord("signed_at")
              a == Field(Colon, k1, Quoted(p.condition_id))
              b == Field(Colon, k2, p.confidence_bps)
              c == Field(Colon, k3, p.result)
              d == Field(Colon, k4, Quoted(p.signed_at))
              aa == Field(Colon, k1, Quoted(q.condition_id))
              bb == Field(Colon, k2, q.confidence_bps)
              cc == Field(Colon, k3, q.result)
              dd == Field(Colon, k4, Quoted(q.signed_at))
              g == UpToLast(a, b, c)
              h == UpToLast(aa, bb, cc)
  <1>1. FourWords(a, b, c, d) /\ FourWords(aa, bb, cc, dd)
    BY AttestationTextIs
  <1>2. /\ AttestationText(p) = (Mark(LeftBrace) ++ (g ++ d)) ++ Mark(RightBrace)
        /\ AttestationText(q) = (Mark(LeftBrace) ++ (h ++ dd)) ++ Mark(RightBrace)
    BY AttestationTextIs
  <1>3. /\ k1 \in Words /\ k2 \in Words /\ k3 \in Words /\ k4 \in Words
        /\ Colon \in Symbols /\ Mark(LeftBrace) \in Words /\ Mark(RightBrace) \in Words
        /\ Mark(Quote) \in Words /\ Mark(Colon) \in Words
    BY KeyWords, Marks DEF Mark, Words
  <1>4. /\ Quoted(p.signed_at) = (Mark(Quote) ++ p.signed_at) ++ Mark(Quote)
        /\ Quoted(q.signed_at) = (Mark(Quote) ++ q.signed_at) ++ Mark(Quote)
        /\ p.signed_at \in Seq(Symbols \ {Quote}) /\ q.signed_at \in Seq(Symbols \ {Quote})
        /\ p.result \in Seq(Symbols \ {Colon}) /\ q.result \in Seq(Symbols \ {Colon})
        /\ p.confidence_bps \in Seq(Symbols \ {Colon}) /\ q.confidence_bps \in Seq(Symbols \ {Colon})
    BY PayloadIs
  <1>. HIDE DEF k1, k2, k3, k4
  <1>5. /\ cm \in Words
        /\ a ++ cm \in Words /\ aa ++ cm \in Words
        /\ (a ++ cm) ++ b \in Words /\ (aa ++ cm) ++ bb \in Words
        /\ ((a ++ cm) ++ b) ++ cm \in Words /\ ((aa ++ cm) ++ bb) ++ cm \in Words
        /\ (((a ++ cm) ++ b) ++ cm) ++ c \in Words /\ (((aa ++ cm) ++ bb) ++ cm) ++ cc \in Words
        /\ g \in Words /\ h \in Words /\ g ++ d \in Words /\ h ++ dd \in Words
    BY <1>1, UpToLastIs
  <1>6. g ++ d = h ++ dd
    <2>. HIDE DEF g, h, d, dd
    <2>1. Mark(LeftBrace) ++ (g ++ d) \in Words /\ Mark(LeftBrace) ++ (h ++ dd) \in Words
      BY ONLY <1>3, <1>5, Joins
    <2>2. (Mark(LeftBrace) ++ (g ++ d)) ++ Mark(RightBrace) = (Mark(LeftBrace) ++ (h ++ dd)) ++ Mark(RightBrace)
      BY <1>2
    <2>3. Mark(LeftBrace) ++ (g ++ d) = Mark(LeftBrace) ++ (h ++ dd)
      BY ONLY <1>3, <2>1, <2>2, SameBack
    <2>. QED BY ONLY <1>3, <1>5, <2>3, SameFront
  <1>7. g = h /\ p.signed_at = q.signed_at
    <2>1. SameQuotedField(k4, g, p.signed_at, h, q.signed_at)
      BY <1>3, <1>4, <1>5, <1>6 DEF SameQuotedField
    <2>. QED BY ONLY <2>1, LastQuotedField
  <1>8. (((a ++ cm) ++ b) ++ cm) ++ c = (((aa ++ cm) ++ bb) ++ cm) ++ cc
    <2>1. ((((a ++ cm) ++ b) ++ cm) ++ c) ++ cm = ((((aa ++ cm) ++ bb) ++ cm) ++ cc) ++ cm
      BY <1>7 DEF UpToLast
    <2>. HIDE DEF a, b, c, aa, bb, cc, cm
    <2>. QED BY ONLY <1>5, <2>1, SameBack
  <1>9. ((a ++ cm) ++ b) ++ cm = ((aa ++ cm) ++ bb) ++ cm /\ p.result = q.result
    <2>1. SameField(Colon, k3, ((a ++ cm) ++ b) ++ cm, p.result, ((aa ++ cm) ++ bb) ++ cm, q.result)
      BY <1>3, <1>4, <1>5, <1>8 DEF SameField
    <2>. QED BY ONLY <2>1, LastField
  <1>10. (a ++ cm) ++ b = (aa ++ cm) ++ bb
    <2>. HIDE DEF a, b, aa, bb, cm
    <2>. QED BY ONLY <1>5, <1>9, SameBack
  <1>11. a ++ cm = aa ++ cm /\ p.confidence_bps = q.confidence_bps
    <2>1. SameField(Colon, k2, a ++ cm, p.confidence_bps, aa ++ cm, q.confidence_bps)
      BY <1>3, <1>4, <1>5, <1>10 DEF SameField
    <2>. QED BY ONLY <2>1, LastField
  <1>12. a = aa
    <2>1. a \in Words /\ aa \in Words
      BY <1>1 DEF FourWords
    <2>. HIDE DEF a, aa, cm
    <2>. QED BY ONLY <1>5, <1>11, <2>1, SameBack
  <1>13. p.condition_id = q.condition_id
    <2>1. /\ p.condition_id \in Words /\ q.condition_id \in Words
          /\ Quoted(p.condition_id) \in Words /\ Quoted(q.condition_id) \in Words
          /\ Quoted(p.condition_id) = (Mark(Quote) ++ p.condition_id) ++ Mark(Quote)
          /\ Quoted(q.condition_id) = (Mark(Quote) ++ q.condition_id) ++ Mark(Quote)
      BY PayloadIs
    <2>2. k1 ++ Mark(Colon) \in Words
      BY <1>3, Joins
    <2>3. (k1 ++ Mark(Colon)) ++ Quoted(p.condition_id) = (k1 ++ Mark(Colon)) ++ Quoted(q.condition_id)
      BY <1>12 DEF Field
    <2>4. Quoted(p.condition_id) = Quoted(q.condition_id)
      BY ONLY <2>1, <2>2, <2>3, SameFront
    <2>5. Mark(Quote) ++ p.condition_id \in Words /\ Mark(Quote) ++ q.condition_id \in Words
      BY <1>3, <2>1, Joins
    <2>6. Mark(Quote) ++ p.condition_id = Mark(Quote) ++ q.condition_id
      BY ONLY <1>3, <2>1, <2>4, <2>5, SameBack
    <2>. QED BY ONLY <1>3, <2>1, <2>6, SameFront
  <1>14. /\ p = [condition_id |-> p.condition_id, confidence_bps |-> p.confidence_bps,
                 result |-> p.result, signed_at |-> p.signed_at]
         /\ q = [condition_id |-> q.condition_id, confidence_bps |-> q.confidence_bps,
                 result |-> q.result, signed_at |-> q.signed_at]
    BY PayloadIs
  <1>. QED BY ONLY <1>7, <1>9, <1>11, <1>13, <1>14
----------------------------------------------------------------------------
(***************************************************************************)
(* What carriers do to a document.                                         *)
(***************************************************************************)

ReversedMembers(v, below) ==
    Reverse([i \in DOMAIN v.members |-> <<v.members[i][1], below[v.members[i][2]]>>])

\* Reordering a value of each kind, from the reordered values below it.
LEMMA ReorderedFromIs ==
    ASSUME NEW v, NEW below
    PROVE  /\ v.kind = "object" => ReorderedFrom(v, below) = Obj(ReversedMembers(v, below))
           /\ v.kind = "array" => ReorderedFrom(v, below) = Arr(MappedItems(v, below))
           /\ v.kind \in {"scalar", "string"} => ReorderedFrom(v, below) = v
  <1>1. v.kind = "object" => ReorderedFrom(v, below) = Obj(ReversedMembers(v, below))
    BY Zenon DEF ReorderedFrom, ReversedMembers
  <1>2. v.kind = "array" => ReorderedFrom(v, below) = Arr(MappedItems(v, below))
    BY Zenon DEF ReorderedFrom, MappedItems
  <1>3. v.kind = "scalar" => ReorderedFrom(v, below) = v
    BY Zenon DEF ReorderedFrom
  <1>4. v.kind = "string" => ReorderedFrom(v, below) = v
    BY Zenon DEF ReorderedFrom
  <1>. QED BY <1>1, <1>2, <1>3, <1>4

\* The members in the opposite order are those of an object again.
LEMMA ReversedAre ==
    ASSUME NEW S, NEW v, v.members \in MembersOver(S), NEW below, Maps(below, S, S)
    PROVE  ReversedMembers(v, below) \in MembersOver(S)
  <1>. DEFINE n == Len(v.members)
              f == [i \in 1..n |-> <<v.members[i][1], below[v.members[i][2]]>>]
              r == [i \in 1..n |-> f[(n - i) + 1]]
  <1>1. /\ n \in Nat /\ DOMAIN v.members = 1..n
        /\ \A i \in 1..n : v.members[i][1] \in DocumentKeys /\ v.members[i][2] \in S
        /\ \A i, j \in 1..n : v.members[i][1] = v.members[j][1] => i = j
    BY MembersAre
  <1>2. \A i \in 1..n : below[v.members[i][2]] \in S
    BY <1>1 DEF Maps
  <1>3. f \in Seq(DocumentKeys \X S) /\ Len(f) = n
    BY <1>1, <1>2
  <1>4. ReversedMembers(v, below) = r
    <2>1. ReversedMembers(v, below) = Reverse(f)
      BY <1>1 DEF ReversedMembers
    <2>. HIDE DEF f, n
    <2>. QED BY <1>3, <2>1 DEF Reverse
  <1>5. \A i \in 1..n : f[i][1] = v.members[i][1]
    OBVIOUS
  <1>6. \A i, j \in 1..n : f[i][1] = f[j][1] => i = j
    BY <1>1, <1>5
  <1>. HIDE DEF f, n
  <1>7. \A i \in 1..n : (n - i) + 1 \in 1..n /\ f[(n - i) + 1] \in DocumentKeys \X S
    BY <1>1, <1>3
  <1>8. r \in Seq(DocumentKeys \X S) /\ DOMAIN r = 1..n
    BY <1>1, <1>7
  <1>9. \A i, j \in 1..n : r[i][1] = r[j][1] => i = j
    <2>1. \A i \in 1..n : r[i] = f[(n - i) + 1]
      OBVIOUS
    <2>2. ASSUME NEW i \in 1..n, NEW j \in 1..n, r[i][1] = r[j][1] PROVE i = j
      <3>1. (n - i) + 1 = (n - j) + 1
        BY <1>6, <1>7, <2>1, <2>2
      <3>. QED BY <1>1, <3>1
    <2>. QED BY <2>2
  <1>. HIDE DEF r
  <1>10. r \in MembersOver(S)
    BY <1>8, <1>9 DEF MembersOver
  <1>. QED BY <1>4, <1>10

\* Reordering a value gives one of its kind,
LEMMA ReorderedIsValue ==
    ASSUME NEW S, NEW below, Maps(below, S, S), NEW v \in Over(S)
    PROVE  ReorderedFrom(v, below) \in Over(S) /\ ReorderedFrom(v, below).kind = v.kind
  <1>1. CASE v.kind = "object"
    <2>1. v.members \in MembersOver(S)
      BY <1>1, Shapes
    <2>2. ReversedMembers(v, below) \in MembersOver(S)
      BY <2>1, ReversedAre
    <2>3. Obj(ReversedMembers(v, below)) \in Over(S) /\ Obj(ReversedMembers(v, below)).kind = "object"
      BY <2>2, ShapesOver DEF Obj
    <2>. QED BY <1>1, <2>3, ReorderedFromIs
  <1>2. CASE v.kind = "array"
    <2>1. v.items \in Seq(S)
      BY <1>2, Shapes
    <2>2. MappedItems(v, below) \in Seq(S)
      BY <2>1, MappedItemsAre
    <2>3. Arr(MappedItems(v, below)) \in Over(S) /\ Arr(MappedItems(v, below)).kind = "array"
      BY <2>2, ShapesOver DEF Arr
    <2>. QED BY <1>2, <2>3, ReorderedFromIs
  <1>3. CASE v.kind \in {"scalar", "string"}
    BY <1>3, ReorderedFromIs
  <1>. QED BY <1>1, <1>2, <1>3, Shapes

Keeps(f, S) == \A v \in S : f[v] \in S /\ f[v].kind = v.kind

\* and of its level.
LEMMA ReorderedKeeps ==
    ASSUME NEW n \in 0..MaxDepth
    PROVE  Keeps(ReorderedAt[n], Values[n])
  <1>. DEFINE T == {k \in 0..MaxDepth : Keeps(ReorderedAt[k], Values[k])}
  <1>1. ASSUME NEW k \in 0..MaxDepth, k # 0 => k - 1 \in T PROVE k \in T
    <2>. DEFINE b == IF k = 0 THEN <<>> ELSE ReorderedAt[k - 1]
                f == ReorderedAt[k]
    <2>1. Values[k] = Over(Below(k)) /\ f = [v \in Values[k] |-> ReorderedFrom(v, b)]
      BY ValuesDef, ReorderedDef
    <2>2. Maps(b, Below(k), Below(k))
      BY <1>1 DEF Below, Keeps, Maps
    <2>. HIDE DEF b, f
    <2>3. \A v \in Values[k] : ReorderedFrom(v, b) \in Values[k] /\ ReorderedFrom(v, b).kind = v.kind
      BY <2>1, <2>2, ReorderedIsValue
    <2>4. Keeps(f, Values[k])
      BY <2>1, <2>3 DEF Keeps
    <2>. QED BY <2>4 DEF f
  <1>2. Inherited(T)
    BY <1>1 DEF Inherited
  <1>. HIDE DEF T
  <1>3. n \in T
    BY <1>2, Inherits
  <1>. QED BY <1>3 DEF T
----------------------------------------------------------------------------
(***************************************************************************)
(* Identifiers.                                                            *)
(***************************************************************************)

Half == HexLen \div 2
HexOfByte == LowerHex \X LowerHex
Digits(bytes) == [i \in 1..HexLen |-> bytes[(i + 1) \div 2][IF i % 2 = 1 THEN 1 ELSE 2]]

\* generate() returns the digits of some bytes behind the prefix.
LEMMA GeneratedIs ==
    ASSUME NEW prefix
    PROVE  Generated(prefix) = {IdText(prefix, Digits(bytes)) : bytes \in [1..Half -> HexOfByte]}
  BY DEF Generated, Digits, Half, HexOfByte

\* Two digits to a byte: where each digit is in its byte.
LEMMA Halves ==
    /\ HexLen \in Nat /\ Half \in Nat
    /\ \A i \in 1..HexLen : (i + 1) \div 2 \in 1..Half /\ (i % 2 = 1 \/ i % 2 = 0)
    /\ \A j \in 1..Half : 2 * j \in 1..HexLen /\ 2 * j - 1 \in 1..HexLen
    /\ \A i \in 1..HexLen : (i % 2 = 1 => 2 * ((i + 1) \div 2) - 1 = i) /\ (i % 2 = 0 => 2 * ((i + 1) \div 2) = i)
  <1>1. HexLen \in Nat /\ HexLen % 2 = 0
    BY IdentifiersAssumption
  <1>2. HexLen = 2 * Half /\ Half \in Nat
    BY <1>1 DEF Half
  <1>3. \A i \in 1..HexLen : (i + 1) \div 2 \in 1..Half /\ (i % 2 = 1 \/ i % 2 = 0)
    BY <1>1, <1>2
  <1>4. \A j \in 1..Half : 2 * j \in 1..HexLen /\ 2 * j - 1 \in 1..HexLen
    BY <1>1, <1>2
  <1>5. \A i \in 1..HexLen : (i % 2 = 1 => 2 * ((i + 1) \div 2) - 1 = i) /\ (i % 2 = 0 => 2 * ((i + 1) \div 2) = i)
    BY <1>1
  <1>. QED BY <1>1, <1>2, <1>3, <1>4, <1>5

\* What generate() returns has as many digits as an id, and nothing but digits.
LEMMA DigitsAre ==
    ASSUME NEW bytes \in [1..Half -> HexOfByte]
    PROVE  Digits(bytes) \in [1..HexLen -> LowerHex]
  <1>1. ASSUME NEW i \in 1..HexLen
        PROVE  bytes[(i + 1) \div 2][IF i % 2 = 1 THEN 1 ELSE 2] \in LowerHex
    <2>1. bytes[(i + 1) \div 2] \in LowerHex \X LowerHex
      BY Halves DEF HexOfByte
    <2>. QED BY <2>1
  <1>. QED BY <1>1 DEF Digits

\* new() returns Ok for exactly what generate() can return: whatever HexLen digits there
\* are, some bytes have them.
LEMMA GeneratedExact ==
    ASSUME NEW prefix, NEW id, id = IdText(id.prefix, id.rest), NEW S, id.rest \in Seq(S)
    PROVE  NewIdOk(prefix, id) <=> id \in Generated(prefix)
  <1>1. HexLen \in Nat
    BY Halves
  <1>2. ASSUME id \in Generated(prefix) PROVE NewIdOk(prefix, id)
    <2>1. PICK bytes \in [1..Half -> HexOfByte] : id = IdText(prefix, Digits(bytes))
      BY <1>2, GeneratedIs
    <2>2. id.prefix = prefix /\ id.rest = Digits(bytes)
      BY <2>1 DEF IdText
    <2>3. id.rest \in [1..HexLen -> LowerHex]
      BY <2>2, DigitsAre
    <2>4. Len(id.rest) = HexLen /\ DOMAIN id.rest = 1..HexLen
      BY <1>1, <2>3
    <2>. QED BY <2>2, <2>3, <2>4 DEF NewIdOk
  <1>3. ASSUME NewIdOk(prefix, id) PROVE id \in Generated(prefix)
    <2>. DEFINE rest == id.rest
                bytes == [j \in 1..Half |-> <<rest[2 * j - 1], rest[2 * j]>>]
    <2>1. /\ id.prefix = prefix /\ DOMAIN rest = 1..HexLen
          /\ \A i \in 1..HexLen : rest[i] \in LowerHex
      BY <1>3 DEF NewIdOk
    <2>2. rest = [i \in 1..HexLen |-> rest[i]]
      <3>1. rest \in [1..Len(rest) -> S] /\ DOMAIN rest = 1..Len(rest)
        OBVIOUS
      <3>. HIDE DEF rest
      <3>. QED BY <2>1, <3>1
    <2>. HIDE DEF rest
    <2>3. bytes \in [1..Half -> HexOfByte]
      BY <2>1, Halves DEF HexOfByte
    <2>4. ASSUME NEW i \in 1..HexLen
          PROVE  bytes[(i + 1) \div 2][IF i % 2 = 1 THEN 1 ELSE 2] = rest[i]
      <3>. DEFINE j == (i + 1) \div 2
      <3>1. j \in 1..Half /\ (i % 2 = 1 => 2 * j - 1 = i) /\ (i % 2 = 0 => 2 * j = i) /\ (i % 2 = 1 \/ i % 2 = 0)
        BY Halves
      <3>. HIDE DEF j
      <3>2. bytes[j] = <<rest[2 * j - 1], rest[2 * j]>>
        BY <3>1
      <3>3. CASE i % 2 = 1
        BY <3>1, <3>2, <3>3 DEF j
      <3>4. CASE i % 2 = 0
        BY <3>1, <3>2, <3>4 DEF j
      <3>. QED BY <3>1, <3>3, <3>4
    <2>5. Digits(bytes) = rest
      BY <2>2, <2>4 DEF Digits
    <2>6. id = IdText(prefix, Digits(bytes))
      BY <2>1, <2>5 DEF rest
    <2>. HIDE DEF bytes
    <2>. QED BY <2>3, <2>6, GeneratedIs
  <1>. QED BY <1>2, <1>3

\* An id is a text.
IdTextsOverSymbols == [prefix : Symbols, rest : Seq(Symbols)]

\* A generated id is one of these texts.
LEMMA GeneratedAreTexts ==
    ASSUME NEW prefix \in IdPrefixes
    PROVE  Generated(prefix) \subseteq IdTextsOverSymbols
  <1>1. LowerHex \subseteq Symbols /\ prefix \in Symbols /\ HexLen \in Nat
    BY ReceiptExchangeAssumption, Halves
  <1>2. ASSUME NEW bytes \in [1..Half -> HexOfByte]
        PROVE  IdText(prefix, Digits(bytes)) \in IdTextsOverSymbols
    <2>1. Digits(bytes) \in [1..HexLen -> LowerHex]
      BY DigitsAre
    <2>2. Digits(bytes) \in Seq(Symbols)
      BY <1>1, <2>1
    <2>. QED BY <1>1, <2>2 DEF IdText, IdTextsOverSymbols
  <1>. QED BY <1>2, GeneratedIs
----------------------------------------------------------------------------
(***************************************************************************)
(* What hosts make: receipts and attestations.                             *)
(***************************************************************************)

Docs == Values[MaxDepth - 1]

\* Documents are values one level below a receipt's content, and texts are documents.
LEMMA DocsAre ==
    /\ Docs = Over(Values[MaxDepth - 2]) /\ Values[MaxDepth] = Over(Docs)
    /\ Docs \subseteq Values[MaxDepth]
    /\ \A text \in Words : Str(text) \in Docs /\ Str(text) \in Values[MaxDepth - 2]
  <1>1. MaxDepth \in Nat /\ MaxDepth > 1
    BY CanonicalFormAssumption, ReceiptExchangeAssumption
  <1>2. /\ MaxDepth \in 0..MaxDepth /\ MaxDepth - 1 \in 0..MaxDepth /\ MaxDepth - 2 \in 0..MaxDepth
        /\ MaxDepth # 0 /\ MaxDepth - 1 # 0 /\ (MaxDepth - 1) - 1 = MaxDepth - 2 /\ MaxDepth \in 1..MaxDepth
    BY <1>1
  <1>3. Docs = Over(Values[MaxDepth - 2]) /\ Values[MaxDepth] = Over(Docs)
    BY <1>2, ValuesDef DEF Docs, Below
  <1>4. Docs \subseteq Values[MaxDepth]
    BY <1>2, ValuesGrow DEF Docs
  <1>5. ASSUME NEW text \in Words PROVE Str(text) \in Docs /\ Str(text) \in Values[MaxDepth - 2]
    <2>1. Values[MaxDepth - 2] = Over(Below(MaxDepth - 2))
      BY <1>2, ValuesDef
    <2>. QED BY <1>3, <2>1, ShapesOver
  <1>. QED BY <1>3, <1>4, <1>5

\* A digest is a text, and that of one text only.
LEMMA DigestIs ==
    ASSUME NEW t \in Words
    PROVE  /\ Digest(t) \in Words
           /\ Sha256(t) = [prefix |-> "sha256:", codec |-> "hex", bytes |-> Digest(t), whole |-> TRUE]
           /\ \A u \in Words : Digest(t) = Digest(u) => t = u
           /\ \A u \in Words : Sha256(t) = Sha256(u) => t = u
  <1>1. <<"sha256">> \in Words
    BY ReceiptExchangeAssumption DEF Words
  <1>2. \A u : Digest(u) = <<"sha256">> ++ u
    BY DEF Digest, ++
  <1>3. Digest(t) \in Words
    BY <1>1, <1>2, Joins
  <1>4. \A u \in Words : Digest(t) = Digest(u) => t = u
    BY <1>1, <1>2, SameFront
  <1>5. \A u : Sha256(u) = [prefix |-> "sha256:", codec |-> "hex", bytes |-> Digest(u), whole |-> TRUE]
    BY DEF Sha256, Wire
  <1>6. ASSUME NEW u \in Words, Sha256(t) = Sha256(u) PROVE t = u
    <2>1. Digest(t) = Digest(u)
      BY <1>5, <1>6
    <2>. QED BY <1>4, <2>1
  <1>. QED BY <1>3, <1>4, <1>5, <1>6

\* The rules block of a receipt is a document, and an object.
LEMMA RulesAre ==
    ASSUME NEW policy \in Docs
    PROVE  RulesApplied(policy) \in Docs /\ RulesApplied(policy).kind = "object"
  <1>. DEFINE str == Str(PolicyContentHash(policy).bytes)
              ms == <<<<<<"version_hash">>, str>>>>
              S == Values[MaxDepth - 2]
  <1>1. CanonicalJson(policy) \in Words
    BY DocsAre, CanonicalJsonIsWord
  <1>2. PolicyContentHash(policy).bytes = Digest(CanonicalJson(policy)) /\ Digest(CanonicalJson(policy)) \in Words
    BY <1>1, DigestIs DEF PolicyContentHash
  <1>3. str \in S
    BY <1>2, DocsAre
  <1>4. RulesApplied(policy) = Obj(ms)
    BY DEF RulesApplied
  <1>. HIDE DEF str, S
  <1>5. <<"version_hash">> \in DocumentKeys
    BY ReceiptExchangeAssumption
  <1>6. ms \in Seq(DocumentKeys \X S) /\ DOMAIN ms = 1..1
    BY <1>3, <1>5
  <1>7. ms \in MembersOver(S)
    BY <1>6 DEF MembersOver
  <1>8. Docs = Over(S)
    BY DocsAre DEF S
  <1>. HIDE DEF ms
  <1>. QED BY <1>4, <1>7, <1>8, ShapesOver DEF Obj

\* A message that has the parts of a decision.
HasContent(m) ==
    /\ m.verity_id \in IdTextsOverSymbols
    /\ m.policy \in Docs /\ m.input_state \in Docs /\ m.computation \in Docs
    /\ m.rules_applied \in Docs /\ m.rules_applied.kind = "object"
    /\ m.outcome \in Symbols
    /\ m.replay_hash.prefix \in Symbols /\ m.replay_hash.bytes \in Words

\* The content a receipt is signed over is a value a parser lets through.
LEMMA ContentIs ==
    ASSUME NEW m, HasContent(m)
    PROVE  DecisionContent(m) \in Values[MaxDepth] /\ DecisionContent(m).kind = "object"
  <1>. DEFINE id == Str(<<m.verity_id.prefix>> \o m.verity_id.rest)
              out == Str(<<m.outcome>>)
              hash == Str(<<m.replay_hash.prefix>> \o m.replay_hash.bytes)
              ms == << <<<<"verity_id">>, id>>, <<<<"input_state">>, m.input_state>>,
                       <<<<"rules_applied">>, m.rules_applied>>, <<<<"computation">>, m.computation>>,
                       <<<<"outcome">>, out>>, <<<<"replay_hash">>, hash>> >>
  <1>1. /\ <<m.verity_id.prefix>> \in Words /\ m.verity_id.rest \in Words /\ <<m.outcome>> \in Words
        /\ <<m.replay_hash.prefix>> \in Words /\ m.replay_hash.bytes \in Words
    BY DEF HasContent, IdTextsOverSymbols, Words
  <1>2. <<m.verity_id.prefix>> \o m.verity_id.rest \in Words /\ <<m.replay_hash.prefix>> \o m.replay_hash.bytes \in Words
    BY <1>1, ConcatProperties DEF Words
  <1>3. id \in Docs /\ out \in Docs /\ hash \in Docs
    BY <1>1, <1>2, DocsAre
  <1>4. DecisionContent(m) = Obj(ms)
    BY DEF DecisionContent
  <1>5. m.input_state \in Docs /\ m.rules_applied \in Docs /\ m.computation \in Docs
    BY DEF HasContent
  <1>. HIDE DEF id, out, hash
  <1>6. /\ <<"verity_id">> \in DocumentKeys /\ <<"input_state">> \in DocumentKeys
        /\ <<"rules_applied">> \in DocumentKeys /\ <<"computation">> \in DocumentKeys
        /\ <<"outcome">> \in DocumentKeys /\ <<"replay_hash">> \in DocumentKeys
    BY ReceiptExchangeAssumption
  <1>7. ms \in Seq(DocumentKeys \X Docs) /\ DOMAIN ms = 1..6
    BY <1>3, <1>5, <1>6
  <1>8. /\ ms[1][1] = <<"verity_id">> /\ ms[2][1] = <<"input_state">> /\ ms[3][1] = <<"rules_applied">>
        /\ ms[4][1] = <<"computation">> /\ ms[5][1] = <<"outcome">> /\ ms[6][1] = <<"replay_hash">>
    OBVIOUS
  <1>. HIDE DEF ms
  <1>9. \A i, j \in 1..6 : ms[i][1] = ms[j][1] => i = j
    <2>1. \A x, y : <<x>> = <<y>> => x = y
      OBVIOUS
    <2>2. \A i \in 1..6 : i \in {1, 2, 3, 4, 5, 6}
      OBVIOUS
    <2>. QED BY <1>8, <2>1, <2>2
  <1>10. ms \in MembersOver(Docs)
    BY <1>7, <1>9 DEF MembersOver
  <1>. QED BY <1>4, <1>10, DocsAre, ShapesOver DEF Obj

\* The text of three documents is a text.
LEMMA ReplayTextIs ==
    ASSUME NEW a \in Values[MaxDepth], NEW b \in Values[MaxDepth], NEW c \in Values[MaxDepth]
    PROVE  /\ ReplayText(a, b, c) \in Words
           /\ ReplayText(a, b, c) = CanonicalSerialize(a) ++ (CanonicalSerialize(b) ++ CanonicalSerialize(c))
           /\ CanonicalSerialize(b) ++ CanonicalSerialize(c) \in Words
  <1>. DEFINE x == CanonicalSerialize(a)
              y == CanonicalSerialize(b)
              z == CanonicalSerialize(c)
  <1>1. x \in Words /\ y \in Words /\ z \in Words
    BY CanonicalExact, NothingFollows
  <1>2. ReplayText(a, b, c) = (x ++ y) ++ z
    BY DEF ReplayText, ++
  <1>. HIDE DEF x, y, z
  <1>3. (x ++ y) ++ z = x ++ (y ++ z) /\ y ++ z \in Words
    BY <1>1, Regroups, Joins
  <1>4. x ++ (y ++ z) \in Words
    BY <1>1, <1>3, Joins
  <1>. QED BY <1>2, <1>3, <1>4 DEF x, y, z

DecisionsAre(d) ==
    /\ d.verity_id \in IdTextsOverSymbols
    /\ d.policy \in Docs /\ d.input_state \in Docs /\ d.computation \in Docs
    /\ d.outcome \in Symbols

\* A decision has the parts of one.
LEMMA DecisionIs ==
    ASSUME NEW d \in Decisions
    PROVE  DecisionsAre(d)
  <1>1. /\ d.verity_id \in Generated("vrt_")
        /\ d.policy \in Documents /\ d.input_state \in Documents /\ d.computation \in Documents
        /\ d.outcome \in Symbols
    BY ReceiptExchangeAssumption
  <1>2. Documents \subseteq Docs
    BY ReceiptExchangeAssumption DEF Docs
  <1>3. "vrt_" \in IdPrefixes
    BY DEF IdPrefixes
  <1>4. d.verity_id \in IdTextsOverSymbols
    BY <1>1, <1>3, GeneratedAreTexts
  <1>. QED BY <1>1, <1>2, <1>4 DEF DecisionsAre

ReceiptRecord(m) ==
    m = [kind |-> "receipt", signer |-> m.signer, signature |-> m.signature,
         verity_id |-> m.verity_id, policy |-> m.policy, input_state |-> m.input_state,
         rules_applied |-> m.rules_applied, computation |-> m.computation,
         outcome |-> m.outcome, replay_hash |-> m.replay_hash]

\* A receipt as its maker signed it.
Genuine(r) ==
    /\ ReceiptRecord(r) /\ r.signer \in Keys /\ HasContent(r)
    /\ r.signature = Sign(r.signer, DecisionContent(r))
    /\ r.replay_hash = ComputeReplayHash(r.input_state, r.rules_applied, r.computation)

\* What Receipt makes is genuine, whatever is decided.
LEMMA ReceiptIsGenuine ==
    ASSUME NEW key \in Keys, NEW d \in Decisions
    PROVE  Genuine(Receipt(key, d)) /\ Receipt(key, d).kind = "receipt"
  <1>. DEFINE rules == RulesApplied(d.policy)
              hash == ComputeReplayHash(d.input_state, rules, d.computation)
              record(signature) ==
                  [kind |-> "receipt", signer |-> key, signature |-> signature,
                   verity_id |-> d.verity_id, policy |-> d.policy,
                   input_state |-> d.input_state, rules_applied |-> rules,
                   computation |-> d.computation, outcome |-> d.outcome, replay_hash |-> hash]
              unsigned == record(<<>>)
              signature == Sign(key, DecisionContent(unsigned))
              r == record(signature)
  <1>1. Receipt(key, d) = r
    BY DEF Receipt
  <1>2. DecisionsAre(d)
    BY DecisionIs
  <1>3. rules \in Docs /\ rules.kind = "object"
    BY <1>2, RulesAre DEF DecisionsAre
  <1>4. hash.prefix \in Symbols /\ hash.bytes \in Words
    <2>1. ReplayText(d.input_state, rules, d.computation) \in Words
      BY <1>2, <1>3, DocsAre, ReplayTextIs DEF DecisionsAre
    <2>. DEFINE t == ReplayText(d.input_state, rules, d.computation)
    <2>2. hash = Sha256(t)
      BY DEF ComputeReplayHash
    <2>. HIDE DEF t, hash
    <2>3. hash.prefix = "sha256:" /\ hash.bytes = Digest(t) /\ Digest(t) \in Words
      BY <2>1, <2>2, DigestIs DEF t
    <2>. QED BY <2>3, ReceiptExchangeAssumption
  <1>. HIDE DEF rules, hash
  <1>5. /\ r.kind = "receipt" /\ r.signer = key /\ r.signature = signature /\ r.verity_id = d.verity_id
        /\ r.policy = d.policy /\ r.input_state = d.input_state /\ r.rules_applied = rules
        /\ r.computation = d.computation /\ r.outcome = d.outcome /\ r.replay_hash = hash
    OBVIOUS
  <1>6. /\ unsigned.verity_id = d.verity_id
        /\ unsigned.input_state = d.input_state /\ unsigned.rules_applied = rules
        /\ unsigned.computation = d.computation /\ unsigned.outcome = d.outcome /\ unsigned.replay_hash = hash
    OBVIOUS
  <1>. HIDE DEF unsigned
  <1>7. ReceiptRecord(r)
    BY DEF ReceiptRecord
  <1>. HIDE DEF r
  <1>8. DecisionContent(r) = DecisionContent(unsigned)
    BY <1>5, <1>6 DEF DecisionContent
  <1>9. HasContent(r)
    BY <1>2, <1>3, <1>4, <1>5 DEF HasContent, DecisionsAre
  <1>10. r.replay_hash = ComputeReplayHash(r.input_state, r.rules_applied, r.computation)
    BY <1>5 DEF hash
  <1>11. Genuine(r)
    BY <1>5, <1>7, <1>8, <1>9, <1>10 DEF Genuine
  <1>. QED BY <1>1, <1>5, <1>11

AttestationRecord(m) ==
    m = [kind |-> "attestation", signer |-> m.signer, signature |-> m.signature,
         payload |-> m.payload, payload_hash |-> m.payload_hash]

Attested(m) ==
    /\ AttestationRecord(m) /\ m.signer \in Keys /\ m.payload \in Payloads
    /\ m.payload_hash = AttestationPayloadHash(m.payload)
    /\ m.signature = Wire("", "url_safe_no_pad", Signature(m.signer, m.payload_hash.bytes))

\* What Attestation makes is attested by its signer.
LEMMA AttestationIsAttested ==
    ASSUME NEW key \in Keys, NEW payload \in Payloads
    PROVE  Attested(Attestation(key, payload)) /\ Attestation(key, payload).kind = "attestation"
  <1>. DEFINE hash == AttestationPayloadHash(payload)
              signature == Wire("", "url_safe_no_pad", Signature(key, hash.bytes))
              m == [kind |-> "attestation", signer |-> key, signature |-> signature,
                    payload |-> payload, payload_hash |-> hash]
  <1>1. Attestation(key, payload) = m
    BY DEF Attestation, SignAttestation
  <1>. HIDE DEF hash
  <1>2. m.signer = key /\ m.payload = payload /\ m.payload_hash = hash /\ m.signature = signature /\ m.kind = "attestation"
    OBVIOUS
  <1>3. AttestationRecord(m)
    BY DEF AttestationRecord
  <1>. HIDE DEF m
  <1>4. Attested(m)
    BY <1>2, <1>3 DEF Attested, hash
  <1>. QED BY <1>1, <1>2, <1>4
----------------------------------------------------------------------------
(***************************************************************************)
(* The inductive invariant. None of the verdicts is one: that a verdict is *)
(* right does not say what may have become of a message. What its parts    *)
(* are, and that nobody computes a signature but the makers, does.         *)
(***************************************************************************)

\* A signature of something a key signed, whole or not, in whatever form.
Signed(s, messages) ==
    /\ s = [prefix |-> s.prefix, codec |-> s.codec, bytes |-> s.bytes, whole |-> s.whole]
    /\ s.whole \in BOOLEAN
    /\ \E m \in messages : s.bytes = m.signature.bytes

\* What may arrive: a receipt or an attestation with each of its parts replaced.
ReceiptLike(m, messages) ==
    /\ m.kind = "receipt" /\ ReceiptRecord(m) /\ m.signer \in Keys
    /\ HasContent(m) /\ Signed(m.signature, messages)

AttestationLike(m, messages) ==
    /\ m.kind = "attestation" /\ AttestationRecord(m) /\ m.signer \in Keys
    /\ m.payload \in Payloads /\ m.payload_hash \in {AttestationPayloadHash(p) : p \in Payloads}
    /\ Signed(m.signature, messages)

Issued(m) == \/ m.kind = "receipt" /\ Genuine(m)
             \/ m.kind = "attestation" /\ Attested(m)

Incoming(m, messages) == m = Nothing \/ ReceiptLike(m, messages) \/ AttestationLike(m, messages)

\* What was made is as it was made; what arrives has the parts of a message, and
\* a signature nobody but the makers can have computed.
MessagesAre == (\A m \in issued : Issued(m)) /\ Incoming(received, issued)

\* Nothing is neither a receipt nor an attestation.
LEMMA KindsApart == Nothing.kind = "nothing" /\ Nothing.kind # "receipt" /\ Nothing.kind # "attestation"
  BY DEF Nothing

\* A message's own signature.
LEMMA SignedIs ==
    ASSUME NEW messages, NEW m \in messages, NEW prefix, NEW codec, NEW bytes,
           m.signature = Wire(prefix, codec, bytes)
    PROVE  Signed(m.signature, messages)
  BY DEF Signed, Wire

\* A message as it was made is one that may arrive.
LEMMA IssuedArrives ==
    ASSUME NEW messages, NEW m \in messages, Issued(m)
    PROVE  Incoming(m, messages)
  <1>1. CASE m.kind = "receipt" /\ Genuine(m)
    <2>1. m.signature = Wire("ed25519:", "standard", Signature(m.signer, CanonicalSerialize(DecisionContent(m))))
      BY <1>1 DEF Genuine, Sign
    <2>2. Signed(m.signature, messages)
      BY <2>1, SignedIs
    <2>. QED BY <1>1, <2>2 DEF Genuine, ReceiptLike, Incoming
  <1>2. CASE m.kind = "attestation" /\ Attested(m)
    <2>1. m.signature = Wire("", "url_safe_no_pad", Signature(m.signer, m.payload_hash.bytes))
      BY <1>2 DEF Attested
    <2>3. Signed(m.signature, messages)
      BY <2>1, SignedIs
    <2>2. m.payload_hash \in {AttestationPayloadHash(p) : p \in Payloads}
      BY <1>2 DEF Attested
    <2>. QED BY <1>2, <2>3, <2>2 DEF Attested, AttestationLike, Incoming
  <1>. QED BY <1>1, <1>2 DEF Issued

\* More messages only give more signatures.
LEMMA IncomingGrows ==
    ASSUME NEW old, NEW new, old \subseteq new, NEW m, Incoming(m, old)
    PROVE  Incoming(m, new)
  <1>1. \A s : Signed(s, old) => Signed(s, new)
    BY DEF Signed
  <1>. QED BY <1>1 DEF Incoming, ReceiptLike, AttestationLike

\* A carrier's copy.
LEMMA CarriedArrives ==
    ASSUME NEW messages, NEW m, ReceiptLike(m, messages), NEW c,
           c = [m EXCEPT !.input_state = Reordered(@), !.rules_applied = Reordered(@),
                         !.computation = Reordered(@), !.policy = Reordered(@)]
    PROVE  ReceiptLike(c, messages)
  <1>1. \A v \in Docs : Reordered(v) \in Docs /\ Reordered(v).kind = v.kind
    <2>1. MaxDepth \in Nat /\ MaxDepth > 1
      BY CanonicalFormAssumption, ReceiptExchangeAssumption
    <2>2. MaxDepth - 1 \in 0..MaxDepth
      BY <2>1
    <2>3. Keeps(ReorderedAt[MaxDepth - 1], Docs)
      BY <2>2, ReorderedKeeps DEF Docs
    <2>. QED BY <2>3 DEF Keeps, Reordered
  <1>. DEFINE i == Reordered(m.input_state)
              u == Reordered(m.rules_applied)
              p == Reordered(m.computation)
              o == Reordered(m.policy)
  <1>2. m.policy \in Docs /\ m.input_state \in Docs /\ m.computation \in Docs /\ m.rules_applied \in Docs
        /\ m.rules_applied.kind = "object"
    BY DEF ReceiptLike, HasContent
  <1>3. i \in Docs /\ u \in Docs /\ p \in Docs /\ o \in Docs /\ u.kind = "object"
    BY <1>1, <1>2
  <1>. HIDE DEF i, u, p, o
  <1>4. m = [kind |-> "receipt", signer |-> m.signer, signature |-> m.signature,
             verity_id |-> m.verity_id, policy |-> m.policy, input_state |-> m.input_state,
             rules_applied |-> m.rules_applied, computation |-> m.computation,
             outcome |-> m.outcome, replay_hash |-> m.replay_hash]
    BY DEF ReceiptLike, ReceiptRecord
  <1>. DEFINE c1 == [m EXCEPT !.input_state = i]
              c2 == [c1 EXCEPT !.rules_applied = u]
              c3 == [c2 EXCEPT !.computation = p]
              c4 == [c3 EXCEPT !.policy = o]
  <1>5. c = c4
    BY Zenon DEF i, u, p, o
  <1>9. c1 = [kind |-> "receipt", signer |-> m.signer, signature |-> m.signature,
             verity_id |-> m.verity_id, policy |-> m.policy, input_state |-> i,
             rules_applied |-> m.rules_applied, computation |-> m.computation,
             outcome |-> m.outcome, replay_hash |-> m.replay_hash]
    BY ONLY <1>4
  <1>. HIDE DEF c1
  <1>10. c2 = [kind |-> "receipt", signer |-> m.signer, signature |-> m.signature,
             verity_id |-> m.verity_id, policy |-> m.policy, input_state |-> i,
             rules_applied |-> u, computation |-> m.computation,
             outcome |-> m.outcome, replay_hash |-> m.replay_hash]
    BY ONLY <1>9
  <1>. HIDE DEF c2
  <1>11. c3 = [kind |-> "receipt", signer |-> m.signer, signature |-> m.signature,
             verity_id |-> m.verity_id, policy |-> m.policy, input_state |-> i,
             rules_applied |-> u, computation |-> p,
             outcome |-> m.outcome, replay_hash |-> m.replay_hash]
    BY ONLY <1>10
  <1>. HIDE DEF c3
  <1>12. c4 = [kind |-> "receipt", signer |-> m.signer, signature |-> m.signature,
             verity_id |-> m.verity_id, policy |-> o, input_state |-> i,
             rules_applied |-> u, computation |-> p,
             outcome |-> m.outcome, replay_hash |-> m.replay_hash]
    BY ONLY <1>11
  <1>. HIDE DEF c4
  <1>6. c = [kind |-> "receipt", signer |-> m.signer, signature |-> m.signature,
             verity_id |-> m.verity_id, policy |-> o, input_state |-> i,
             rules_applied |-> u, computation |-> p,
             outcome |-> m.outcome, replay_hash |-> m.replay_hash]
    BY <1>5, <1>12
  <1>7. /\ c.kind = "receipt" /\ c.signer = m.signer /\ c.signature = m.signature
        /\ c.verity_id = m.verity_id /\ c.policy = o /\ c.input_state = i /\ c.rules_applied = u
        /\ c.computation = p /\ c.outcome = m.outcome /\ c.replay_hash = m.replay_hash
    BY ONLY <1>6
  <1>8. ReceiptRecord(c)
    BY ONLY <1>6, <1>7 DEF ReceiptRecord
  <1>. QED BY <1>3, <1>7, <1>8 DEF ReceiptLike, HasContent

\* What each part of a message may be replaced by.
LEMMA ReplacementsAre ==
    /\ Replacements("kind") = {}
    /\ Replacements("signer") = Keys
    /\ Replacements("signature") = OtherSignatures
    /\ Replacements("input_state") = Documents
    /\ Replacements("computation") = Documents
    /\ Replacements("policy") = Documents
    /\ Replacements("rules_applied") = {RulesApplied(policy) : policy \in Documents}
    /\ Replacements("outcome") = {d.outcome : d \in Decisions}
    /\ Replacements("verity_id") = IdTexts
    /\ Replacements("replay_hash") = {m.replay_hash : m \in Receipts}
    /\ Replacements("payload") = Payloads
    /\ Replacements("payload_hash") = {AttestationPayloadHash(p) : p \in Payloads}
  <1>1. Replacements("kind") = {}
    BY Zenon DEF Replacements
  <1>2. Replacements("signer") = Keys
    BY Zenon DEF Replacements
  <1>3. Replacements("signature") = OtherSignatures
    BY Zenon DEF Replacements
  <1>4. Replacements("input_state") = Documents
    BY Zenon DEF Replacements
  <1>5. Replacements("computation") = Documents
    BY Zenon DEF Replacements
  <1>6. Replacements("policy") = Documents
    BY Zenon DEF Replacements
  <1>7. Replacements("rules_applied") = {RulesApplied(policy) : policy \in Documents}
    BY Zenon DEF Replacements
  <1>8. Replacements("outcome") = {d.outcome : d \in Decisions}
    BY Zenon DEF Replacements
  <1>9. Replacements("verity_id") = IdTexts
    BY Zenon DEF Replacements
  <1>10. Replacements("replay_hash") = {m.replay_hash : m \in Receipts}
    BY Zenon DEF Replacements
  <1>11. Replacements("payload") = Payloads
    BY Zenon DEF Replacements
  <1>12. Replacements("payload_hash") = {AttestationPayloadHash(p) : p \in Payloads}
    BY Zenon DEF Replacements
  <1>. QED BY <1>1, <1>2, <1>3, <1>4, <1>5, <1>6, <1>7, <1>8, <1>9, <1>10, <1>11, <1>12

\* What each part of an altered receipt must be.
GoodPart(field, value, messages) ==
    /\ field # "kind"
    /\ field = "signer" => value \in Keys
    /\ field = "signature" => Signed(value, messages)
    /\ field = "verity_id" => value \in IdTextsOverSymbols
    /\ field \in {"policy", "input_state", "computation", "rules_applied"} => value \in Docs
    /\ field = "rules_applied" => value.kind = "object"
    /\ field = "outcome" => value \in Symbols
    /\ field = "replay_hash" => value.prefix \in Symbols /\ value.bytes \in Words
    /\ field = "payload" => value \in Payloads
    /\ field = "payload_hash" => value \in {AttestationPayloadHash(p) : p \in Payloads}

\* A receipt with such a part replaced is one that may arrive,
LEMMA AlteredReceipt ==
    ASSUME NEW messages, NEW m, ReceiptLike(m, messages), NEW field \in DOMAIN m, NEW value,
           GoodPart(field, value, messages), NEW c, c = [m EXCEPT ![field] = value]
    PROVE  ReceiptLike(c, messages)
  <1>1. m = [kind |-> "receipt", signer |-> m.signer, signature |-> m.signature,
             verity_id |-> m.verity_id, policy |-> m.policy, input_state |-> m.input_state,
             rules_applied |-> m.rules_applied, computation |-> m.computation,
             outcome |-> m.outcome, replay_hash |-> m.replay_hash]
    BY DEF ReceiptLike, ReceiptRecord
  <1>2. field \in {"signer", "signature", "verity_id", "policy", "input_state",
                   "rules_applied", "computation", "outcome", "replay_hash"}
    BY <1>1 DEF GoodPart
  <1>3. /\ m.kind = "receipt" /\ m.signer \in Keys /\ HasContent(m) /\ Signed(m.signature, messages)
    BY DEF ReceiptLike
  <1>4. CASE field = "signer"
    <2>1. c = [m EXCEPT !.signer = value]
      BY Zenon, <1>4
    <2>2. c = [kind |-> "receipt", signer |-> value, signature |-> m.signature, verity_id |-> m.verity_id, policy |-> m.policy, input_state |-> m.input_state, rules_applied |-> m.rules_applied, computation |-> m.computation, outcome |-> m.outcome, replay_hash |-> m.replay_hash]
      BY ONLY <1>1, <2>1
    <2>3. /\ c.signer = value /\ c.kind = "receipt"
          /\ c.signature = m.signature /\ c.verity_id = m.verity_id /\ c.policy = m.policy /\ c.input_state = m.input_state /\ c.rules_applied = m.rules_applied /\ c.computation = m.computation /\ c.outcome = m.outcome /\ c.replay_hash = m.replay_hash
      BY ONLY <2>2
    <2>4. ReceiptRecord(c)
      BY ONLY <2>2, <2>3 DEF ReceiptRecord
    <2>5. GoodPart("signer", value, messages)
      BY <1>4
    <2>. QED BY <1>3, <2>3, <2>4, <2>5 DEF ReceiptLike, HasContent, GoodPart
  <1>5. CASE field = "signature"
    <2>1. c = [m EXCEPT !.signature = value]
      BY Zenon, <1>5
    <2>2. c = [kind |-> "receipt", signer |-> m.signer, signature |-> value, verity_id |-> m.verity_id, policy |-> m.policy, input_state |-> m.input_state, rules_applied |-> m.rules_applied, computation |-> m.computation, outcome |-> m.outcome, replay_hash |-> m.replay_hash]
      BY ONLY <1>1, <2>1
    <2>3. /\ c.signature = value /\ c.kind = "receipt"
          /\ c.signer = m.signer /\ c.verity_id = m.verity_id /\ c.policy = m.policy /\ c.input_state = m.input_state /\ c.rules_applied = m.rules_applied /\ c.computation = m.computation /\ c.outcome = m.outcome /\ c.replay_hash = m.replay_hash
      BY ONLY <2>2
    <2>4. ReceiptRecord(c)
      BY ONLY <2>2, <2>3 DEF ReceiptRecord
    <2>5. GoodPart("signature", value, messages)
      BY <1>5
    <2>. QED BY <1>3, <2>3, <2>4, <2>5 DEF ReceiptLike, HasContent, GoodPart
  <1>6. CASE field = "verity_id"
    <2>1. c = [m EXCEPT !.verity_id = value]
      BY Zenon, <1>6
    <2>2. c = [kind |-> "receipt", signer |-> m.signer, signature |-> m.signature, verity_id |-> value, policy |-> m.policy, input_state |-> m.input_state, rules_applied |-> m.rules_applied, computation |-> m.computation, outcome |-> m.outcome, replay_hash |-> m.replay_hash]
      BY ONLY <1>1, <2>1
    <2>3. /\ c.verity_id = value /\ c.kind = "receipt"
          /\ c.signer = m.signer /\ c.signature = m.signature /\ c.policy = m.policy /\ c.input_state = m.input_state /\ c.rules_applied = m.rules_applied /\ c.computation = m.computation /\ c.outcome = m.outcome /\ c.replay_hash = m.replay_hash
      BY ONLY <2>2
    <2>4. ReceiptRecord(c)
      BY ONLY <2>2, <2>3 DEF ReceiptRecord
    <2>5. GoodPart("verity_id", value, messages)
      BY <1>6
    <2>. QED BY <1>3, <2>3, <2>4, <2>5 DEF ReceiptLike, HasContent, GoodPart
  <1>7. CASE field = "policy"
    <2>1. c = [m EXCEPT !.policy = value]
      BY Zenon, <1>7
    <2>2. c = [kind |-> "receipt", signer |-> m.signer, signature |-> m.signature, verity_id |-> m.verity_id, policy |-> value, input_state |-> m.input_state, rules_applied |-> m.rules_applied, computation |-> m.computation, outcome |-> m.outcome, replay_hash |-> m.replay_hash]
      BY ONLY <1>1, <2>1
    <2>3. /\ c.policy = value /\ c.kind = "receipt"
          /\ c.signer = m.signer /\ c.signature = m.signature /\ c.verity_id = m.verity_id /\ c.input_state = m.input_state /\ c.rules_applied = m.rules_applied /\ c.computation = m.computation /\ c.outcome = m.outcome /\ c.replay_hash = m.replay_hash
      BY ONLY <2>2
    <2>4. ReceiptRecord(c)
      BY ONLY <2>2, <2>3 DEF ReceiptRecord
    <2>5. GoodPart("policy", value, messages)
      BY <1>7
    <2>. QED BY <1>3, <2>3, <2>4, <2>5 DEF ReceiptLike, HasContent, GoodPart
  <1>8. CASE field = "input_state"
    <2>1. c = [m EXCEPT !.input_state = value]
      BY Zenon, <1>8
    <2>2. c = [kind |-> "receipt", signer |-> m.signer, signature |-> m.signature, verity_id |-> m.verity_id, policy |-> m.policy, input_state |-> value, rules_applied |-> m.rules_applied, computation |-> m.computation, outcome |-> m.outcome, replay_hash |-> m.replay_hash]
      BY ONLY <1>1, <2>1
    <2>3. /\ c.input_state = value /\ c.kind = "receipt"
          /\ c.signer = m.signer /\ c.signature = m.signature /\ c.verity_id = m.verity_id /\ c.policy = m.policy /\ c.rules_applied = m.rules_applied /\ c.computation = m.computation /\ c.outcome = m.outcome /\ c.replay_hash = m.replay_hash
      BY ONLY <2>2
    <2>4. ReceiptRecord(c)
      BY ONLY <2>2, <2>3 DEF ReceiptRecord
    <2>5. GoodPart("input_state", value, messages)
      BY <1>8
    <2>. QED BY <1>3, <2>3, <2>4, <2>5 DEF ReceiptLike, HasContent, GoodPart
  <1>9. CASE field = "rules_applied"
    <2>1. c = [m EXCEPT !.rules_applied = value]
      BY Zenon, <1>9
    <2>2. c = [kind |-> "receipt", signer |-> m.signer, signature |-> m.signature, verity_id |-> m.verity_id, policy |-> m.policy, input_state |-> m.input_state, rules_applied |-> value, computation |-> m.computation, outcome |-> m.outcome, replay_hash |-> m.replay_hash]
      BY ONLY <1>1, <2>1
    <2>3. /\ c.rules_applied = value /\ c.kind = "receipt"
          /\ c.signer = m.signer /\ c.signature = m.signature /\ c.verity_id = m.verity_id /\ c.policy = m.policy /\ c.input_state = m.input_state /\ c.computation = m.computation /\ c.outcome = m.outcome /\ c.replay_hash = m.replay_hash
      BY ONLY <2>2
    <2>4. ReceiptRecord(c)
      BY ONLY <2>2, <2>3 DEF ReceiptRecord
    <2>5. GoodPart("rules_applied", value, messages)
      BY <1>9
    <2>. QED BY <1>3, <2>3, <2>4, <2>5 DEF ReceiptLike, HasContent, GoodPart
  <1>10. CASE field = "computation"
    <2>1. c = [m EXCEPT !.computation = value]
      BY Zenon, <1>10
    <2>2. c = [kind |-> "receipt", signer |-> m.signer, signature |-> m.signature, verity_id |-> m.verity_id, policy |-> m.policy, input_state |-> m.input_state, rules_applied |-> m.rules_applied, computation |-> value, outcome |-> m.outcome, replay_hash |-> m.replay_hash]
      BY ONLY <1>1, <2>1
    <2>3. /\ c.computation = value /\ c.kind = "receipt"
          /\ c.signer = m.signer /\ c.signature = m.signature /\ c.verity_id = m.verity_id /\ c.policy = m.policy /\ c.input_state = m.input_state /\ c.rules_applied = m.rules_applied /\ c.outcome = m.outcome /\ c.replay_hash = m.replay_hash
      BY ONLY <2>2
    <2>4. ReceiptRecord(c)
      BY ONLY <2>2, <2>3 DEF ReceiptRecord
    <2>5. GoodPart("computation", value, messages)
      BY <1>10
    <2>. QED BY <1>3, <2>3, <2>4, <2>5 DEF ReceiptLike, HasContent, GoodPart
  <1>11. CASE field = "outcome"
    <2>1. c = [m EXCEPT !.outcome = value]
      BY Zenon, <1>11
    <2>2. c = [kind |-> "receipt", signer |-> m.signer, signature |-> m.signature, verity_id |-> m.verity_id, policy |-> m.policy, input_state |-> m.input_state, rules_applied |-> m.rules_applied, computation |-> m.computation, outcome |-> value, replay_hash |-> m.replay_hash]
      BY ONLY <1>1, <2>1
    <2>3. /\ c.outcome = value /\ c.kind = "receipt"
          /\ c.signer = m.signer /\ c.signature = m.signature /\ c.verity_id = m.verity_id /\ c.policy = m.policy /\ c.input_state = m.input_state /\ c.rules_applied = m.rules_applied /\ c.computation = m.computation /\ c.replay_hash = m.replay_hash
      BY ONLY <2>2
    <2>4. ReceiptRecord(c)
      BY ONLY <2>2, <2>3 DEF ReceiptRecord
    <2>5. GoodPart("outcome", value, messages)
      BY <1>11
    <2>. QED BY <1>3, <2>3, <2>4, <2>5 DEF ReceiptLike, HasContent, GoodPart
  <1>12. CASE field = "replay_hash"
    <2>1. c = [m EXCEPT !.replay_hash = value]
      BY Zenon, <1>12
    <2>2. c = [kind |-> "receipt", signer |-> m.signer, signature |-> m.signature, verity_id |-> m.verity_id, policy |-> m.policy, input_state |-> m.input_state, rules_applied |-> m.rules_applied, computation |-> m.computation, outcome |-> m.outcome, replay_hash |-> value]
      BY ONLY <1>1, <2>1
    <2>3. /\ c.replay_hash = value /\ c.kind = "receipt"
          /\ c.signer = m.signer /\ c.signature = m.signature /\ c.verity_id = m.verity_id /\ c.policy = m.policy /\ c.input_state = m.input_state /\ c.rules_applied = m.rules_applied /\ c.computation = m.computation /\ c.outcome = m.outcome
      BY ONLY <2>2
    <2>4. ReceiptRecord(c)
      BY ONLY <2>2, <2>3 DEF ReceiptRecord
    <2>5. GoodPart("replay_hash", value, messages)
      BY <1>12
    <2>. QED BY <1>3, <2>3, <2>4, <2>5 DEF ReceiptLike, HasContent, GoodPart
  <1>. QED BY <1>2, <1>4, <1>5, <1>6, <1>7, <1>8, <1>9, <1>10, <1>11, <1>12

\* and so is an attestation.
LEMMA AlteredAttestation ==
    ASSUME NEW messages, NEW m, AttestationLike(m, messages), NEW field \in DOMAIN m, NEW value,
           GoodPart(field, value, messages), NEW c, c = [m EXCEPT ![field] = value]
    PROVE  AttestationLike(c, messages)
  <1>1. m = [kind |-> "attestation", signer |-> m.signer, signature |-> m.signature,
             payload |-> m.payload, payload_hash |-> m.payload_hash]
    BY DEF AttestationLike, AttestationRecord
  <1>2. field \in {"signer", "signature", "payload", "payload_hash"}
    BY <1>1 DEF GoodPart
  <1>3. /\ m.kind = "attestation" /\ m.signer \in Keys /\ m.payload \in Payloads
        /\ m.payload_hash \in {AttestationPayloadHash(p) : p \in Payloads}
        /\ Signed(m.signature, messages)
    BY DEF AttestationLike
  <1>4. CASE field = "signer"
    <2>1. c = [m EXCEPT !.signer = value]
      BY Zenon, <1>4
    <2>2. c = [kind |-> "attestation", signer |-> value, signature |-> m.signature, payload |-> m.payload, payload_hash |-> m.payload_hash]
      BY ONLY <1>1, <2>1
    <2>3. /\ c.signer = value /\ c.kind = "attestation"
          /\ c.signature = m.signature /\ c.payload = m.payload /\ c.payload_hash = m.payload_hash
      BY ONLY <2>2
    <2>4. AttestationRecord(c)
      BY ONLY <2>2, <2>3 DEF AttestationRecord
    <2>5. GoodPart("signer", value, messages)
      BY <1>4
    <2>. QED BY <1>3, <2>3, <2>4, <2>5 DEF AttestationLike, GoodPart
  <1>5. CASE field = "signature"
    <2>1. c = [m EXCEPT !.signature = value]
      BY Zenon, <1>5
    <2>2. c = [kind |-> "attestation", signer |-> m.signer, signature |-> value, payload |-> m.payload, payload_hash |-> m.payload_hash]
      BY ONLY <1>1, <2>1
    <2>3. /\ c.signature = value /\ c.kind = "attestation"
          /\ c.signer = m.signer /\ c.payload = m.payload /\ c.payload_hash = m.payload_hash
      BY ONLY <2>2
    <2>4. AttestationRecord(c)
      BY ONLY <2>2, <2>3 DEF AttestationRecord
    <2>5. GoodPart("signature", value, messages)
      BY <1>5
    <2>. QED BY <1>3, <2>3, <2>4, <2>5 DEF AttestationLike, GoodPart
  <1>6. CASE field = "payload"
    <2>1. c = [m EXCEPT !.payload = value]
      BY Zenon, <1>6
    <2>2. c = [kind |-> "attestation", signer |-> m.signer, signature |-> m.signature, payload |-> value, payload_hash |-> m.payload_hash]
      BY ONLY <1>1, <2>1
    <2>3. /\ c.payload = value /\ c.kind = "attestation"
          /\ c.signer = m.signer /\ c.signature = m.signature /\ c.payload_hash = m.payload_hash
      BY ONLY <2>2
    <2>4. AttestationRecord(c)
      BY ONLY <2>2, <2>3 DEF AttestationRecord
    <2>5. GoodPart("payload", value, messages)
      BY <1>6
    <2>. QED BY <1>3, <2>3, <2>4, <2>5 DEF AttestationLike, GoodPart
  <1>7. CASE field = "payload_hash"
    <2>1. c = [m EXCEPT !.payload_hash = value]
      BY Zenon, <1>7
    <2>2. c = [kind |-> "attestation", signer |-> m.signer, signature |-> m.signature, payload |-> m.payload, payload_hash |-> value]
      BY ONLY <1>1, <2>1
    <2>3. /\ c.payload_hash = value /\ c.kind = "attestation"
          /\ c.signer = m.signer /\ c.signature = m.signature /\ c.payload = m.payload
      BY ONLY <2>2
    <2>4. AttestationRecord(c)
      BY ONLY <2>2, <2>3 DEF AttestationRecord
    <2>5. GoodPart("payload_hash", value, messages)
      BY <1>7
    <2>. QED BY <1>3, <2>3, <2>4, <2>5 DEF AttestationLike, GoodPart
  <1>. QED BY <1>2, <1>4, <1>5, <1>6, <1>7

\* Whatever form it is given, it remains a signature of what was signed.
LEMMA ReformedIs ==
    ASSUME NEW messages, NEW s, Signed(s, messages)
    PROVE  /\ Signed([s EXCEPT !.whole = FALSE], messages)
           /\ Signed([s EXCEPT !.codec = "hex"], messages)
           /\ Signed([s EXCEPT !.prefix = "rsa:"], messages)
           /\ Signed(Wire("ed25519:", "standard", s.bytes), messages)
           /\ Signed(Wire("", "url_safe_no_pad", s.bytes), messages)
  <1>. DEFINE R(prefix, codec, bytes, whole) ==
                  [prefix |-> prefix, codec |-> codec, bytes |-> bytes, whole |-> whole]
  <1>1. /\ s = R(s.prefix, s.codec, s.bytes, s.whole) /\ s.whole \in BOOLEAN
        /\ \E m \in messages : s.bytes = m.signature.bytes
    BY DEF Signed
  <1>2. ASSUME NEW prefix, NEW codec, NEW whole \in BOOLEAN
        PROVE  Signed(R(prefix, codec, s.bytes, whole), messages)
    <2>. DEFINE r == R(prefix, codec, s.bytes, whole)
    <2>1. r.prefix = prefix /\ r.codec = codec /\ r.bytes = s.bytes /\ r.whole = whole
      OBVIOUS
    <2>2. r = R(r.prefix, r.codec, r.bytes, r.whole)
      BY <2>1
    <2>. HIDE DEF r
    <2>3. Signed(r, messages)
      BY <1>1, <2>1, <2>2 DEF Signed
    <2>. QED BY <2>3 DEF r
  <1>3. [s EXCEPT !.whole = FALSE] = R(s.prefix, s.codec, s.bytes, FALSE)
    <2>1. ASSUME NEW w PROVE [s EXCEPT !.whole = w] = R(s.prefix, s.codec, s.bytes, w)
      BY ONLY <1>1
    <2>. HIDE DEF R
    <2>. QED BY Zenon, <2>1
  <1>4. [s EXCEPT !.codec = "hex"] = R(s.prefix, "hex", s.bytes, s.whole)
    BY ONLY <1>1
  <1>5. [s EXCEPT !.prefix = "rsa:"] = R("rsa:", s.codec, s.bytes, s.whole)
    BY ONLY <1>1
  <1>6. \A prefix, codec : Wire(prefix, codec, s.bytes) = R(prefix, codec, s.bytes, TRUE)
    BY DEF Wire
  <1>. HIDE DEF R
  <1>7. TRUE \in BOOLEAN /\ FALSE \in BOOLEAN
    OBVIOUS
  <1>8. Signed([s EXCEPT !.whole = FALSE], messages)
    BY Zenon, <1>2, <1>3, <1>7
  <1>9. Signed([s EXCEPT !.codec = "hex"], messages)
    <2>1. Signed(R(s.prefix, "hex", s.bytes, s.whole), messages)
      BY <1>1, <1>2
    <2>. QED BY ONLY Zenon, <1>4, <2>1
  <1>10. Signed([s EXCEPT !.prefix = "rsa:"], messages)
    <2>1. Signed(R("rsa:", s.codec, s.bytes, s.whole), messages)
      BY <1>1, <1>2
    <2>. QED BY ONLY Zenon, <1>5, <2>1
  <1>11. \A prefix, codec : Signed(Wire(prefix, codec, s.bytes), messages)
    BY Zenon, <1>2, <1>6, <1>7
  <1>. QED BY <1>8, <1>9, <1>10, <1>11

\* An exchanged signature is that of some message made, in whatever form.
LEMMA OtherSignaturesAre ==
    ASSUME MessagesAre, Signed(received.signature, issued), NEW s \in OtherSignatures
    PROVE  Signed(s, issued)
  <1>1. ASSUME NEW m \in issued PROVE Signed(m.signature, issued)
    <2>1. Issued(m)
      BY DEF MessagesAre
    <2>2. m.kind = "receipt" \/ m.kind = "attestation"
      BY <2>1 DEF Issued
    <2>3. Incoming(m, issued)
      BY <2>1, IssuedArrives
    <2>4. m # Nothing
      BY <2>2, KindsApart
    <2>. QED BY <2>3, <2>4 DEF Incoming, ReceiptLike, AttestationLike
  <1>. DEFINE t == received.signature
  <1>2. \/ s \in {m.signature : m \in issued}
        \/ s = [t EXCEPT !.whole = FALSE] \/ s = [t EXCEPT !.codec = "hex"] \/ s = [t EXCEPT !.prefix = "rsa:"]
        \/ s = Wire("ed25519:", "standard", t.bytes) \/ s = Wire("", "url_safe_no_pad", t.bytes)
    BY Zenon DEF OtherSignatures
  <1>3. CASE s \in {m.signature : m \in issued}
    BY <1>1, <1>3
  <1>4. CASE s \notin {m.signature : m \in issued}
    <2>1. /\ Signed([t EXCEPT !.whole = FALSE], issued) /\ Signed([t EXCEPT !.codec = "hex"], issued)
          /\ Signed([t EXCEPT !.prefix = "rsa:"], issued)
          /\ Signed(Wire("ed25519:", "standard", t.bytes), issued)
          /\ Signed(Wire("", "url_safe_no_pad", t.bytes), issued)
      BY ReformedIs
    <2>. QED BY Zenon, <1>2, <1>4, <2>1
  <1>. QED BY <1>3, <1>4

\* What a part is replaced by.
LEMMA ReplacedByGood ==
    ASSUME MessagesAre, Signed(received.signature, issued),
           NEW field \in {"kind", "signer", "signature", "verity_id", "policy", "input_state",
                          "rules_applied", "computation", "outcome", "replay_hash",
                          "payload", "payload_hash"},
           NEW value \in Replacements(field)
    PROVE  GoodPart(field, value, issued)
  <1>1. Documents \subseteq Docs /\ IdTexts \subseteq IdTextsOverSymbols
    BY ReceiptExchangeAssumption DEF Docs, IdTextsOverSymbols
  <1>2. field # "kind"
    BY ReplacementsAre
  <1>3. field = "signer" => value \in Keys
    BY ReplacementsAre
  <1>4. field = "signature" => Signed(value, issued)
    BY ReplacementsAre, OtherSignaturesAre
  <1>5. field = "verity_id" => value \in IdTextsOverSymbols
    BY <1>1, ReplacementsAre
  <1>6. field \in {"policy", "input_state", "computation"} => value \in Docs
    BY <1>1, ReplacementsAre
  <1>7. field = "rules_applied" => value \in Docs /\ value.kind = "object"
    <2>1. SUFFICES ASSUME field = "rules_applied" PROVE value \in Docs /\ value.kind = "object"
      OBVIOUS
    <2>2. PICK policy \in Documents : value = RulesApplied(policy)
      BY <2>1, ReplacementsAre
    <2>. QED BY <1>1, <2>2, RulesAre
  <1>8. field = "outcome" => value \in Symbols
    <2>1. SUFFICES ASSUME field = "outcome" PROVE value \in Symbols
      OBVIOUS
    <2>2. PICK d \in Decisions : value = d.outcome
      BY <2>1, ReplacementsAre
    <2>. QED BY <2>2, DecisionIs DEF DecisionsAre
  <1>9. field = "replay_hash" => value.prefix \in Symbols /\ value.bytes \in Words
    <2>1. SUFFICES ASSUME field = "replay_hash" PROVE value.prefix \in Symbols /\ value.bytes \in Words
      OBVIOUS
    <2>2. PICK m \in Receipts : value = m.replay_hash
      BY <2>1, ReplacementsAre
    <2>3. Genuine(m)
      BY <2>2 DEF Receipts, MessagesAre, Issued
    <2>. QED BY <2>2, <2>3 DEF Genuine, HasContent
  <1>10. field = "payload" => value \in Payloads
    BY ReplacementsAre
  <1>11. field = "payload_hash" => value \in {AttestationPayloadHash(p) : p \in Payloads}
    BY ReplacementsAre
  <1>. QED BY <1>2, <1>3, <1>4, <1>5, <1>6, <1>7, <1>8, <1>9, <1>10, <1>11 DEF GoodPart

\* Whatever is made is as its maker made it.
LEMMA MadeIsIssued ==
    /\ \A key \in Keys, d \in Decisions : Issued(Receipt(key, d))
    /\ \A key \in Keys, payload \in Payloads : Issued(Attestation(key, payload))
  BY ReceiptIsGenuine, AttestationIsAttested DEF Issued

\* The steps keep the invariant, one by one: a message is made,
LEMMA MakeKeeps ==
    ASSUME MessagesAre, NEW message, Issued(message), Make(message)
    PROVE  MessagesAre'
  <1>1. issued' = issued \cup {message} /\ received' = received
    BY DEF Make
  <1>2. \A m \in issued' : Issued(m)
    BY <1>1 DEF MessagesAre
  <1>3. Incoming(received, issued')
    BY <1>1, IncomingGrows DEF MessagesAre
  <1>4. Incoming(received', issued')
    BY <1>1, <1>3
  <1>. QED BY Zenon, <1>2, <1>4 DEF MessagesAre

\* delivered,
LEMMA DeliverKeeps ==
    ASSUME MessagesAre, Deliver
    PROVE  MessagesAre'
  <1>1. received' \in issued /\ issued' = issued
    BY DEF Deliver
  <1>2. Issued(received')
    BY <1>1 DEF MessagesAre
  <1>3. Incoming(received', issued)
    BY <1>1, <1>2, IssuedArrives
  <1>4. Incoming(received', issued') /\ \A m \in issued' : Issued(m)
    BY <1>1, <1>3 DEF MessagesAre
  <1>. QED BY Zenon, <1>4 DEF MessagesAre

\* carried,
LEMMA CarryKeeps ==
    ASSUME MessagesAre, Carry
    PROVE  MessagesAre'
  <1>1. /\ received.kind = "receipt" /\ issued' = issued
        /\ received' = [received EXCEPT !.input_state = Reordered(@), !.rules_applied = Reordered(@),
                                        !.computation = Reordered(@), !.policy = Reordered(@)]
    BY Zenon DEF Carry
  <1>2. ReceiptLike(received, issued)
    BY <1>1, KindsApart DEF MessagesAre, Incoming, AttestationLike
  <1>3. ReceiptLike(received', issued)
    BY Zenon, <1>1, <1>2, CarriedArrives
  <1>4. Incoming(received', issued') /\ \A m \in issued' : Issued(m)
    BY <1>1, <1>3 DEF MessagesAre, Incoming
  <1>. QED BY Zenon, <1>4 DEF MessagesAre

Parts == {"kind", "signer", "signature", "verity_id", "policy", "input_state",
          "rules_applied", "computation", "outcome", "replay_hash", "payload", "payload_hash"}

\* The parts of what may arrive.
LEMMA PartsAre ==
    ASSUME NEW messages, NEW m, Incoming(m, messages)
    PROVE  DOMAIN m \subseteq Parts /\ (m = Nothing => DOMAIN m = {"kind"})
  <1>1. CASE m = Nothing
    <2>1. DOMAIN m = {"kind"}
      BY <1>1 DEF Nothing
    <2>. QED BY <2>1 DEF Parts
  <1>2. CASE ReceiptLike(m, messages)
    <2>1. m = [kind |-> "receipt", signer |-> m.signer, signature |-> m.signature,
             verity_id |-> m.verity_id, policy |-> m.policy, input_state |-> m.input_state,
             rules_applied |-> m.rules_applied, computation |-> m.computation,
             outcome |-> m.outcome, replay_hash |-> m.replay_hash]
      BY <1>2 DEF ReceiptLike, ReceiptRecord
    <2>2. DOMAIN m = {"kind", "signer", "signature", "verity_id", "policy", "input_state",
                      "rules_applied", "computation", "outcome", "replay_hash"}
      BY ONLY <2>1
    <2>3. m # Nothing
      BY <1>2, KindsApart DEF ReceiptLike
    <2>. QED BY <2>2, <2>3 DEF Parts
  <1>3. CASE AttestationLike(m, messages)
    <2>1. m = [kind |-> "attestation", signer |-> m.signer, signature |-> m.signature,
               payload |-> m.payload, payload_hash |-> m.payload_hash]
      BY <1>3 DEF AttestationLike, AttestationRecord
    <2>2. DOMAIN m = {"kind", "signer", "signature", "payload", "payload_hash"}
      BY ONLY <2>1
    <2>3. m # Nothing
      BY <1>3, KindsApart DEF AttestationLike
    <2>. QED BY <2>2, <2>3 DEF Parts
  <1>. QED BY <1>1, <1>2, <1>3 DEF Incoming

\* and altered.
LEMMA AlterKeeps ==
    ASSUME MessagesAre, NEW field \in DOMAIN received, Alter(field)
    PROVE  MessagesAre'
  <1>1. PICK value \in Replacements(field) : received' = [received EXCEPT ![field] = value]
    BY Zenon DEF Alter
  <1>2. issued' = issued
    BY Zenon DEF Alter
  <1>3. Incoming(received, issued)
    BY DEF MessagesAre
  <1>4. field \in Parts /\ (received = Nothing => field = "kind")
    BY <1>3, PartsAre
  <1>5. received # Nothing
    BY <1>1, <1>4, ReplacementsAre
  <1>6. Signed(received.signature, issued)
    BY <1>3, <1>5 DEF Incoming, ReceiptLike, AttestationLike
  <1>7. GoodPart(field, value, issued)
    BY <1>1, <1>4, <1>6, ReplacedByGood DEF Parts
  <1>8. Incoming(received', issued)
    <2>1. CASE ReceiptLike(received, issued)
      BY Zenon, <1>1, <1>7, <2>1, AlteredReceipt DEF Incoming
    <2>2. CASE AttestationLike(received, issued)
      BY Zenon, <1>1, <1>7, <2>2, AlteredAttestation DEF Incoming
    <2>. QED BY <1>3, <1>5, <2>1, <2>2 DEF Incoming
  <1>9. Incoming(received', issued') /\ \A m \in issued' : Issued(m)
    BY <1>2, <1>8 DEF MessagesAre
  <1>. QED BY Zenon, <1>9 DEF MessagesAre

\* Whatever is made, carried and changed, and however often: every message made is
\* as its maker made it, and what arrives has the parts of a message and a signature that
\* some maker computed, perhaps in another form or of another message.
THEOREM MessagesAreKept == Spec => []MessagesAre
  <1>1. Init => MessagesAre
    BY DEF Init, MessagesAre, Incoming
  <1>2. MessagesAre /\ [Next]_vars => MessagesAre'
    <2>. SUFFICES ASSUME MessagesAre, [Next]_vars PROVE MessagesAre'
      OBVIOUS
    <2>1. CASE UNCHANGED vars
      <3>1. issued' = issued /\ received' = received
        BY Zenon, <2>1 DEF vars
      <3>. QED BY Zenon, <3>1 DEF MessagesAre
    <2>2. ASSUME NEW key \in Keys, NEW d \in Decisions, Make(Receipt(key, d)) PROVE MessagesAre'
      BY Zenon, <2>2, MakeKeeps, MadeIsIssued
    <2>3. ASSUME NEW key \in Keys, NEW payload \in Payloads, Make(Attestation(key, payload))
          PROVE  MessagesAre'
      BY Zenon, <2>3, MakeKeeps, MadeIsIssued
    <2>4. CASE Deliver
      BY <2>4, DeliverKeeps
    <2>5. CASE Carry
      BY <2>5, CarryKeeps
    <2>6. ASSUME NEW field \in DOMAIN received, Alter(field) PROVE MessagesAre'
      BY Zenon, <2>6, AlterKeeps
    <2>. QED BY Zenon, <2>1, <2>2, <2>3, <2>4, <2>5, <2>6 DEF Next
  <1>. QED BY <1>1, <1>2, PTL DEF Spec
----------------------------------------------------------------------------
(***************************************************************************)
(* The verdicts follow.                                                    *)
(***************************************************************************)

\* What the invariant says of receipts and of attestations.
LEMMA ReceiptsAre ==
    ASSUME MessagesAre
    PROVE  /\ \A r \in Receipts : Genuine(r) /\ r \in issued
           /\ IsReceipt => ReceiptLike(received, issued)
           /\ \A a \in Attestations : Attested(a) /\ a \in issued
           /\ received.kind = "attestation" => AttestationLike(received, issued)
  <1>1. \A r \in Receipts : Genuine(r) /\ r \in issued
    BY DEF MessagesAre, Issued, Receipts
  <1>2. IsReceipt => ReceiptLike(received, issued)
    BY KindsApart DEF MessagesAre, Incoming, AttestationLike, IsReceipt
  <1>3. \A a \in Attestations : Attested(a) /\ a \in issued
    BY DEF MessagesAre, Issued, Attestations
  <1>4. received.kind = "attestation" => AttestationLike(received, issued)
    BY KindsApart DEF MessagesAre, Incoming, ReceiptLike
  <1>. QED BY <1>1, <1>2, <1>3, <1>4

\* The hash of a value tells what the value says.
LEMMA HashExact ==
    ASSUME NEW v \in Values[MaxDepth], NEW w \in Values[MaxDepth]
    PROVE  /\ CanonicalSerialize(v) \in Words
           /\ Same(v, w) <=> CanonicalSerialize(v) = CanonicalSerialize(w)
           /\ CanonicalHash(v) = CanonicalHash(w) <=> CanonicalSerialize(v) = CanonicalSerialize(w)
  <1>1. CanonicalSerialize(v) \in Words /\ CanonicalSerialize(w) \in Words
    BY CanonicalExact, NothingFollows
  <1>2. Same(v, w) <=> CanonicalSerialize(v) = CanonicalSerialize(w)
    BY CanonicalExact, NothingFollows
  <1>3. CanonicalHash(v) = CanonicalHash(w) <=> CanonicalSerialize(v) = CanonicalSerialize(w)
    BY <1>1, DigestIs DEF CanonicalHash
  <1>. QED BY <1>1, <1>2, <1>3

\* Equal bytes, equal meanings.
LEMMA BytesFollow == ASSUME MessagesAre PROVE BytesAreMeaning
  <1>1. ASSUME IsReceipt, NEW r \in Receipts
        PROVE  Same(DecisionContent(received), DecisionContent(r))
                 <=> CanonicalHash(DecisionContent(received)) = CanonicalHash(DecisionContent(r))
    <2>1. HasContent(received) /\ HasContent(r)
      BY <1>1, ReceiptsAre DEF ReceiptLike, Genuine
    <2>2. DecisionContent(received) \in Values[MaxDepth] /\ DecisionContent(r) \in Values[MaxDepth]
      BY <2>1, ContentIs
    <2>. QED BY <2>2, HashExact
  <1>. QED BY <1>1 DEF BytesAreMeaning

\* Ids are accepted by the kind that generates them.
LEMMA IdsFollow == ASSUME MessagesAre PROVE IdsKeepTheirKind
  <1>1. ASSUME IsReceipt, NEW prefix \in IdPrefixes
        PROVE  NewIdOk(prefix, received.verity_id) <=> received.verity_id \in Generated(prefix)
    <2>. DEFINE id == received.verity_id
    <2>1. id \in IdTextsOverSymbols
      BY <1>1, ReceiptsAre DEF ReceiptLike, HasContent
    <2>. HIDE DEF id
    <2>2. id = IdText(id.prefix, id.rest) /\ id.rest \in Seq(Symbols)
      BY <2>1 DEF IdTextsOverSymbols, IdText
    <2>3. NewIdOk(prefix, id) <=> id \in Generated(prefix)
      BY <2>2, GeneratedExact
    <2>. QED BY <2>3 DEF id
  <1>. QED BY <1>1 DEF IdsKeepTheirKind

\* The policy hash is accepted for what it was computed from.
LEMMA PolicyFollows == ASSUME MessagesAre PROVE PolicyVerdictExact
  <1>1. ASSUME IsReceipt, PlainKeys(received.policy)
        PROVE  PolicyContentHash(received.policy) = CanonicalHash(received.policy)
    <2>1. received.policy \in Values[MaxDepth]
      BY <1>1, ReceiptsAre, DocsAre DEF ReceiptLike, HasContent
    <2>. QED BY <1>1, <2>1, PlainExact DEF PolicyContentHash, CanonicalHash
  <1>2. ASSUME IsReceipt, PlainKeys(received.policy), NEW r \in Receipts, PlainKeys(r.policy)
        PROVE  VerifyPolicyHash(received.policy, PolicyContentHash(r.policy))
                   <=> Same(received.policy, r.policy)
    <2>1. received.policy \in Values[MaxDepth] /\ r.policy \in Values[MaxDepth]
      BY <1>2, ReceiptsAre, DocsAre DEF ReceiptLike, Genuine, HasContent
    <2>2. /\ PolicyContentHash(received.policy) = CanonicalHash(received.policy)
          /\ PolicyContentHash(r.policy) = CanonicalHash(r.policy)
      BY <1>2, <2>1, PlainExact DEF PolicyContentHash, CanonicalHash
    <2>. QED BY <2>1, <2>2, HashExact DEF VerifyPolicyHash
  <1>. QED BY <1>1, <1>2 DEF PolicyVerdictExact

\* Three texts, one behind the other, are those of three documents only.
Triple(a, b, c) ==
    a \in Values[MaxDepth] /\ b \in Values[MaxDepth] /\ c \in Values[MaxDepth] /\ b.kind = "object"

\* An object's text ends where it ends, so that the text of the input need not be
\* separated from that of the rules, nor that one from the computation.
LEMMA TripleExact ==
    ASSUME NEW a, NEW b, NEW c, NEW d, NEW e, NEW f, Triple(a, b, c), Triple(d, e, f)
    PROVE  ReplayText(a, b, c) = ReplayText(d, e, f) <=> Same(a, d) /\ Same(b, e) /\ Same(c, f)
  <1>. DEFINE x == CanonicalSerialize(a)
              y == CanonicalSerialize(b)
              z == CanonicalSerialize(c)
              u == CanonicalSerialize(d)
              v == CanonicalSerialize(e)
              w == CanonicalSerialize(f)
  <1>1. /\ a \in Values[MaxDepth] /\ b \in Values[MaxDepth] /\ c \in Values[MaxDepth] /\ b.kind = "object"
        /\ d \in Values[MaxDepth] /\ e \in Values[MaxDepth] /\ f \in Values[MaxDepth] /\ e.kind = "object"
    BY DEF Triple
  <1>2. /\ x \in Words /\ y \in Words /\ z \in Words /\ u \in Words /\ v \in Words /\ w \in Words
        /\ Same(a, d) <=> x = u
        /\ Same(b, e) <=> y = v
        /\ Same(c, f) <=> z = w
    BY <1>1, HashExact
  <1>3. /\ ReplayText(a, b, c) = x ++ (y ++ z) /\ y ++ z \in Words
        /\ ReplayText(d, e, f) = u ++ (v ++ w) /\ v ++ w \in Words
    BY <1>1, ReplayTextIs
  <1>4. y # <<>> /\ v # <<>> /\ y[1] = LeftBrace /\ v[1] = LeftBrace
    BY <1>1, CanonicalObject, CanonicalExact, NothingFollows DEF Opens
  <1>5. y ++ z \in Follow /\ v ++ w \in Follow
    <2>1. (y ++ z)[1] = LeftBrace /\ (v ++ w)[1] = LeftBrace
      <3>. HIDE DEF x, y, z, u, v, w
      <3>. QED BY <1>2, <1>4 DEF Words, ++
    <2>2. LeftBrace \in Punctuation
      BY DEF Punctuation
    <2>. HIDE DEF x, y, z, u, v, w
    <2>. QED BY <1>3, <2>1, <2>2 DEF Follow
  <1>6. x ++ (y ++ z) = u ++ (v ++ w) => Same(a, d) /\ y ++ z = v ++ w
    BY <1>1, <1>5, CanonicalExact
  <1>7. y ++ z = v ++ w => Same(b, e) /\ z = w
    <2>1. SUFFICES ASSUME y ++ z = v ++ w PROVE Same(b, e) /\ z = w
      OBVIOUS
    <2>2. CanonicalAlike(b, z, e, w)
      BY <1>1, <1>2, <2>1 DEF CanonicalAlike
    <2>. QED BY <1>1, <2>2, CanonicalObjects
  <1>8. Same(a, d) /\ Same(b, e) /\ Same(c, f) => ReplayText(a, b, c) = ReplayText(d, e, f)
    BY <1>2, <1>3
  <1>. HIDE DEF x, y, z, u, v, w
  <1>. QED BY <1>2, <1>3, <1>6, <1>7, <1>8

\* The replay hash is accepted for what it was computed from.
LEMMA ReplayFollows == ASSUME MessagesAre PROVE ReplayVerdictExact
  <1>1. ASSUME IsReceipt, NEW r \in Receipts
        PROVE  VerifyReplayHash(r.replay_hash, received.input_state,
                                received.rules_applied, received.computation) =
                 Verdict(/\ Same(received.input_state, r.input_state)
                         /\ Same(received.rules_applied, r.rules_applied)
                         /\ Same(received.computation, r.computation))
    <2>. DEFINE a == received.input_state
                b == received.rules_applied
                c == received.computation
                d == r.input_state
                e == r.rules_applied
                f == r.computation
                same == Same(a, d) /\ Same(b, e) /\ Same(c, f)
    <2>1. HasContent(received) /\ HasContent(r) /\ r.replay_hash = ComputeReplayHash(d, e, f)
      BY <1>1, ReceiptsAre DEF ReceiptLike, Genuine
    <2>2. Triple(a, b, c) /\ Triple(d, e, f)
      BY <2>1, DocsAre DEF HasContent, Triple
    <2>. HIDE DEF a, b, c, d, e, f
    <2>3. ReplayText(a, b, c) \in Words /\ ReplayText(d, e, f) \in Words
      BY <2>2, ReplayTextIs DEF Triple
    <2>4. ComputeReplayHash(d, e, f) = ComputeReplayHash(a, b, c) <=> ReplayText(a, b, c) = ReplayText(d, e, f)
      BY <2>3, DigestIs DEF ComputeReplayHash
    <2>5. ReplayText(a, b, c) = ReplayText(d, e, f) <=> same
      BY <2>2, TripleExact
    <2>6. (r.replay_hash = ComputeReplayHash(a, b, c)) = same
      BY <2>1, <2>4, <2>5
    <2>7. VerifyReplayHash(r.replay_hash, a, b, c) = Verdict(r.replay_hash = ComputeReplayHash(a, b, c))
      BY Zenon DEF VerifyReplayHash
    <2>8. VerifyReplayHash(r.replay_hash, a, b, c) = Verdict(same)
      <3>. HIDE DEF same
      <3>. QED BY Zenon, <2>6, <2>7
    <2>. QED BY <2>8 DEF a, b, c, d, e, f
  <1>. QED BY Zenon, <1>1 DEF ReplayVerdictExact

\* What an attestation signs begins as no document does.
LEMMA AttestationTextIsWord ==
    ASSUME NEW p \in AttestedPayloads
    PROVE  AttestationText(p) \in Words
  <1>. DEFINE a == Field(Colon, KeyWord("condition_id"), Quoted(p.condition_id))
              b == Field(Colon, KeyWord("confidence_bps"), p.confidence_bps)
              c == Field(Colon, KeyWord("result"), p.result)
              d == Field(Colon, KeyWord("signed_at"), Quoted(p.signed_at))
  <1>1. /\ FourWords(a, b, c, d)
        /\ AttestationText(p) = (Mark(LeftBrace) ++ (UpToLast(a, b, c) ++ d)) ++ Mark(RightBrace)
    BY AttestationTextIs
  <1>. HIDE DEF a, b, c, d
  <1>2. UpToLast(a, b, c) ++ d \in Words
    BY <1>1, UpToLastIs
  <1>3. Mark(LeftBrace) \in Words /\ Mark(RightBrace) \in Words
    BY Marks DEF Mark, Words
  <1>. QED BY <1>1, <1>2, <1>3, Joins

\* The hash of a payload is one of that payload only.
LEMMA PayloadHashIs ==
    ASSUME NEW p \in Payloads
    PROVE  /\ AttestationPayloadHash(p) = [prefix |-> "sha256:", codec |-> "hex", whole |-> TRUE,
                                           bytes |-> Digest(AttestationText(p))]
           /\ AttestationPayloadHash(p).bytes = Digest(AttestationText(p))
           /\ Digest(AttestationText(p)) \in Words
           /\ Digest(AttestationText(p))[1] # LeftBrace
           /\ \A q \in Payloads : AttestationPayloadHash(p) = AttestationPayloadHash(q) => p = q
  <1>1. Payloads \subseteq AttestedPayloads
    BY ReceiptExchangeAssumption DEF AttestedPayloads
  <1>2. \A q \in Payloads : AttestationText(q) \in Words
    BY <1>1, AttestationTextIsWord
  <1>3. /\ AttestationPayloadHash(p) = [prefix |-> "sha256:", codec |-> "hex", whole |-> TRUE,
                                        bytes |-> Digest(AttestationText(p))]
        /\ Digest(AttestationText(p)) \in Words
    BY <1>2, DigestIs DEF AttestationPayloadHash
  <1>4. Digest(AttestationText(p))[1] = "sha256"
    <2>. DEFINE t == AttestationText(p)
    <2>1. t \in Words
      BY <1>2
    <2>. HIDE DEF t
    <2>2. (<<"sha256">> \o t)[1] = "sha256"
      BY <2>1 DEF Words
    <2>. QED BY <2>2 DEF Digest, t
  <1>5. "sha256" # LeftBrace
    BY Zenon DEF LeftBrace
  <1>6. ASSUME NEW q \in Payloads, AttestationPayloadHash(p) = AttestationPayloadHash(q) PROVE p = q
    <2>1. AttestationText(p) = AttestationText(q)
      BY <1>2, <1>6, DigestIs DEF AttestationPayloadHash
    <2>. QED BY <1>1, <2>1, AttestationTextExact
  <1>7. Digest(AttestationText(p))[1] # LeftBrace
    BY <1>4, <1>5
  <1>8. AttestationPayloadHash(p).bytes = Digest(AttestationText(p))
    BY <1>3
  <1>. QED BY <1>3, <1>6, <1>7, <1>8


\* Bytes come out of a text as they were put in.
LEMMA WireBytes ==
    ASSUME NEW prefix, NEW codec, NEW bytes, NEW w, w = Wire(prefix, codec, bytes)
    PROVE  w.bytes = bytes
  BY DEF Wire

\* The bytes of an attestation's signature are its signer's over its hash.
LEMMA AttestedBytes ==
    ASSUME NEW m, Attested(m)
    PROVE  m.signature.bytes = Signature(m.signer, m.payload_hash.bytes)
  <1>1. \E prefix : m.signature = Wire(prefix, "url_safe_no_pad", Signature(m.signer, m.payload_hash.bytes))
    BY Zenon DEF Attested
  <1>. QED BY <1>1, WireBytes

\* A signature in one of the two forms is the one that was made.
LEMMA SameSignature ==
    ASSUME NEW s, s = [prefix |-> s.prefix, codec |-> s.codec, bytes |-> s.bytes, whole |-> s.whole],
           s.whole = TRUE, NEW bytes
    PROVE  s = Wire(s.prefix, s.codec, bytes) <=> s.bytes = bytes
  <1>1. ASSUME s = Wire(s.prefix, s.codec, bytes) PROVE s.bytes = bytes
    BY <1>1 DEF Wire
  <1>2. ASSUME s.bytes = bytes PROVE s = Wire(s.prefix, s.codec, bytes)
    BY <1>2 DEF Wire
  <1>. QED BY <1>1, <1>2

\* What a receipt's signature says of a content.
LEMMA SignedContentExact ==
    ASSUME MessagesAre, IsReceipt, NEW s, Signed(s, issued),
           s.prefix = "ed25519:", s.codec = "standard", s.whole = TRUE
    PROVE  s.bytes = Signature(received.signer, CanonicalSerialize(DecisionContent(received)))
             <=> \E r \in Receipts : /\ r.signer = received.signer /\ r.signature = s
                                     /\ Same(DecisionContent(r), DecisionContent(received))
  <1>. DEFINE content == DecisionContent(received)
              signed == \E r \in Receipts : /\ r.signer = received.signer /\ r.signature = s
                                            /\ Same(DecisionContent(r), content)
              bytes == Signature(received.signer, CanonicalSerialize(content))
  <1>1. HasContent(received)
    BY ReceiptsAre DEF ReceiptLike
  <1>2. content \in Values[MaxDepth] /\ content.kind = "object"
    BY <1>1, ContentIs
  <1>. HIDE DEF content
  <1>3. ASSUME NEW r \in Receipts
        PROVE  /\ DecisionContent(r) \in Values[MaxDepth]
               /\ r.signature = Wire("ed25519:", "standard",
                                     Signature(r.signer, CanonicalSerialize(DecisionContent(r))))
    <2>1. Genuine(r)
      BY ReceiptsAre
    <2>. QED BY <2>1, ContentIs DEF Genuine, Sign
  <1>4. s = [prefix |-> s.prefix, codec |-> s.codec, bytes |-> s.bytes, whole |-> s.whole]
    BY DEF Signed
  <1>5. ASSUME signed PROVE s.bytes = bytes
    <2>1. PICK r \in Receipts : /\ r.signer = received.signer /\ r.signature = s
                                /\ Same(DecisionContent(r), content)
      BY <1>5
    <2>2. CanonicalSerialize(DecisionContent(r)) = CanonicalSerialize(content)
      BY <1>2, <1>3, <2>1, HashExact
    <2>3. s = Wire(s.prefix, s.codec, Signature(r.signer, CanonicalSerialize(DecisionContent(r))))
      BY <1>3, <2>1
    <2>4. s.bytes = Signature(r.signer, CanonicalSerialize(DecisionContent(r)))
      BY <1>4, <2>3, SameSignature
    <2>. QED BY <2>1, <2>2, <2>4
  <1>6. ASSUME s.bytes = bytes PROVE signed
    <2>1. PICK m \in issued : s.bytes = m.signature.bytes
      BY DEF Signed
    <2>2. Issued(m)
      BY DEF MessagesAre
    <2>3. CASE m.kind = "receipt"
      <3>1. m \in Receipts
        BY <2>3 DEF Receipts
      <3>2. m.signature.bytes = Signature(m.signer, CanonicalSerialize(DecisionContent(m)))
        BY <1>3, <3>1, WireBytes
      <3>7. Signature(m.signer, CanonicalSerialize(DecisionContent(m)))
              = Signature(received.signer, CanonicalSerialize(content))
        BY <1>6, <2>1, <3>2
      <3>3. m.signer = received.signer /\ CanonicalSerialize(DecisionContent(m)) = CanonicalSerialize(content)
        BY ONLY <3>7 DEF Signature
      <3>4. Same(DecisionContent(m), content)
        BY <1>2, <1>3, <3>1, <3>3, HashExact
      <3>5. m.signature = Wire(s.prefix, s.codec, s.bytes)
        BY <1>3, <2>1, <3>1, <3>2
      <3>6. s = Wire(s.prefix, s.codec, s.bytes)
        BY <1>4, SameSignature
      <3>. QED BY <3>1, <3>3, <3>4, <3>5, <3>6
    <2>4. CASE m.kind = "attestation"
      <3>1. Attested(m)
        BY <2>2, <2>4 DEF Issued
      <3>2. m.signature.bytes = Signature(m.signer, m.payload_hash.bytes)
        BY <3>1, AttestedBytes
      <3>6. Signature(m.signer, m.payload_hash.bytes) = Signature(received.signer, CanonicalSerialize(content))
        BY <1>6, <2>1, <3>2
      <3>3. m.payload_hash.bytes = CanonicalSerialize(content)
        BY ONLY <3>6 DEF Signature
      <3>4. m.payload_hash.bytes[1] # LeftBrace
        <4>1. m.payload \in Payloads /\ m.payload_hash = AttestationPayloadHash(m.payload)
          BY <3>1 DEF Attested
        <4>2. m.payload_hash.bytes = Digest(AttestationText(m.payload))
          BY <4>1, PayloadHashIs
        <4>. QED BY <4>1, <4>2, PayloadHashIs
      <3>5. CanonicalSerialize(content)[1] = LeftBrace
        BY <1>2, CanonicalObject
      <3>. QED BY <3>3, <3>4, <3>5
    <2>. QED BY <2>2, <2>3, <2>4 DEF Issued
  <1>. HIDE DEF signed, bytes
  <1>7. s.bytes = bytes <=> signed
    BY <1>5, <1>6
  <1>. QED BY <1>7 DEF signed, bytes, content

\* The verdict, whatever the signature.
LEMMA VerifySignatureIs ==
    ASSUME NEW key, NEW content, NEW s
    PROVE  /\ Decodes(s, "ed25519:", "standard") =>
                 VerifySignature(key, content, s) = Verdict(s.bytes = Signature(key, CanonicalSerialize(content)))
           /\ ~Decodes(s, "ed25519:", "standard") => VerifySignature(key, content, s) = NoVerdict
  <1>1. /\ Decodes(s, "ed25519:", "standard") =>
              VerifySignature(key, content, s) = Verdict(s.bytes = Signature(key, CanonicalSerialize(content)))
    BY Zenon DEF VerifySignature
  <1>2. ~Decodes(s, "ed25519:", "standard") => VerifySignature(key, content, s) = NoVerdict
    BY Zenon DEF VerifySignature
  <1>. QED BY <1>1, <1>2

\* A receipt's signature is accepted for what its signer signed.
LEMMA SignatureFollows == ASSUME MessagesAre PROVE SignatureVerdictExact
  <1>. DEFINE s == received.signature
              content == DecisionContent(received)
              signed == \E r \in Receipts :
                          /\ r.signer = received.signer
                          /\ r.signature = s
                          /\ Same(DecisionContent(r), content)
              verdict == VerifySignature(received.signer, content, s)
              decodes == s.prefix = "ed25519:" /\ s.codec = "standard" /\ s.whole
  <1>1. ASSUME IsReceipt PROVE verdict = IF decodes THEN Verdict(signed) ELSE NoVerdict
    <2>1. Signed(s, issued)
      BY <1>1, ReceiptsAre DEF ReceiptLike
    <2>2. ASSUME decodes PROVE verdict = Verdict(signed)
      <3>1. s.whole = TRUE
        BY <2>1, <2>2 DEF Signed
      <3>2. (s.bytes = Signature(received.signer, CanonicalSerialize(content))) = signed
        BY <1>1, <2>1, <2>2, <3>1, SignedContentExact
      <3>3. verdict = Verdict(s.bytes = Signature(received.signer, CanonicalSerialize(content)))
        <4>1. Decodes(s, "ed25519:", "standard")
          BY <2>2 DEF Decodes
        <4>. HIDE DEF s, content
        <4>. QED BY Zenon, <4>1, VerifySignatureIs
      <3>. HIDE DEF signed, verdict, s, content
      <3>. QED BY Zenon, <3>2, <3>3
    <2>3. ASSUME ~decodes PROVE verdict = NoVerdict
      <3>1. ~Decodes(s, "ed25519:", "standard")
        BY <2>3 DEF Decodes
      <3>. HIDE DEF s, content
      <3>. QED BY Zenon, <3>1, VerifySignatureIs
    <2>. HIDE DEF signed, verdict, decodes, s, content
    <2>. QED BY Zenon, <2>2, <2>3
  <1>2. IsReceipt => VerifySignature(received.signer, DecisionContent(received), received.signature)
                       = IF decodes THEN Verdict(signed) ELSE NoVerdict
    BY Zenon, <1>1
  <1>. HIDE DEF signed
  <1>3. SignatureVerdictExact <=> (IsReceipt => verdict = IF decodes THEN Verdict(signed) ELSE NoVerdict)
    BY Zenon DEF SignatureVerdictExact, signed
  <1>. QED BY Zenon, <1>2, <1>3

\* The form of an attestation's signature.
Unprefixed(s) == s.prefix = "" /\ s.codec = "url_safe_no_pad" /\ s.whole = TRUE

HasForm(w, prefix, codec, bytes) == w.prefix = prefix /\ w.codec = codec /\ w.bytes = bytes /\ w.whole

\* Bytes on the wire are in the form they were put in.
LEMMA WireIs ==
    ASSUME NEW prefix, NEW codec, NEW bytes
    PROVE  HasForm(Wire(prefix, codec, bytes), prefix, codec, bytes)
  BY DEF Wire, HasForm

\* A signature that decodes as an attestation's is in the form of one.
LEMMA UnprefixedIs ==
    ASSUME NEW messages, NEW s, Signed(s, messages), Unprefixed(s)
    PROVE  s = Wire("", "url_safe_no_pad", s.bytes)
  <1>1. s.whole = TRUE /\ \E codec : s.codec = codec
    BY Zenon DEF Unprefixed
  <1>2. s = Wire(s.prefix, s.codec, s.bytes)
    BY <1>1, SameSignature DEF Signed
  <1>. QED BY Zenon, <1>2 DEF Unprefixed

\* What an attestation's signature says of a payload's hash.
LEMMA AttestedHashExact ==
    ASSUME MessagesAre, received.kind = "attestation", NEW s, Signed(s, issued),
           Unprefixed(s), NEW p \in Payloads
    PROVE  s.bytes = Signature(received.signer, AttestationPayloadHash(p).bytes)
             <=> \E a \in Attestations : /\ a.signer = received.signer /\ a.signature = s
                                         /\ AttestationPayloadHash(a.payload) = AttestationPayloadHash(p)
  <1>. DEFINE hash == AttestationPayloadHash(p)
              attested == \E a \in Attestations : /\ a.signer = received.signer /\ a.signature = s
                                                  /\ AttestationPayloadHash(a.payload) = hash
              bytes == Signature(received.signer, hash.bytes)

  <1>2. ASSUME attested PROVE s.bytes = bytes
    <2>1. PICK a \in Attestations : /\ a.signer = received.signer /\ a.signature = s
                                    /\ AttestationPayloadHash(a.payload) = hash
      BY <1>2
    <2>2. Attested(a)
      BY ReceiptsAre
    <2>3. a.signature.bytes = Signature(a.signer, a.payload_hash.bytes) /\ a.payload_hash = hash
      BY <2>1, <2>2, AttestedBytes DEF Attested
    <2>. QED BY <2>1, <2>3
  <1>3. ASSUME s.bytes = bytes PROVE attested
    <2>1. PICK m \in issued : s.bytes = m.signature.bytes
      BY DEF Signed
    <2>2. Issued(m)
      BY DEF MessagesAre
    <2>3. hash.bytes = Digest(AttestationText(p)) /\ hash.bytes[1] # LeftBrace
      BY PayloadHashIs
    <2>4. CASE m.kind = "receipt"
      <3>1. Genuine(m)
        BY <2>2, <2>4 DEF Issued
      <3>2. m.signature = Wire("ed25519:", "standard", Signature(m.signer, CanonicalSerialize(DecisionContent(m))))
        BY <3>1 DEF Genuine, Sign
      <3>3. m.signature.bytes = Signature(m.signer, CanonicalSerialize(DecisionContent(m)))
        BY <3>2, WireBytes
      <3>. HIDE DEF hash
      <3>4. Signature(m.signer, CanonicalSerialize(DecisionContent(m))) = Signature(received.signer, hash.bytes)
        BY <1>3, <2>1, <3>3
      <3>5. CanonicalSerialize(DecisionContent(m)) = hash.bytes
        BY ONLY <3>4 DEF Signature
      <3>6. CanonicalSerialize(DecisionContent(m))[1] = LeftBrace
        BY <3>1, ContentIs, CanonicalObject DEF Genuine
      <3>. QED BY <2>3, <3>5, <3>6
    <2>5. CASE m.kind = "attestation"
      <3>1. Attested(m) /\ m \in Attestations
        BY <2>2, <2>5 DEF Issued, Attestations
      <3>2. m.payload \in Payloads /\ m.payload_hash = AttestationPayloadHash(m.payload)
        BY <3>1 DEF Attested
      <3>3. m.signature.bytes = Signature(m.signer, m.payload_hash.bytes)
        BY <3>1, AttestedBytes
      <3>. HIDE DEF hash
      <3>4. Signature(m.signer, m.payload_hash.bytes) = Signature(received.signer, hash.bytes)
        BY <1>3, <2>1, <3>3
      <3>5. m.signer = received.signer /\ m.payload_hash.bytes = hash.bytes
        BY ONLY <3>4 DEF Signature
      <3>6. AttestationPayloadHash(m.payload) = hash
        <4>1. AttestationPayloadHash(m.payload) = [prefix |-> "sha256:", codec |-> "hex", whole |-> TRUE,
                                                   bytes |-> Digest(AttestationText(m.payload))]
          BY <3>2, PayloadHashIs
        <4>3. AttestationPayloadHash(m.payload).bytes = Digest(AttestationText(m.payload))
          BY <3>2, PayloadHashIs
        <4>2. hash = [prefix |-> "sha256:", codec |-> "hex", whole |-> TRUE,
                      bytes |-> Digest(AttestationText(p))]
          BY PayloadHashIs DEF hash
        <4>4. Digest(AttestationText(m.payload)) = Digest(AttestationText(p))
          BY <2>3, <3>2, <3>5, <4>3
        <4>. QED BY Zenon, <4>1, <4>2, <4>4
      <3>7. m.signature = s
        <4>1. m.signature = Wire("", "url_safe_no_pad", Signature(m.signer, m.payload_hash.bytes))
          BY Zenon, <3>1 DEF Attested
        <4>2. Signature(m.signer, m.payload_hash.bytes) = s.bytes
          BY <2>1, <3>3
        <4>3. s = Wire("", "url_safe_no_pad", s.bytes)
          BY UnprefixedIs
        <4>. QED BY Zenon, <4>1, <4>2, <4>3
      <3>. QED BY <3>1, <3>5, <3>6, <3>7
    <2>. QED BY <2>2, <2>4, <2>5 DEF Issued
  <1>. HIDE DEF attested, bytes
  <1>4. s.bytes = bytes <=> attested
    BY <1>2, <1>3
  <1>. QED BY <1>4 DEF attested, bytes, hash

\* The verdict on a whole hash, whatever the signature.
LEMMA VerifyAttestationIs ==
    ASSUME NEW key, NEW s, NEW hash, hash.prefix = "sha256:", hash.codec = "hex", hash.whole = TRUE
    PROVE  /\ Decodes(s, "", "url_safe_no_pad") =>
                 VerifyAttestation(hash, s, PublicKey(key)) = Verdict(s.bytes = Signature(key, hash.bytes))
           /\ ~Decodes(s, "", "url_safe_no_pad") => VerifyAttestation(hash, s, PublicKey(key)) = NoVerdict
  <1>1. HasForm(PublicKey(key), "", "url_safe_no_pad", key)
    BY Zenon, WireIs DEF PublicKey
  <1>2. PublicKey(key).prefix = "" /\ PublicKey(key).codec = "url_safe_no_pad" /\ PublicKey(key).bytes = key
        /\ PublicKey(key).whole
    BY Zenon, <1>1 DEF HasForm
  <1>3. Decodes(PublicKey(key), "", "url_safe_no_pad")
    BY Zenon, <1>2 DEF Decodes
  <1>4. ASSUME Decodes(s, "", "url_safe_no_pad")
        PROVE  VerifyAttestation(hash, s, PublicKey(key)) = Verdict(s.bytes = Signature(key, hash.bytes))
    <2>1. VerifyAttestation(hash, s, PublicKey(key)) =
            Verdict(hash.whole /\ s.bytes = Signature(PublicKey(key).bytes, hash.bytes))
      BY Zenon, <1>3, <1>4 DEF VerifyAttestation
    <2>2. (hash.whole /\ s.bytes = Signature(PublicKey(key).bytes, hash.bytes))
            = (s.bytes = Signature(key, hash.bytes))
      BY Zenon, <1>2
    <2>. QED BY Zenon, <2>1, <2>2
  <1>5. ASSUME ~Decodes(s, "", "url_safe_no_pad")
        PROVE  VerifyAttestation(hash, s, PublicKey(key)) = NoVerdict
    BY Zenon, <1>5 DEF VerifyAttestation
  <1>. QED BY <1>4, <1>5

\* The bytes of the signature tell whether the signer attested a payload with this hash.
LEMMA ReceivedHashExact ==
    ASSUME MessagesAre, received.kind = "attestation", NEW p \in Payloads, Unprefixed(received.signature)
    PROVE  received.signature.bytes = Signature(received.signer, AttestationPayloadHash(p).bytes)
             <=> \E a \in Attestations : /\ a.signer = received.signer
                                         /\ a.signature = received.signature
                                         /\ AttestationPayloadHash(a.payload) = AttestationPayloadHash(p)
  <1>1. Signed(received.signature, issued)
    BY ReceiptsAre DEF AttestationLike
  <1>. QED BY <1>1, AttestedHashExact

\* The verdict on the hash of some payload.
LEMMA VerdictOfHash ==
    ASSUME MessagesAre, received.kind = "attestation", NEW p \in Payloads
    PROVE  VerifyAttestation(AttestationPayloadHash(p), received.signature, PublicKey(received.signer)) =
             IF Decodes(received.signature, "", "url_safe_no_pad")
             THEN Verdict(\E a \in Attestations :
                             /\ a.signer = received.signer
                             /\ a.signature = received.signature
                             /\ AttestationPayloadHash(a.payload) = AttestationPayloadHash(p))
             ELSE NoVerdict
  <1>. DEFINE s == received.signature
              hash == AttestationPayloadHash(p)
              key == received.signer
              attested == \E a \in Attestations :
                             /\ a.signer = received.signer
                             /\ a.signature = received.signature
                             /\ AttestationPayloadHash(a.payload) = AttestationPayloadHash(p)
  <1>1. Signed(s, issued)
    BY ReceiptsAre DEF AttestationLike
  <1>2. hash.prefix = "sha256:" /\ hash.codec = "hex" /\ hash.whole = TRUE
    BY PayloadHashIs
  <1>3. ASSUME Decodes(s, "", "url_safe_no_pad")
        PROVE  VerifyAttestation(hash, s, PublicKey(key)) = Verdict(attested)
    <2>1. s.whole
      BY Zenon, <1>3 DEF Decodes
    <2>2. s.whole = TRUE
      BY ONLY <1>1, <2>1 DEF Signed
    <2>3. Unprefixed(s)
      BY Zenon, <1>3, <2>2 DEF Decodes, Unprefixed
    <2>4. (s.bytes = Signature(key, hash.bytes)) = attested
      <3>1. s.bytes = Signature(key, hash.bytes) <=> attested
        BY Zenon, <2>3, ReceivedHashExact
      <3>. HIDE DEF attested, hash, s, key
      <3>. QED BY ONLY <3>1
    <2>5. VerifyAttestation(hash, s, PublicKey(key)) = Verdict(s.bytes = Signature(key, hash.bytes))
      <3>. HIDE DEF hash, s, key
      <3>. QED BY Zenon, <1>2, <1>3, VerifyAttestationIs
    <2>. HIDE DEF attested, hash, s, key
    <2>. QED BY Zenon, <2>4, <2>5
  <1>4. ASSUME ~Decodes(s, "", "url_safe_no_pad")
        PROVE  VerifyAttestation(hash, s, PublicKey(key)) = NoVerdict
    <2>. HIDE DEF hash, s, key
    <2>. QED BY Zenon, <1>2, <1>4, VerifyAttestationIs
  <1>. QED BY Zenon, <1>3, <1>4

\* An attestation is accepted for what its verifier attested.
LEMMA AttestationFollows == ASSUME MessagesAre PROVE AttestationVerdictExact
  <1>. DEFINE s == received.signature
              attested(hash) == \E a \in Attestations :
                                  /\ a.signer = received.signer
                                  /\ a.signature = s
                                  /\ AttestationPayloadHash(a.payload) = hash
              verdict(hash) == VerifyAttestation(hash, s, PublicKey(received.signer))
              decodes == s.prefix = "" /\ s.codec = "url_safe_no_pad" /\ s.whole
              ofPayload == \E a \in Attestations :
                              a.signer = received.signer /\ a.signature = s
                                  /\ a.payload = received.payload
  <1>. SUFFICES ASSUME received.kind = "attestation"
                PROVE  /\ verdict(received.payload_hash) =
                            IF decodes THEN Verdict(attested(received.payload_hash)) ELSE NoVerdict
                       /\ verdict(AttestationPayloadHash(received.payload)) =
                            IF decodes THEN Verdict(ofPayload) ELSE NoVerdict
    BY Zenon DEF AttestationVerdictExact
  <1>1. decodes <=> Decodes(s, "", "url_safe_no_pad")
    BY Zenon DEF Decodes
  <1>2. received.payload \in Payloads /\ \E p \in Payloads : received.payload_hash = AttestationPayloadHash(p)
    BY ReceiptsAre DEF AttestationLike
  <1>. HIDE DEF decodes
  <1>3. ASSUME NEW p \in Payloads
        PROVE  verdict(AttestationPayloadHash(p)) =
                 IF decodes THEN Verdict(attested(AttestationPayloadHash(p))) ELSE NoVerdict
    BY Zenon, <1>1, VerdictOfHash
  <1>4. attested(AttestationPayloadHash(received.payload)) <=> ofPayload
    <2>1. \A a \in Attestations :
             AttestationPayloadHash(a.payload) = AttestationPayloadHash(received.payload)
                <=> a.payload = received.payload
      <3>1. \A a \in Attestations : a.payload \in Payloads
        BY ReceiptsAre DEF Attested
      <3>. QED BY <1>2, <3>1, PayloadHashIs
    <2>. QED BY Zenon, <2>1
  <1>5. verdict(AttestationPayloadHash(received.payload)) = IF decodes THEN Verdict(ofPayload) ELSE NoVerdict
    <2>. DEFINE other == attested(AttestationPayloadHash(received.payload))
    <2>1. verdict(AttestationPayloadHash(received.payload)) = IF decodes THEN Verdict(other) ELSE NoVerdict
      BY Zenon, <1>2, <1>3
    <2>2. other = ofPayload
      <3>1. other <=> ofPayload
        BY Zenon, <1>4
      <3>. HIDE DEF other, ofPayload
      <3>. QED BY ONLY <3>1
    <2>. HIDE DEF other, ofPayload, verdict
    <2>. QED BY Zenon, <2>1, <2>2
  <1>6. verdict(received.payload_hash) = IF decodes THEN Verdict(attested(received.payload_hash)) ELSE NoVerdict
    <2>1. PICK p \in Payloads : received.payload_hash = AttestationPayloadHash(p)
      BY <1>2
    <2>2. verdict(AttestationPayloadHash(p)) =
                 IF decodes THEN Verdict(attested(AttestationPayloadHash(p))) ELSE NoVerdict
      BY Zenon, <1>3
    <2>. QED BY Zenon, <2>1, <2>2
  <1>. QED BY Zenon, <1>5, <1>6

\* canonical_hash() gives two receipts the same bytes exactly if they say the same, for
\* documents of any size, keys and nesting a parser lets through: sort_json_value() leaves
\* no trace of the order members were in and escapes keep keys and texts apart.
THEOREM BytesMean == Spec => []BytesAreMeaning
  BY MessagesAreKept, BytesFollow, PTL

\* verify_signature() returns Ok(true) exactly for a decision the signer signed, in whatever
\* order its JSON arrives, Ok(false) for anything else that decodes, and an Err for what does
\* not, with any number of keys, receipts, and changes on the way.
THEOREM SignaturesBind == Spec => []SignatureVerdictExact
  BY MessagesAreKept, SignatureFollows, PTL

\* verify_replay_hash() accepts a receipt's hash for its own input, rules and computation
\* only, although compute_replay_hash() puts no separator between the three texts.
THEOREM ReplaysBind == Spec => []ReplayVerdictExact
  BY MessagesAreKept, ReplayFollows, PTL

\* verify_policy_hash() accepts what says the same as the policy a receipt was issued under,
\* and canonical_json() writes what canonical_serialize() writes, for all policies whose
\* keys need no escape; for others it does not (the run policy).
THEOREM PoliciesBind == Spec => []PolicyVerdictExact
  BY MessagesAreKept, PolicyFollows, PTL

\* verify_attestation() returns Ok(true) exactly for what was attested with the key, even
\* though attestation_payload_hash() escapes no quote: a condition id made to look like the
\* end of the text is not taken for it.
THEOREM AttestationsBind == Spec => []AttestationVerdictExact
  BY MessagesAreKept, AttestationFollows, PTL

\* new() of each kind of id accepts exactly what generate() of that kind returns, whatever
\* the number of digits.
THEOREM IdsKeepKind == Spec => []IdsKeepTheirKind
  BY MessagesAreKept, IdsFollow, PTL
=============================================================================
