--------------------------- MODULE TradingProofs ---------------------------
(***************************************************************************)
(* Proofs about Trading, for any requests, prices, volumes, match modes    *)
(* and bounds, with a strategy that cancels only orders it has an answer   *)
(* for.                                                                    *)
(***************************************************************************)
EXTENDS Trading, FiniteSetTheorems, WellFoundedInduction, TLAPS

(***************************************************************************)
(* Recursion and sums.  Facts about recursive functions are proved from    *)
(* the least natural number at which they would fail.                      *)
(***************************************************************************)

LEMMA LeastNat ==
  ASSUME NEW T \in SUBSET Nat, T # {}
  PROVE  \E x \in T : \A y \in T : x <= y
  <1>1. IsWellFoundedOn(OpToRel(<, Nat), Nat) BY NatLessThanWellFounded
  <1>2. PICK x \in T : \A y \in T : ~(<<y, x>> \in OpToRel(<, Nat)) BY <1>1, WFMin
  <1>3. \A y \in T : ~(y < x) BY <1>2 DEF OpToRel
  <1>4. \A y \in T : x <= y BY <1>3
  <1> QED BY <1>4

\* some function on m .. n starts with b and goes on with F
Recursive(B, b, m, n, F) ==
  \E g \in [m .. n -> B] : \A k \in m .. n : g[k] = IF k = m THEN b ELSE F[k][g[k - 1]]

LEMMA Recursion ==
  ASSUME NEW B, NEW b \in B, NEW m \in Nat, NEW n \in Nat, NEW F \in [Nat -> [B -> B]]
  PROVE  Recursive(B, b, m, n, F)
  <1> USE DEF Recursive
  <1> DEFINE Good(j) == Recursive(B, b, m, j, F)
  <1> DEFINE T == {j \in Nat : ~Good(j)}
  <1>1. SUFFICES ASSUME T # {} PROVE FALSE OBVIOUS
  <1>2. PICK j \in T : \A i \in T : j <= i
    <2>1. T \in SUBSET Nat OBVIOUS
    <2> HIDE DEF T
    <2> QED BY <1>1, <2>1, LeastNat
  <1>3. j \in Nat /\ ~Good(j) OBVIOUS
  <1>4. CASE j < m
    <2>1. m .. j = {} BY <1>3, <1>4
    <2>2. [k \in {} |-> b] \in [{} -> B] OBVIOUS
    <2>3. Good(j) BY <2>1, <2>2
    <2> QED BY <2>3, <1>3
  <1>5. CASE j = m
    <2>1. m .. j = {m} BY <1>3, <1>5
    <2>2. [k \in {m} |-> b] \in [{m} -> B] OBVIOUS
    <2>3. \A k \in {m} : [i \in {m} |-> b][k] = IF k = m THEN b ELSE F[k][[i \in {m} |-> b][k - 1]] OBVIOUS
    <2>4. Good(j) BY <2>1, <2>2, <2>3
    <2> QED BY <2>4, <1>3
  <1>6. CASE j > m
    <2>1. j - 1 \in Nat /\ j - 1 \notin T BY <1>2, <1>3, <1>6
    <2>2. PICK g \in [m .. j - 1 -> B] : \A k \in m .. j - 1 : g[k] = IF k = m THEN b ELSE F[k][g[k - 1]]
      BY <2>1
    <2> DEFINE h == [k \in m .. j |-> IF k = j THEN F[j][g[j - 1]] ELSE g[k]]
    <2>3. j - 1 \in m .. j - 1 BY <1>3, <1>6
    <2>4. g[j - 1] \in B BY <2>2, <2>3
    <2>5. h \in [m .. j -> B]
      <3>1. \A k \in m .. j : k # j => k \in m .. j - 1 BY <1>3
      <3> QED BY <3>1, <2>4, <1>3
    <2>6. ASSUME NEW k \in m .. j PROVE h[k] = IF k = m THEN b ELSE F[k][h[k - 1]]
      <3>1. CASE k = j
        <4>1. h[j - 1] = g[j - 1] BY <2>3, <1>3
        <4>2. h[j] = F[j][g[j - 1]] BY <1>3, <1>6
        <4> QED BY <4>1, <4>2, <3>1, <1>6
      <3>2. CASE k # j
        <4>1. k \in m .. j - 1 BY <3>2, <1>3
        <4>2. h[k] = g[k] BY <3>2
        <4>3. g[k] = IF k = m THEN b ELSE F[k][g[k - 1]] BY <2>2, <4>1
        <4>4. k # m => h[k - 1] = g[k - 1] BY <4>1, <1>3
        <4> QED BY <4>2, <4>3, <4>4
      <3> QED BY <3>1, <3>2
    <2>7. Good(j)
      <3> HIDE DEF h
      <3> QED BY <2>5, <2>6
    <2> QED BY <2>7, <1>3
  <1> QED BY <1>3, <1>4, <1>5, <1>6

\* g holds the sums of the first elements of s
Sums(g, s) == /\ g \in [0 .. Len(s) -> Int]
              /\ g[0] = 0
              /\ \A k \in 1 .. Len(s) : g[k] = g[k - 1] + s[k]

LEMMA SumsExist ==
  ASSUME NEW s \in Seq(Int)
  PROVE  \E g : Sums(g, s)
  <1> DEFINE F == [k \in Nat |-> [x \in Int |-> IF k \in 1 .. Len(s) THEN x + s[k] ELSE x]]
  <1>1. Len(s) \in Nat OBVIOUS
  <1>2. F \in [Nat -> [Int -> Int]] OBVIOUS
  <1>3. PICK g \in [0 .. Len(s) -> Int] :
          \A k \in 0 .. Len(s) : g[k] = IF k = 0 THEN 0 ELSE F[k][g[k - 1]]
    <2> HIDE DEF F
    <2>1. 0 \in Int /\ 0 \in Nat OBVIOUS
    <2>2. Recursive(Int, 0, 0, Len(s), F) BY <1>1, <1>2, <2>1, Recursion, Zenon
    <2> QED BY <2>2 DEF Recursive
  <1>4. \A k \in 1 .. Len(s) : F[k][g[k - 1]] = g[k - 1] + s[k]
    <2> TAKE k \in 1 .. Len(s)
    <2>1. k - 1 \in 0 .. Len(s) /\ k \in Nat /\ s[k] \in Int OBVIOUS
    <2>2. g[k - 1] \in Int BY <2>1
    <2> QED BY <2>1, <2>2
  <1> HIDE DEF F
  <1>5. g[0] = 0 BY <1>1, <1>3, SMTT(30)
  <1>6. \A k \in 1 .. Len(s) : g[k] = g[k - 1] + s[k]
    <2> TAKE k \in 1 .. Len(s)
    <2>1. k \in 0 .. Len(s) /\ k # 0 BY <1>1
    <2>2. g[k] = F[k][g[k - 1]] BY <1>3, <2>1
    <2> QED BY <2>2, <1>4
  <1> QED BY <1>5, <1>6 DEF Sums

LEMMA SumsAgree ==
  ASSUME NEW s \in Seq(Int), NEW g, NEW f, Sums(g, s),
         \A k \in 0 .. Len(s) : f[k] = IF k = 0 THEN 0 ELSE f[k - 1] + s[k]
  PROVE  f[Len(s)] = g[Len(s)]
  <1> DEFINE D == {k \in 0 .. Len(s) : g[k] # f[k]}
  <1>1. D \in SUBSET Nat /\ Len(s) \in Nat OBVIOUS
  <1>2. SUFFICES ASSUME D # {} PROVE FALSE BY <1>1
  <1>3. PICK k \in D : \A i \in D : k <= i
    <2> HIDE DEF D
    <2> QED BY <1>1, <1>2, LeastNat
  <1>4. k # 0 BY <1>1 DEF Sums
  <1>5. k - 1 \in 0 .. Len(s) /\ k - 1 \notin D BY <1>1, <1>3, <1>4
  <1> QED BY <1>1, <1>4, <1>5 DEF Sums

LEMMA TotalIs ==
  ASSUME NEW s \in Seq(Int), NEW g, Sums(g, s)
  PROVE  Total(s) = g[Len(s)]
  <1> DEFINE P(f) == f = [k \in 0 .. Len(s) |-> IF k = 0 THEN 0 ELSE f[k - 1] + s[k]]
  <1>1. Len(s) \in Nat OBVIOUS
  <1>2. P(g)
    <2>1. \A k \in 0 .. Len(s) : g[k] = IF k = 0 THEN 0 ELSE g[k - 1] + s[k] BY <1>1 DEF Sums
    <2>2. g \in [0 .. Len(s) -> Int] BY DEF Sums
    <2> QED BY <2>1, <2>2
  <1>3. P(CHOOSE f : P(f))
    <2> HIDE DEF P
    <2> QED BY <1>2
  <1>4. Total(s) = (CHOOSE f : P(f))[Len(s)] BY DEF Total
  <1>5. \A f : P(f) => \A k \in 0 .. Len(s) : f[k] = IF k = 0 THEN 0 ELSE f[k - 1] + s[k] OBVIOUS
  <1> HIDE DEF P
  <1> QED BY <1>3, <1>4, <1>5, SumsAgree

LEMMA IntSeqOf ==
  ASSUME NEW n \in Nat, NEW f \in [1 .. n -> Int]
  PROVE  f \in Seq(Int) /\ Len(f) = n
  OBVIOUS

Joined(S, a, b, t) ==
  /\ t \in Seq(S) /\ Len(t) = Len(a) + Len(b)
  /\ \A i \in 1 .. Len(a) : t[i] = a[i]
  /\ \A i \in 1 .. Len(b) : t[Len(a) + i] = b[i]

LEMMA ConcatAt ==
  ASSUME NEW S, NEW a \in Seq(S), NEW b \in Seq(S)
  PROVE  Joined(S, a, b, a \o b)
  BY DEF Joined

LEMMA SameSeq ==
  ASSUME NEW S, NEW a \in Seq(S), NEW b \in Seq(S), Len(a) = Len(b), \A i \in 1 .. Len(a) : a[i] = b[i]
  PROVE  a = b
  OBVIOUS

Associates(a, b, c) == (a \o b) \o c = a \o (b \o c)

LEMMA ConcatAssoc ==
  ASSUME NEW S, NEW a \in Seq(S), NEW b \in Seq(S), NEW c \in Seq(S)
  PROVE  Associates(a, b, c)
  <1> DEFINE ab == a \o b
             bc == b \o c
             t == ab \o c
             u == a \o bc
  <1>1. Len(a) \in Nat /\ Len(b) \in Nat /\ Len(c) \in Nat OBVIOUS
  <1>2. /\ ab \in Seq(S) /\ Len(ab) = Len(a) + Len(b)
        /\ \A i \in 1 .. Len(a) : ab[i] = a[i]
        /\ \A i \in 1 .. Len(b) : ab[Len(a) + i] = b[i]
    OBVIOUS
  <1>3. /\ bc \in Seq(S) /\ Len(bc) = Len(b) + Len(c)
        /\ \A i \in 1 .. Len(b) : bc[i] = b[i]
        /\ \A i \in 1 .. Len(c) : bc[Len(b) + i] = c[i]
    OBVIOUS
  <1> HIDE DEF ab, bc
  <1>4. /\ t \in Seq(S) /\ Len(t) = Len(ab) + Len(c)
        /\ \A i \in 1 .. Len(ab) : t[i] = ab[i]
        /\ \A i \in 1 .. Len(c) : t[Len(ab) + i] = c[i]
    <2>1. Joined(S, ab, c, t) BY <1>2, ConcatAt
    <2> HIDE DEF t
    <2> QED BY <2>1 DEF Joined
  <1>5. /\ u \in Seq(S) /\ Len(u) = Len(a) + Len(bc)
        /\ \A i \in 1 .. Len(a) : u[i] = a[i]
        /\ \A i \in 1 .. Len(bc) : u[Len(a) + i] = bc[i]
    <2>1. Joined(S, a, bc, u) BY <1>3, ConcatAt
    <2> HIDE DEF u
    <2> QED BY <2>1 DEF Joined
  <1> HIDE DEF t, u
  <1>6. ASSUME NEW i \in 1 .. Len(t) PROVE t[i] = u[i]
    <2>1. CASE i <= Len(a)
      <3>1. i \in 1 .. Len(a) /\ i \in 1 .. Len(ab) BY <2>1, <1>1, <1>2
      <3> QED BY <3>1, <1>2, <1>4, <1>5
    <2>2. CASE i > Len(a) /\ i <= Len(a) + Len(b)
      <3> DEFINE j == i - Len(a)
      <3>1. i \in 1 .. Len(ab) /\ j \in 1 .. Len(b) /\ j \in 1 .. Len(bc) /\ i = Len(a) + j
        BY <2>2, <1>1, <1>2, <1>3
      <3> HIDE DEF j
      <3>2. t[i] = ab[i] /\ ab[i] = b[j] BY <3>1, <1>2, <1>4
      <3>3. u[i] = bc[j] /\ bc[j] = b[j] BY <3>1, <1>3, <1>5
      <3> QED BY <3>2, <3>3
    <2>3. CASE i > Len(a) + Len(b)
      <3> DEFINE j == i - Len(ab)
                 k == Len(b) + j
      <3>1. j \in 1 .. Len(c) /\ i = Len(ab) + j BY <2>3, <1>1, <1>2, <1>4
      <3>4. k \in 1 .. Len(bc) /\ i = Len(a) + k
        <4> HIDE DEF j
        <4> QED BY <3>1, <1>1, <1>2, <1>3
      <3>2. bc[k] = c[j] BY <3>1, <1>3
      <3> HIDE DEF j, k
      <3>3. t[i] = c[j] BY <3>1, <1>4
      <3>5. u[i] = bc[k] BY <3>4, <1>5
      <3> QED BY <3>2, <3>3, <3>5
    <2> QED BY <2>1, <2>2, <2>3, <1>1
  <1>7. t = u BY <1>1, <1>2, <1>3, <1>4, <1>5, <1>6, SameSeq, SMTT(30)
  <1> QED BY <1>7 DEF t, u, ab, bc, Associates

LEMMA TotalInt ==
  ASSUME NEW s \in Seq(Int)
  PROVE  Total(s) \in Int
  <1>1. PICK g : Sums(g, s) BY SumsExist
  <1>2. g[Len(s)] \in Int BY <1>1 DEF Sums
  <1> QED BY <1>1, <1>2, TotalIs

LEMMA TotalAppend ==
  ASSUME NEW s \in Seq(Int), NEW x \in Int
  PROVE  Total(Append(s, x)) = Total(s) + x
  <1>1. PICK g : Sums(g, s) BY SumsExist
  <1> DEFINE n == Len(s)
             h == [k \in 0 .. n + 1 |-> IF k = n + 1 THEN g[n] + x ELSE g[k]]
             t == Append(s, x)
  <1>2. n \in Nat /\ t \in Seq(Int) /\ Len(t) = n + 1 OBVIOUS
  <1>3. t[n + 1] = x /\ \A k \in 1 .. n : t[k] = s[k] OBVIOUS
  <1>4. g \in [0 .. n -> Int] /\ g[0] = 0 BY <1>1 DEF Sums
  <1>5. h \in [0 .. n + 1 -> Int]
    <2>1. g[n] \in Int BY <1>2, <1>4
    <2>2. \A k \in 0 .. n + 1 : k # n + 1 => k \in 0 .. n BY <1>2
    <2> QED BY <1>2, <1>4, <2>1, <2>2
  <1>6. h[0] = 0 BY <1>2, <1>4
  <1>7. ASSUME NEW k \in 1 .. n + 1 PROVE h[k] = h[k - 1] + t[k]
    <2>1. CASE k = n + 1
      <3>1. h[k] = g[n] + x /\ h[k - 1] = g[n] BY <2>1, <1>2
      <3> QED BY <3>1, <2>1, <1>3
    <2>2. CASE k # n + 1
      <3>1. k \in 1 .. n /\ k - 1 \in 0 .. n BY <2>2, <1>2
      <3>2. h[k] = g[k] /\ h[k - 1] = g[k - 1] BY <3>1, <1>2
      <3> QED BY <3>1, <3>2, <1>1, <1>3 DEF Sums
    <2> QED BY <2>1, <2>2
  <1>8. Sums(h, t) BY <1>2, <1>5, <1>6, <1>7 DEF Sums
  <1>9. h[n + 1] = g[n] + x BY <1>2
  <1> HIDE DEF h
  <1>a. Total(t) = h[Len(t)] BY <1>2, <1>8, TotalIs
  <1>b. Total(s) = g[Len(s)] BY <1>1, TotalIs
  <1> QED BY <1>2, <1>9, <1>a, <1>b

LEMMA TotalExcept ==
  ASSUME NEW s \in Seq(Int), NEW i \in 1 .. Len(s), NEW x \in Int
  PROVE  Total([s EXCEPT ![i] = x]) = Total(s) - s[i] + x
  <1>1. PICK g : Sums(g, s) BY SumsExist
  <1> DEFINE n == Len(s)
             h == [k \in 0 .. n |-> IF k < i THEN g[k] ELSE g[k] - s[i] + x]
             t == [s EXCEPT ![i] = x]
  <1>2. n \in Nat /\ t \in Seq(Int) /\ Len(t) = n /\ s[i] \in Int OBVIOUS
  <1>3. t[i] = x /\ \A k \in 1 .. n : k # i => t[k] = s[k] OBVIOUS
  <1>4. g \in [0 .. n -> Int] /\ g[0] = 0 BY <1>1 DEF Sums
  <1>5. h \in [0 .. n -> Int] BY <1>2, <1>4
  <1>6. h[0] = 0 BY <1>2, <1>4
  <1>7. ASSUME NEW k \in 1 .. n PROVE h[k] = h[k - 1] + t[k]
    <2>1. k \in 0 .. n /\ k - 1 \in 0 .. n /\ s[k] \in Int BY <1>2
    <2>2. g[k] = g[k - 1] + s[k] /\ g[k - 1] \in Int /\ g[k] \in Int BY <1>1, <1>4, <2>1 DEF Sums
    <2>3. CASE k < i
      <3>1. h[k] = g[k] /\ h[k - 1] = g[k - 1] BY <2>1, <2>3
      <3> QED BY <3>1, <2>2, <2>3, <1>3
    <2>4. CASE k = i
      <3>1. h[k] = g[k] - s[i] + x /\ h[k - 1] = g[k - 1] BY <2>1, <2>4
      <3> QED BY <3>1, <2>2, <2>4, <1>2, <1>3
    <2>5. CASE k > i
      <3>1. h[k] = g[k] - s[i] + x /\ h[k - 1] = g[k - 1] - s[i] + x BY <2>1, <2>5
      <3>2. t[k] = s[k] BY <2>5, <1>3
      <3>3. g[k] - s[i] + x = (g[k - 1] - s[i] + x) + s[k] BY <2>1, <2>2, <1>2, SMTT(30)
      <3> HIDE DEF h, t
      <3> QED BY <3>1, <3>2, <3>3
    <2> QED BY <2>3, <2>4, <2>5
  <1>8. Sums(h, t) BY <1>2, <1>5, <1>6, <1>7 DEF Sums
  <1>9. h[n] = g[n] - s[i] + x BY <1>2
  <1> HIDE DEF h
  <1>a. Total(t) = h[Len(t)] BY <1>2, <1>8, TotalIs
  <1>b. Total(s) = g[Len(s)] BY <1>1, TotalIs
  <1> QED BY <1>2, <1>9, <1>a, <1>b

LEMMA TotalConcat ==
  ASSUME NEW s \in Seq(Int), NEW t \in Seq(Int)
  PROVE  Total(s \o t) = Total(s) + Total(t)
  <1>1. PICK g : Sums(g, s) BY SumsExist
  <1>2. PICK f : Sums(f, t) BY SumsExist
  <1> DEFINE n == Len(s)
             m == Len(t)
             u == s \o t
             h == [k \in 0 .. n + m |-> IF k <= n THEN g[k] ELSE g[n] + f[k - n]]
  <1>3. n \in Nat /\ m \in Nat /\ u \in Seq(Int) /\ Len(u) = n + m OBVIOUS
  <1>4. \A k \in 1 .. n + m : u[k] = IF k <= n THEN s[k] ELSE t[k - n] OBVIOUS
  <1>5. g \in [0 .. n -> Int] /\ g[0] = 0 BY <1>1 DEF Sums
  <1>6. f \in [0 .. m -> Int] /\ f[0] = 0 BY <1>2 DEF Sums
  <1>7. h \in [0 .. n + m -> Int]
    <2>1. ASSUME NEW k \in 0 .. n + m PROVE (IF k <= n THEN g[k] ELSE g[n] + f[k - n]) \in Int
      <3>1. n \in 0 .. n /\ g[n] \in Int BY <1>3, <1>5, SMTT(30)
      <3>2. CASE k <= n
        <4>1. k \in 0 .. n BY <3>2, <1>3
        <4> QED BY <4>1, <3>2, <1>5
      <3>3. CASE ~(k <= n)
        <4>1. k - n \in 0 .. m BY <3>3, <1>3
        <4>2. f[k - n] \in Int BY <4>1, <1>6
        <4> QED BY <4>2, <3>1, <3>3, SMTT(30)
      <3> QED BY <3>2, <3>3
    <2> QED BY <2>1
  <1>8. h[0] = 0 BY <1>3, <1>5
  <1>9. ASSUME NEW k \in 1 .. n + m PROVE h[k] = h[k - 1] + u[k]
    <2>1. k \in 0 .. n + m /\ k - 1 \in 0 .. n + m BY <1>3
    <2>2. CASE k <= n
      <3>1. k \in 1 .. n /\ h[k] = g[k] /\ h[k - 1] = g[k - 1] BY <2>1, <2>2, <1>3
      <3> QED BY <3>1, <2>2, <1>1, <1>4 DEF Sums
    <2>3. CASE k > n
      <3>1. k - n \in 1 .. m /\ (k - n) - 1 \in 0 .. m /\ k - n \in 0 .. m BY <2>3, <1>3
      <3>2. f[k - n] = f[(k - n) - 1] + t[k - n] BY <3>1, <1>2 DEF Sums
      <3>3. h[k] = g[n] + f[k - n] BY <2>1, <2>3, <1>3
      <3>4. h[k - 1] = g[n] + f[(k - n) - 1]
        <4>1. CASE k = n + 1
          <5>1. (k - n) - 1 = 0 /\ k - 1 = n BY <4>1, <1>3
          <5>2. h[k - 1] = g[n] BY <5>1, <2>1, <1>3
          <5>3. f[(k - n) - 1] = 0 BY <5>1, <1>6
          <5>4. g[n] \in Int BY <1>3, <1>5
          <5> QED BY <5>2, <5>3, <5>4
        <4>2. CASE k > n + 1
          <5>1. (k - 1) - n = (k - n) - 1 /\ ~(k - 1 <= n) BY <4>2, <1>3
          <5>2. h[k - 1] = g[n] + f[(k - 1) - n] BY <5>1, <2>1
          <5> QED BY <5>1, <5>2
        <4> QED BY <4>1, <4>2, <2>3, <1>3
      <3>5. g[n] \in Int /\ f[(k - n) - 1] \in Int /\ f[k - n] \in Int /\ t[k - n] \in Int
        <4>1. f[(k - n) - 1] \in Int /\ f[k - n] \in Int BY <3>1, <1>6
        <4>2. g[n] \in Int BY <1>3, <1>5
        <4>3. t[k - n] \in Int BY <3>1
        <4> QED BY <4>1, <4>2, <4>3
      <3>6. u[k] = t[k - n] BY <2>3, <1>3, <1>4
      <3> DEFINE a == g[n]
                 b == f[(k - n) - 1]
                 c == t[k - n]
      <3>7. a + (b + c) = (a + b) + c
        <4>1. a \in Int /\ b \in Int /\ c \in Int BY <3>5
        <4> HIDE DEF a, b, c
        <4> QED BY <4>1
      <3> HIDE DEF h, u
      <3> QED BY <3>2, <3>3, <3>4, <3>6, <3>7
    <2> QED BY <2>2, <2>3, <1>3
  <1>10. Sums(h, u) BY <1>3, <1>7, <1>8, <1>9 DEF Sums
  <1>11. h[n + m] = g[n] + f[m]
    <2>1. CASE m = 0 BY <2>1, <1>3, <1>5, <1>6
    <2>2. CASE m # 0
      <3>1. ~(n + m <= n) /\ (n + m) - n = m /\ n + m \in 0 .. n + m BY <2>2, <1>3
      <3>2. h[n + m] = g[n] + f[(n + m) - n] BY <3>1
      <3> QED BY <3>1, <3>2
    <2> QED BY <2>1, <2>2
  <1> HIDE DEF h
  <1>a. Total(u) = h[Len(u)] BY <1>3, <1>10, TotalIs
  <1>b. Total(s) = g[Len(s)] /\ Total(t) = f[Len(t)] BY <1>1, <1>2, TotalIs
  <1> QED BY <1>3, <1>11, <1>a, <1>b

LEMMA TotalZero ==
  ASSUME NEW s \in Seq(Int), \A k \in 1 .. Len(s) : s[k] = 0
  PROVE  Total(s) = 0
  <1> DEFINE h == [k \in 0 .. Len(s) |-> 0]
  <1>1. Len(s) \in Nat OBVIOUS
  <1>2. Sums(h, s)
    <2>1. h \in [0 .. Len(s) -> Int] /\ h[0] = 0 BY <1>1
    <2>2. ASSUME NEW k \in 1 .. Len(s) PROVE h[k] = h[k - 1] + s[k]
      <3>1. k \in 0 .. Len(s) /\ k - 1 \in 0 .. Len(s) BY <1>1
      <3> QED BY <3>1
    <2> HIDE DEF h
    <2> QED BY <2>1, <2>2 DEF Sums
  <1>3. h[Len(s)] = 0 BY <1>1
  <1> HIDE DEF h
  <1> QED BY <1>2, <1>3, TotalIs

LEMMA TotalNat ==
  ASSUME NEW s \in Seq(Int), \A k \in 1 .. Len(s) : s[k] >= 0
  PROVE  Total(s) \in Nat
  <1>1. PICK g : Sums(g, s) BY SumsExist
  <1> DEFINE D == {k \in 0 .. Len(s) : g[k] < 0}
  <1>2. D \in SUBSET Nat /\ Len(s) \in Nat OBVIOUS
  <1>3. ASSUME D # {} PROVE FALSE
    <2>1. PICK k \in D : \A i \in D : k <= i
      <3> HIDE DEF D
      <3> QED BY <1>2, <1>3, LeastNat
    <2>2. k # 0 BY <1>1 DEF Sums
    <2>3. k \in 1 .. Len(s) /\ k - 1 \in 0 .. Len(s) /\ k - 1 \notin D BY <1>2, <2>1, <2>2
    <2>4. g[k] = g[k - 1] + s[k] /\ g[k] \in Int /\ g[k - 1] \in Int BY <1>1, <2>3 DEF Sums
    <2>5. s[k] \in Int /\ s[k] >= 0 /\ g[k - 1] >= 0 BY <2>3, <2>4
    <2> QED BY <2>4, <2>5
  <1>4. g[Len(s)] \in Int /\ g[Len(s)] >= 0
    <2>1. Len(s) \in 0 .. Len(s) /\ Len(s) \notin D BY <1>2, <1>3
    <2>2. g[Len(s)] \in Int BY <1>1, <2>1 DEF Sums
    <2> QED BY <2>1, <2>2
  <1> QED BY <1>1, <1>4, TotalIs

LEMMA MaxOfTwo ==
  ASSUME NEW x \in Int, NEW y \in Int
  PROVE  Max({x, y}) = IF x >= y THEN x ELSE y
  <1>1. \E z \in {x, y} : \A w \in {x, y} : z >= w OBVIOUS
  <1>2. Max({x, y}) \in {x, y} /\ \A w \in {x, y} : Max({x, y}) >= w BY <1>1, Zenon DEF Max
  <1> QED BY <1>2

LEMMA MinOfTwo ==
  ASSUME NEW x \in Int, NEW y \in Int
  PROVE  Min({x, y}) = IF x <= y THEN x ELSE y
  <1>1. \E z \in {x, y} : \A w \in {x, y} : z <= w OBVIOUS
  <1>2. Min({x, y}) \in {x, y} /\ \A w \in {x, y} : Min({x, y}) <= w BY <1>1, Zenon DEF Min
  <1> QED BY <1>2

----------------------------------------------------------------------------
(***************************************************************************)
(* The invariant.                                                          *)
(***************************************************************************)

InputRecs == [type : {"OrderInput"}, id : Ids, side : {"Buy", "Sell"}, price : Nat, volume : Nat \ {0}, block : BOOLEAN]

TradeRecs == [type : {"Trade"}, id : Ids, side : {"Buy", "Sell"}, price : Nat, volume : Nat \ {0}]

Commands == InputRecs \cup [type : {"OrderAction"}, id : Ids]
                      \cup [type : {"BlockMessage", "BatchOrderBegin", "BatchOrderEnd"}]

Reports == OrderType \cup TradeRecs

\* frame k of the log reports order i
IsOrder(log, k, i) == log[k].type = "Order" /\ log[k].id = i

\* the modes in which an order stays open
Lives == mode \in {"pend", "partialfill"}

\* the volumes of the trades of order i, and what each frame releases of it
Sold(log, i) == [k \in 1 .. Len(log) |-> IF log[k].type = "Trade" /\ log[k].id = i THEN log[k].volume ELSE 0]

Released(f) == IF f.type = "Trade" THEN f.volume ELSE IF is_final_status(f.status) THEN f.left ELSE 0

Rel(log, i) == [k \in 1 .. Len(log) |-> IF log[k].id = i THEN Released(log[k]) ELSE 0]

----------------------------------------------------------------------------
SentInv ==
  /\ inbox \in Seq(Commands)
  /\ \A j, k \in 1 .. Len(inbox) :
       inbox[j].type = "OrderInput" /\ inbox[k].type = "OrderInput" /\ inbox[j].id = inbox[k].id => j = k
  /\ IsFiniteSet(Sent) /\ Cardinality(Sent) <= MaxOrders
  /\ {in.id : in \in Sent} = 1 .. Cardinality(Sent)

Matching(log, S) ==
  \A k \in 1 .. Len(log) : \E in \in S :
     /\ log[k].id = in.id /\ log[k].side = in.side /\ log[k].price = in.price
     /\ log[k].type = "Order" => log[k].volume = in.volume

Sound(log) ==
  \A k \in 1 .. Len(log) : log[k].type = "Order" =>
     /\ log[k].external \/ is_final_status(log[k].status)
     /\ is_final_status(log[k].status) \/ Lives

Ordered(log) ==
  \A k \in 1 .. Len(log) : log[k].type = "Trade" => \E j \in 1 .. k - 1 : IsOrder(log, j, log[k].id)

Ended(log) ==
  \A j, k \in 1 .. Len(log) :
     log[j].type = "Order" /\ log[k].type = "Order" /\ log[j].id = log[k].id =>
       /\ log[j].left = log[k].left
       /\ j < k => ~is_final_status(log[j].status)

Bounded(log, S) ==
  \A in \in S : \A k \in 1 .. Len(log) : IsOrder(log, k, in.id) => Total(Sold(log, in.id)) + log[k].left <= in.volume

RefusedAt(f, in) == in.block /\ f.status = "Error" /\ in.volume >= MinVolume

AddsUp(log, S, cut) ==
  \A in \in S : \A k \in 1 .. Len(log) :
     IsOrder(log, k, in.id) /\ in.id \notin cut /\ ~RefusedAt(log[k], in)
     => Total(Sold(log, in.id)) + log[k].left = in.volume

LogInv(log, S) == /\ log \in Seq(Reports)
                  /\ Matching(log, S) /\ Sound(log) /\ Ordered(log) /\ Ended(log) /\ Bounded(log, S)

\* the log does not report order i
Silent(log, i) == \A k \in 1 .. Len(log) : ~IsOrder(log, k, i)

\* every report the log has of order i is f, and it has one
Says(log, i, f) == /\ \E k \in 1 .. Len(log) : IsOrder(log, k, i)
                   /\ \A k \in 1 .. Len(log) : IsOrder(log, k, i) => log[k] = f

Lifecycle ==
  /\ linked => td # "down" /\ ~lost
  /\ ~lost /\ ready # "no" => linked /\ td = "ready"
  /\ td # "ready" \/ ~linked => orders = << >> /\ inputs = << >>

Placed(in, o) == o = Order(in, Status(in), Left(in), TRUE) /\ ~TooSmall(in)

Entered ==
  \A i \in DOMAIN orders : Says(outbox, i, orders[i]) /\ \E in \in Sent : in.id = i /\ Placed(in, orders[i])

Ahead(k) == k \in tpos + 1 .. Len(inbox) /\ inbox[k].type = "OrderInput"

Waiting ==
  /\ linked => \A k \in 1 .. Len(inbox) : Ahead(k) => td = "ready" /\ Silent(outbox, inbox[k].id)
  /\ inputs \in Seq(Sent)
  /\ \A j \in 1 .. Len(inputs) :
       /\ Silent(outbox, inputs[j].id)
       /\ \A k \in 1 .. Len(inbox) : Ahead(k) => inbox[k].id # inputs[j].id
       /\ \A l \in 1 .. Len(inputs) : inputs[l].id = inputs[j].id => l = j

Cancels == \A k \in 1 .. Len(inbox) : inbox[k].type = "OrderAction" => Lives

TraderInv ==
  /\ td \in {"down", "boot", "ready"} /\ mode \in MatchModes /\ linked \in BOOLEAN /\ lost \in BOOLEAN
  /\ tpos \in 0 .. Len(inbox) /\ ready \in {"no", "due", "yes"}
  /\ torn \subseteq Ids /\ missed \subseteq Ids
  /\ \A i \in DOMAIN recovered : recovered[i] \in OrderType
  /\ Lifecycle /\ Entered /\ Waiting /\ Cancels

Read == SubSeq(outbox, 1, spos)

FrozenCash(in, log) == IF in.side = "Buy" THEN in.price * (in.volume - Total(Rel(log, in.id))) ELSE 0
FrozenVolume(in, log) == IF in.side = "Sell" THEN in.volume - Total(Rel(log, in.id)) ELSE 0
Spent(in, log) ==
   IF in.side = "Buy" THEN in.price * (in.volume - Total(Rel(log, in.id)) + Total(Sold(log, in.id)))
   ELSE 0 - in.price * Total(Sold(log, in.id))

\* the order of S with id i, and the sums over S
InputOf(S, i) == CHOOSE in \in S : in.id = i
Cashes(S, log) == [i \in 1 .. Cardinality(S) |-> FrozenCash(InputOf(S, i), log)]
Volumes(S, log) == [i \in 1 .. Cardinality(S) |-> FrozenVolume(InputOf(S, i), log)]
Spents(S, log) == [i \in 1 .. Cardinality(S) |-> Spent(InputOf(S, i), log)]

BookFields == {"avail", "frozen_cash", "volume", "yesterday", "frozen_total", "frozen_yesterday", "orders"}

\* the orders the book b has are those of the log
Keeps(known, log) ==
  /\ DOMAIN known = {i \in Ids : \E k \in 1 .. Len(log) : IsOrder(log, k, i)}
  /\ \A i \in DOMAIN known : \E k \in 1 .. Len(log) : IsOrder(log, k, i) /\ known[i] = log[k]

\* the book b is that of the orders S of which the log has been read
BookIs(b, S, log) ==
  /\ DOMAIN b = BookFields /\ Keeps(b.orders, log)
  /\ b.frozen_cash = Total(Cashes(S, log))
  /\ b.frozen_total = Total(Volumes(S, log))
  /\ b.avail = 0 - Total(Spents(S, log))
  /\ b.volume \in Nat /\ b.yesterday \in Nat /\ b.frozen_yesterday \in Nat

BookInv == spos \in 0 .. Len(outbox) /\ BookIs(book, Sent, Read)

TradingInv == SentInv /\ LogInv(outbox, Sent) /\ AddsUp(outbox, Sent, torn) /\ TraderInv /\ BookInv

----------------------------------------------------------------------------
(***************************************************************************)
(* Logs: what a log says of one order.                                     *)
(***************************************************************************)

LEMMA ReportKinds ==
  ASSUME NEW f \in Reports
  PROVE  /\ f.type \in {"Order", "Trade"} /\ f.id \in Ids /\ f.price \in Nat
         /\ f.type = "Order" => f \in OrderType
         /\ f.type = "Trade" => f \in TradeRecs /\ f.volume \in Nat \ {0}
         /\ Released(f) \in Nat
  <1>1. CASE f \in OrderType BY <1>1 DEF OrderType, Released
  <1>2. CASE f \in TradeRecs BY <1>2 DEF TradeRecs, Released
  <1> QED BY <1>1, <1>2 DEF Reports

LEMMA SoldType ==
  ASSUME NEW L \in Seq(Reports), NEW i
  PROVE  /\ Sold(L, i) \in Seq(Int) /\ Len(Sold(L, i)) = Len(L)
         /\ \A k \in 1 .. Len(L) :
              /\ Sold(L, i)[k] >= 0
              /\ Sold(L, i)[k] = IF L[k].type = "Trade" /\ L[k].id = i THEN L[k].volume ELSE 0
  <1>1. Len(L) \in Nat /\ \A k \in 1 .. Len(L) : L[k] \in Reports OBVIOUS
  <1>2. \A k \in 1 .. Len(L) : (IF L[k].type = "Trade" /\ L[k].id = i THEN L[k].volume ELSE 0) \in Nat
    BY <1>1, ReportKinds
  <1>3. Sold(L, i) \in [1 .. Len(L) -> Int] BY <1>2 DEF Sold
  <1>4. Sold(L, i) \in Seq(Int) /\ Len(Sold(L, i)) = Len(L) BY <1>1, <1>3, IntSeqOf
  <1>5. \A k \in 1 .. Len(L) :
          Sold(L, i)[k] = IF L[k].type = "Trade" /\ L[k].id = i THEN L[k].volume ELSE 0
    BY DEF Sold
  <1> QED BY <1>2, <1>4, <1>5

LEMMA RelType ==
  ASSUME NEW L \in Seq(Reports), NEW i
  PROVE  /\ Rel(L, i) \in Seq(Int) /\ Len(Rel(L, i)) = Len(L)
         /\ \A k \in 1 .. Len(L) :
              /\ Rel(L, i)[k] >= 0
              /\ Rel(L, i)[k] = IF L[k].id = i THEN Released(L[k]) ELSE 0
  <1>1. Len(L) \in Nat /\ \A k \in 1 .. Len(L) : L[k] \in Reports OBVIOUS
  <1>2. \A k \in 1 .. Len(L) : (IF L[k].id = i THEN Released(L[k]) ELSE 0) \in Nat BY <1>1, ReportKinds
  <1>3. Rel(L, i) \in [1 .. Len(L) -> Int] BY <1>2 DEF Rel
  <1>4. Rel(L, i) \in Seq(Int) /\ Len(Rel(L, i)) = Len(L) BY <1>1, <1>3, IntSeqOf
  <1>5. \A k \in 1 .. Len(L) : Rel(L, i)[k] = IF L[k].id = i THEN Released(L[k]) ELSE 0 BY DEF Rel
  <1> QED BY <1>2, <1>4, <1>5

LEMMA SoldNat == ASSUME NEW L \in Seq(Reports), NEW i PROVE Total(Sold(L, i)) \in Nat
  BY SoldType, TotalNat

LEMMA RelNat == ASSUME NEW L \in Seq(Reports), NEW i PROVE Total(Rel(L, i)) \in Nat
  BY RelType, TotalNat

LEMMA TotalJoined ==
  ASSUME NEW a \in Seq(Int), NEW b \in Seq(Int), NEW c, Joined(Int, a, b, c)
  PROVE  Total(c) = Total(a) + Total(b)
  <1> DEFINE d == a \o b
  <1>1. /\ d \in Seq(Int) /\ Len(d) = Len(a) + Len(b)
        /\ \A k \in 1 .. Len(a) : d[k] = a[k]
        /\ \A k \in 1 .. Len(b) : d[Len(a) + k] = b[k]
    BY ConcatAt DEF Joined
  <1>2. Total(d) = Total(a) + Total(b) BY TotalConcat
  <1>3. Len(a) \in Nat /\ Len(b) \in Nat OBVIOUS
  <1>6. /\ c \in Seq(Int) /\ Len(c) = Len(a) + Len(b)
        /\ \A k \in 1 .. Len(a) : c[k] = a[k]
        /\ \A k \in 1 .. Len(b) : c[Len(a) + k] = b[k]
    BY DEF Joined
  <1> HIDE DEF d
  <1>4. ASSUME NEW k \in 1 .. Len(c) PROVE c[k] = d[k]
    <2>1. CASE k <= Len(a)
      <3>1. k \in 1 .. Len(a) BY <2>1, <1>3
      <3> QED BY <3>1, <1>1, <1>6
    <2>2. CASE k > Len(a)
      <3>1. k - Len(a) \in 1 .. Len(b) /\ k = Len(a) + (k - Len(a)) BY <2>2, <1>3, <1>6
      <3>2. c[Len(a) + (k - Len(a))] = b[k - Len(a)] /\ d[Len(a) + (k - Len(a))] = b[k - Len(a)] BY <3>1, <1>1, <1>6
      <3> QED BY <3>1, <3>2
    <2> QED BY <2>1, <2>2, <1>3, <1>6
  <1>5. c = d BY <1>1, <1>4, <1>6, SameSeq
  <1> QED BY <1>2, <1>5

LEMMA SoldConcat ==
  ASSUME NEW L \in Seq(Reports), NEW M \in Seq(Reports), NEW i
  PROVE  Total(Sold(L \o M, i)) = Total(Sold(L, i)) + Total(Sold(M, i))
  <1> DEFINE K == L \o M
             a == Sold(L, i)
             b == Sold(M, i)
             c == Sold(K, i)
  <1>1. /\ K \in Seq(Reports) /\ Len(K) = Len(L) + Len(M)
        /\ \A k \in 1 .. Len(L) : K[k] = L[k]
        /\ \A k \in 1 .. Len(M) : K[Len(L) + k] = M[k]
    BY ConcatAt DEF Joined
  <1>2. Len(L) \in Nat /\ Len(M) \in Nat OBVIOUS
  <1> HIDE DEF K
  <1>3. a \in Seq(Int) /\ Len(a) = Len(L) /\ \A k \in 1 .. Len(L) : a[k] = IF L[k].type = "Trade" /\ L[k].id = i THEN L[k].volume ELSE 0
    <2>1. L \in Seq(Reports) OBVIOUS
    <2>2. a \in Seq(Int) /\ Len(a) = Len(L) BY <2>1, SoldType
    <2>3. \A k \in 1 .. Len(L) : a[k] = IF L[k].type = "Trade" /\ L[k].id = i THEN L[k].volume ELSE 0
      BY <2>1, SoldType
    <2> QED BY <2>2, <2>3
  <1>4. b \in Seq(Int) /\ Len(b) = Len(M) /\ \A k \in 1 .. Len(M) : b[k] = IF M[k].type = "Trade" /\ M[k].id = i THEN M[k].volume ELSE 0
    <2>1. M \in Seq(Reports) OBVIOUS
    <2>2. b \in Seq(Int) /\ Len(b) = Len(M) BY <2>1, SoldType
    <2>3. \A k \in 1 .. Len(M) : b[k] = IF M[k].type = "Trade" /\ M[k].id = i THEN M[k].volume ELSE 0
      BY <2>1, SoldType
    <2> QED BY <2>2, <2>3
  <1>5. c \in Seq(Int) /\ Len(c) = Len(K) /\ \A k \in 1 .. Len(K) : c[k] = IF K[k].type = "Trade" /\ K[k].id = i THEN K[k].volume ELSE 0
    <2>1. K \in Seq(Reports) BY <1>1
    <2>2. c \in Seq(Int) /\ Len(c) = Len(K) BY <2>1, SoldType
    <2>3. \A k \in 1 .. Len(K) : c[k] = IF K[k].type = "Trade" /\ K[k].id = i THEN K[k].volume ELSE 0
      BY <2>1, SoldType
    <2> QED BY <2>2, <2>3
  <1> HIDE DEF a, b, c
  <1>6. ASSUME NEW k \in 1 .. Len(L) PROVE c[k] = a[k]
    <2>1. k \in 1 .. Len(K) BY <1>1, <1>2
    <2> QED BY <2>1, <1>1, <1>3, <1>5
  <1>7. ASSUME NEW k \in 1 .. Len(M) PROVE c[Len(L) + k] = b[k]
    <2>1. Len(L) + k \in 1 .. Len(K) BY <1>1, <1>2
    <2> QED BY <2>1, <1>1, <1>4, <1>5
  <1>8. Joined(Int, a, b, c) BY <1>1, <1>3, <1>4, <1>5, <1>6, <1>7 DEF Joined
  <1>9. Total(c) = Total(a) + Total(b) BY <1>3, <1>4, <1>8, TotalJoined
  <1> QED BY <1>9 DEF a, b, c, K

LEMMA RelConcat ==
  ASSUME NEW L \in Seq(Reports), NEW M \in Seq(Reports), NEW i
  PROVE  Total(Rel(L \o M, i)) = Total(Rel(L, i)) + Total(Rel(M, i))
  <1> DEFINE K == L \o M
             a == Rel(L, i)
             b == Rel(M, i)
             c == Rel(K, i)
  <1>1. /\ K \in Seq(Reports) /\ Len(K) = Len(L) + Len(M)
        /\ \A k \in 1 .. Len(L) : K[k] = L[k]
        /\ \A k \in 1 .. Len(M) : K[Len(L) + k] = M[k]
    BY ConcatAt DEF Joined
  <1>2. Len(L) \in Nat /\ Len(M) \in Nat OBVIOUS
  <1> HIDE DEF K
  <1>3. a \in Seq(Int) /\ Len(a) = Len(L) /\ \A k \in 1 .. Len(L) : a[k] = IF L[k].id = i THEN Released(L[k]) ELSE 0
    BY RelType
  <1>4. b \in Seq(Int) /\ Len(b) = Len(M) /\ \A k \in 1 .. Len(M) : b[k] = IF M[k].id = i THEN Released(M[k]) ELSE 0
    BY RelType
  <1>5. c \in Seq(Int) /\ Len(c) = Len(K) /\ \A k \in 1 .. Len(K) : c[k] = IF K[k].id = i THEN Released(K[k]) ELSE 0
    BY <1>1, RelType
  <1> HIDE DEF a, b, c
  <1>6. ASSUME NEW k \in 1 .. Len(L) PROVE c[k] = a[k]
    <2>1. k \in 1 .. Len(K) BY <1>1, <1>2
    <2> QED BY <2>1, <1>1, <1>3, <1>5
  <1>7. ASSUME NEW k \in 1 .. Len(M) PROVE c[Len(L) + k] = b[k]
    <2>1. Len(L) + k \in 1 .. Len(K) BY <1>1, <1>2
    <2> QED BY <2>1, <1>1, <1>4, <1>5
  <1>8. Joined(Int, a, b, c) BY <1>1, <1>3, <1>4, <1>5, <1>6, <1>7 DEF Joined
  <1>9. Total(c) = Total(a) + Total(b) BY <1>3, <1>4, <1>8, TotalJoined
  <1> QED BY <1>9 DEF a, b, c, K

\* nothing of the order was traded
LEMMA SoldNone ==
  ASSUME NEW L \in Seq(Reports), NEW i, \A k \in 1 .. Len(L) : ~(L[k].type = "Trade" /\ L[k].id = i)
  PROVE  Total(Sold(L, i)) = 0
  <1>1. \A k \in 1 .. Len(Sold(L, i)) : Sold(L, i)[k] = 0 BY SoldType
  <1> QED BY <1>1, SoldType, TotalZero

LEMMA RelNone ==
  ASSUME NEW L \in Seq(Reports), NEW i, \A k \in 1 .. Len(L) : L[k].id # i
  PROVE  Total(Rel(L, i)) = 0 /\ Total(Sold(L, i)) = 0
  <1>1. \A k \in 1 .. Len(Rel(L, i)) : Rel(L, i)[k] = 0 BY RelType
  <1> QED BY <1>1, RelType, TotalZero, SoldNone

\* an open order releases what is traded
LEMMA RelOpen ==
  ASSUME NEW L \in Seq(Reports), NEW i,
         \A k \in 1 .. Len(L) : IsOrder(L, k, i) => ~is_final_status(L[k].status)
  PROVE  Total(Rel(L, i)) = Total(Sold(L, i))
  <1>1. ASSUME NEW k \in 1 .. Len(L) PROVE Rel(L, i)[k] = Sold(L, i)[k]
    <2>1. L[k] \in Reports BY <1>1
    <2>2. L[k].type \in {"Order", "Trade"} BY <2>1, ReportKinds
    <2>3. Released(L[k]) = IF L[k].type = "Trade" THEN L[k].volume ELSE
                             IF is_final_status(L[k].status) THEN L[k].left ELSE 0
      BY DEF Released
    <2>4. L[k].type = "Order" /\ L[k].id = i => ~is_final_status(L[k].status) BY DEF IsOrder
    <2>5. Rel(L, i)[k] = IF L[k].id = i THEN Released(L[k]) ELSE 0 BY RelType
    <2>6. Sold(L, i)[k] = IF L[k].type = "Trade" /\ L[k].id = i THEN L[k].volume ELSE 0 BY SoldType
    <2> QED BY <2>2, <2>3, <2>4, <2>5, <2>6
  <1>2. Rel(L, i) = Sold(L, i) BY <1>1, RelType, SoldType, SameSeq
  <1> QED BY <1>2

\* one that has ended releases what was left as well
LEMMA RelEnded ==
  ASSUME NEW L \in Seq(Reports), NEW i, NEW m \in 1 .. Len(L), IsOrder(L, m, i), is_final_status(L[m].status),
         \A k \in 1 .. Len(L) : IsOrder(L, k, i) /\ k # m => ~is_final_status(L[k].status)
  PROVE  Total(Rel(L, i)) = Total(Sold(L, i)) + L[m].left
  <1> DEFINE s == Sold(L, i)
             t == [s EXCEPT ![m] = L[m].left]
  <1>1. s \in Seq(Int) /\ Len(s) = Len(L) /\ m \in 1 .. Len(s) BY SoldType
  <1>2. s[m] = 0 BY SoldType DEF IsOrder
  <1>3. L[m] \in Reports /\ L[m].left \in Nat BY ReportKinds DEF IsOrder, OrderType
  <1>4. ASSUME NEW k \in 1 .. Len(L) PROVE Rel(L, i)[k] = IF k = m THEN L[m].left ELSE s[k]
    <2>1. L[k] \in Reports BY <1>4
    <2>2. L[k].type \in {"Order", "Trade"} BY <2>1, ReportKinds
    <2>3. Released(L[k]) = IF L[k].type = "Trade" THEN L[k].volume ELSE
                             IF is_final_status(L[k].status) THEN L[k].left ELSE 0
      BY DEF Released
    <2>4. L[k].type = "Order" /\ L[k].id = i /\ k # m => ~is_final_status(L[k].status) BY DEF IsOrder
    <2>5. Rel(L, i)[k] = IF L[k].id = i THEN Released(L[k]) ELSE 0 BY RelType
    <2>6. s[k] = IF L[k].type = "Trade" /\ L[k].id = i THEN L[k].volume ELSE 0 BY SoldType
    <2>7. L[m].type = "Order" /\ L[m].id = i BY DEF IsOrder
    <2> HIDE DEF s
    <2> QED BY <2>2, <2>3, <2>4, <2>5, <2>6, <2>7
  <1> HIDE DEF s
  <1>5. t \in Seq(Int) /\ Len(t) = Len(L) /\ \A k \in 1 .. Len(L) : t[k] = IF k = m THEN L[m].left ELSE s[k]
    BY <1>1, <1>3
  <1>6. Total(t) = Total(s) - s[m] + L[m].left BY <1>1, <1>3, TotalExcept
  <1> HIDE DEF t
  <1>7. Rel(L, i) = t BY <1>4, <1>5, RelType, SameSeq
  <1>8. Total(s) \in Int BY <1>1, TotalInt
  <1> QED BY <1>2, <1>3, <1>6, <1>7, <1>8 DEF s

----------------------------------------------------------------------------
(***************************************************************************)
(* The last report of an order.                                            *)
(***************************************************************************)

Reporting(log, i) == {k \in 1 .. Len(log) : IsOrder(log, k, i)}

LEMMA GreatestOf ==
  ASSUME NEW n \in Nat, NEW T \in SUBSET (1 .. n), T # {}
  PROVE  Max(T) \in T /\ \A k \in T : k <= Max(T)
  <1> DEFINE D == {n - k : k \in T}
  <1>0. \A k \in T : k \in 1 .. n /\ n - k \in Nat OBVIOUS
  <1>1. D \in SUBSET Nat /\ D # {} BY <1>0
  <1>2. PICK d \in D : \A e \in D : d <= e
    <2> HIDE DEF D
    <2> QED BY <1>1, LeastNat
  <1>3. PICK m \in T : d = n - m OBVIOUS
  <1>4. \A k \in T : m >= k
    <2> TAKE k \in T
    <2>1. d <= n - k BY <1>2
    <2> QED BY <2>1, <1>3
  <1>5. Max(T) \in T /\ \A k \in T : Max(T) >= k BY <1>3, <1>4, Zenon DEF Max
  <1>6. T \subseteq Nat OBVIOUS
  <1>7. \A k \in T : k \in Nat BY <1>6
  <1>8. Max(T) \in Nat BY <1>5, <1>7
  <1> QED BY <1>5, <1>7, <1>8

LEMMA LatestIs ==
  ASSUME NEW log \in Seq(Reports), NEW i
  PROVE  /\ i \in DOMAIN LatestOrders(log) <=> Reporting(log, i) # {}
         /\ Reporting(log, i) # {} =>
              \E m \in Reporting(log, i) : /\ LatestOrders(log)[i] = log[m]
                                           /\ \A k \in Reporting(log, i) : k <= m
  <1> DEFINE at == {k \in DOMAIN log : log[k].type = "Order"}
             here == {k \in at : log[k].id = i}
  <1>1. DOMAIN log = 1 .. Len(log) /\ Len(log) \in Nat OBVIOUS
  <1>2. here = Reporting(log, i) BY <1>1 DEF Reporting, IsOrder
  <1>3. LatestOrders(log) = [x \in {log[k].id : k \in at} |-> log[Max({k \in at : log[k].id = x})]]
    BY DEF LatestOrders
  <1>4. i \in {log[k].id : k \in at} <=> here # {} OBVIOUS
  <1>5. ASSUME here # {}
        PROVE  LatestOrders(log)[i] = log[Max(here)]
    <2> QED BY <1>3, <1>4, <1>5
  <1> HIDE DEF at, here
  <1>6. i \in DOMAIN LatestOrders(log) <=> here # {} BY <1>3, <1>4
  <1>7. Reporting(log, i) \in SUBSET (1 .. Len(log)) BY DEF Reporting
  <1>8. Reporting(log, i) # {} => /\ Max(here) \in Reporting(log, i)
                                  /\ \A k \in Reporting(log, i) : k <= Max(here)
    BY <1>1, <1>2, <1>7, GreatestOf
  <1> QED BY <1>2, <1>5, <1>6, <1>8

----------------------------------------------------------------------------
(***************************************************************************)
(* Logs that keep the invariant: their beginnings, what is added to them.  *)
(***************************************************************************)

\* order inputs, by their ids
InputSet(S) == S \subseteq InputRecs /\ \A x, y \in S : x.id = y.id => x = y

\* M is L and more
Longer(L, M) == /\ L \in Seq(Reports) /\ M \in Seq(Reports) /\ Len(L) <= Len(M)
                /\ \A k \in 1 .. Len(L) : M[k] = L[k]

LEMMA SilentNothing ==
  ASSUME NEW L \in Seq(Reports), NEW i, Silent(L, i), Ordered(L)
  PROVE  /\ \A k \in 1 .. Len(L) : L[k].id # i
         /\ Total(Rel(L, i)) = 0 /\ Total(Sold(L, i)) = 0
  <1>1. ASSUME NEW k \in 1 .. Len(L), L[k].id = i PROVE FALSE
    <2>1. L[k] \in Reports OBVIOUS
    <2>2. L[k].type = "Trade" BY <1>1, <2>1, ReportKinds DEF Silent, IsOrder
    <2>3. PICK j \in 1 .. k - 1 : IsOrder(L, j, i) BY <1>1, <2>2 DEF Ordered
    <2>4. j \in 1 .. Len(L) OBVIOUS
    <2> QED BY <2>3, <2>4 DEF Silent
  <1> QED BY <1>1, RelNone

LEMMA InputType ==
  ASSUME NEW S, InputSet(S), NEW in \in S
  PROVE  /\ in.type = "OrderInput" /\ in.id \in Ids /\ in.side \in {"Buy", "Sell"} /\ in.price \in Nat
         /\ in.volume \in Nat /\ in.volume > 0 /\ in.block \in BOOLEAN
  BY DEF InputSet, InputRecs

\* an order never releases more than its volume, and all of it once it has ended with
\* its trades and what was left adding up
LEMMA RelBound ==
  ASSUME NEW S, InputSet(S), NEW L, LogInv(L, S), NEW in \in S
  PROVE  Total(Rel(L, in.id)) <= in.volume
  <1> DEFINE i == in.id
  <1>1. L \in Seq(Reports) /\ Ordered(L) /\ Ended(L) /\ Bounded(L, S) BY DEF LogInv
  <1>2. in.volume \in Nat BY InputType
  <1>3. CASE Silent(L, i)
    <2>1. Total(Rel(L, i)) = 0 BY <1>1, <1>3, SilentNothing
    <2> QED BY <2>1, <1>2
  <1>4. CASE \E k \in 1 .. Len(L) : IsOrder(L, k, i) /\ is_final_status(L[k].status)
    <2>1. PICK m \in 1 .. Len(L) : IsOrder(L, m, i) /\ is_final_status(L[m].status) BY <1>4
    <2>2. ASSUME NEW k \in 1 .. Len(L), IsOrder(L, k, i), k # m PROVE ~is_final_status(L[k].status)
      <3>1. k < m \/ m < k BY <2>2
      <3> QED BY <3>1, <2>1, <2>2, <1>1 DEF Ended, IsOrder
    <2>3. Total(Rel(L, i)) = Total(Sold(L, i)) + L[m].left BY <1>1, <2>1, <2>2, RelEnded
    <2>4. Total(Sold(L, i)) + L[m].left <= in.volume BY <1>1, <2>1 DEF Bounded
    <2> QED BY <2>3, <2>4
  <1>5. CASE /\ ~Silent(L, i)
             /\ \A k \in 1 .. Len(L) : IsOrder(L, k, i) => ~is_final_status(L[k].status)
    <2>1. Total(Rel(L, i)) = Total(Sold(L, i)) BY <1>1, <1>5, RelOpen
    <2>2. PICK m \in 1 .. Len(L) : IsOrder(L, m, i) BY <1>5 DEF Silent
    <2>3. Total(Sold(L, i)) + L[m].left <= in.volume BY <1>1, <2>2 DEF Bounded
    <2>4. L[m] \in Reports BY <1>1
    <2>5. L[m].left \in Nat BY <2>2, <2>4, ReportKinds DEF IsOrder, OrderType
    <2>6. Total(Sold(L, i)) \in Nat BY <1>1, SoldNat
    <2> QED BY <2>1, <2>3, <2>5, <2>6, <1>2
  <1> QED BY <1>3, <1>4, <1>5

LEMMA LessOfTwo ==
  ASSUME NEW a \in Nat, NEW b \in Nat, NEW c \in Nat, NEW v \in Nat, NEW x, x = a + b, x + c <= v
  PROVE  a + c <= v
  OBVIOUS

\* what P \o R keeps P keeps
LEMMA PrefixInv ==
  ASSUME NEW S, InputSet(S), NEW P \in Seq(Reports), NEW R \in Seq(Reports), LogInv(P \o R, S)
  PROVE  LogInv(P, S)
  <1> DEFINE L == P \o R
  <1>1. L \in Seq(Reports) /\ Len(L) = Len(P) + Len(R) /\ \A k \in 1 .. Len(P) : L[k] = P[k]
    BY ConcatAt DEF Joined
  <1>2. Len(P) \in Nat /\ Len(R) \in Nat OBVIOUS
  <1>3. \A i : Total(Sold(L, i)) = Total(Sold(P, i)) + Total(Sold(R, i)) BY SoldConcat
  <1>4. LogInv(L, S) OBVIOUS
  <1> HIDE DEF L
  <1>5. \A k \in 1 .. Len(P) : k \in 1 .. Len(L) BY <1>1, <1>2
  <1>6. \A k \in 1 .. Len(P) : \A i : IsOrder(P, k, i) <=> IsOrder(L, k, i) BY <1>1 DEF IsOrder
  <1>7. Matching(P, S) BY <1>1, <1>4, <1>5 DEF LogInv, Matching
  <1>8. Sound(P) BY <1>1, <1>4, <1>5 DEF LogInv, Sound
  <1>9. Ordered(P)
    <2> SUFFICES ASSUME NEW k \in 1 .. Len(P), P[k].type = "Trade"
                 PROVE  \E j \in 1 .. k - 1 : IsOrder(P, j, P[k].id)
      BY DEF Ordered
    <2>1. k \in 1 .. Len(L) /\ L[k] = P[k] BY <1>1, <1>5
    <2>2. PICK j \in 1 .. k - 1 : IsOrder(L, j, L[k].id) BY <2>1, <1>4 DEF LogInv, Ordered
    <2>3. j \in 1 .. Len(P) BY <1>2
    <2> QED BY <2>1, <2>2, <2>3, <1>6
  <1>10. Ended(P) BY <1>1, <1>4, <1>5 DEF LogInv, Ended
  <1>11. Bounded(P, S)
    <2> SUFFICES ASSUME NEW in \in S, NEW k \in 1 .. Len(P), IsOrder(P, k, in.id)
                 PROVE  Total(Sold(P, in.id)) + P[k].left <= in.volume
      BY DEF Bounded
    <2>1. Total(Sold(L, in.id)) + L[k].left <= in.volume BY <1>4, <1>5, <1>6 DEF LogInv, Bounded
    <2>2. P[k] \in Reports /\ P[k] = L[k] BY <1>1
    <2>3. P[k].left \in Nat BY <2>2, ReportKinds DEF IsOrder, OrderType
    <2>4. Total(Sold(P, in.id)) \in Nat /\ Total(Sold(R, in.id)) \in Nat BY SoldNat
    <2>5. in.volume \in Nat BY InputType
    <2>6. Total(Sold(L, in.id)) = Total(Sold(P, in.id)) + Total(Sold(R, in.id)) BY <1>3
    <2>7. L[k].left = P[k].left BY <2>2
    <2>8. /\ Total(Sold(L, in.id)) + P[k].left <= in.volume
          /\ Total(Sold(L, in.id)) = Total(Sold(P, in.id)) + Total(Sold(R, in.id))
      BY <2>1, <2>6, <2>7
    <2> QED BY <2>3, <2>4, <2>5, <2>8, LessOfTwo
  <1> QED BY <1>7, <1>8, <1>9, <1>10, <1>11 DEF LogInv

----------------------------------------------------------------------------
(***************************************************************************)
(* Blocks: what is written about an order the first time, a report and the *)
(* trades that come with it.                                               *)
(***************************************************************************)

\* the first frame of a block
Opens(f, in) ==
  /\ f \in OrderType /\ f.volume = in.volume
  /\ f.external \/ is_final_status(f.status)
  /\ is_final_status(f.status) \/ Lives

Block(s, in) ==
  /\ s \in Seq(Reports) /\ Len(s) >= 1
  /\ Opens(s[1], in)
  /\ \A k \in 1 .. Len(s) : /\ s[k].id = in.id /\ s[k].side = in.side /\ s[k].price = in.price
                            /\ k # 1 => s[k].type = "Trade"
  /\ Total(Sold(s, in.id)) + s[1].left <= in.volume
  /\ RefusedAt(s[1], in) \/ Total(Sold(s, in.id)) + s[1].left = in.volume

\* M is L and then the block s of order i
Appended(L, s, i, M) ==
  /\ M \in Seq(Reports) /\ Len(M) = Len(L) + Len(s)
  /\ \A k \in 1 .. Len(L) : M[k] = L[k] /\ k \in 1 .. Len(M)
  /\ \A k \in 1 .. Len(M) : k \in 1 .. Len(L) \/ (k > Len(L) /\ M[k].id = i)
  /\ \A k \in 1 .. Len(M) : IsOrder(M, k, i) => k = Len(L) + 1
  /\ IsOrder(M, Len(L) + 1, i) /\ M[Len(L) + 1] = s[1] /\ Len(L) + 1 \in 1 .. Len(M)
  /\ Total(Sold(M, i)) = Total(Sold(s, i))
  /\ \A j : j # i => Total(Sold(M, j)) = Total(Sold(L, j))

LEMMA BlockAppended ==
  ASSUME NEW L \in Seq(Reports), NEW s, NEW in, Block(s, in), Silent(L, in.id), Ordered(L)
  PROVE  Appended(L, s, in.id, L \o s)
  <1> DEFINE M == L \o s
             i == in.id
  <1>1. s \in Seq(Reports) /\ Len(s) \in Nat /\ Len(s) >= 1 /\ Len(L) \in Nat BY DEF Block
  <1>2. /\ M \in Seq(Reports) /\ Len(M) = Len(L) + Len(s)
        /\ \A k \in 1 .. Len(L) : M[k] = L[k]
        /\ \A k \in 1 .. Len(s) : M[Len(L) + k] = s[k]
    BY <1>1, ConcatAt DEF Joined
  <1>3. \A j : Total(Sold(M, j)) = Total(Sold(L, j)) + Total(Sold(s, j)) BY <1>1, SoldConcat
  <1>4. \A k \in 1 .. Len(s) : s[k].id = i /\ (k # 1 => s[k].type = "Trade") BY DEF Block
  <1>5. s[1].type = "Order" /\ 1 \in 1 .. Len(s) BY <1>1 DEF Block, Opens, OrderType
  <1> HIDE DEF M, i
  <1>6. \A k \in 1 .. Len(L) : M[k] = L[k] /\ k \in 1 .. Len(M) BY <1>1, <1>2
  <1>7. \A k \in 1 .. Len(M) : k \in 1 .. Len(L) \/ (k > Len(L) /\ k - Len(L) \in 1 .. Len(s) /\ k = Len(L) + (k - Len(L)))
    BY <1>1, <1>2
  <1>8. \A k \in 1 .. Len(M) : k \in 1 .. Len(L) \/ (k > Len(L) /\ M[k] = s[k - Len(L)] /\ k - Len(L) \in 1 .. Len(s))
    BY <1>2, <1>7
  <1>9. \A k \in 1 .. Len(M) : k \in 1 .. Len(L) \/ (k > Len(L) /\ M[k].id = i) BY <1>4, <1>8
  <1>10. M[Len(L) + 1] = s[1] /\ Len(L) + 1 \in 1 .. Len(M) /\ IsOrder(M, Len(L) + 1, i)
    <2>1. M[Len(L) + 1] = s[1] BY <1>2, <1>5
    <2>2. Len(L) + 1 \in 1 .. Len(M) BY <1>1, <1>2
    <2> QED BY <2>1, <2>2, <1>4, <1>5 DEF IsOrder
  <1>11. ASSUME NEW k \in 1 .. Len(M), IsOrder(M, k, i) PROVE k = Len(L) + 1
    <2>1. k \notin 1 .. Len(L) BY <1>6, <1>11 DEF Silent, IsOrder, i
    <2>2. M[k] = s[k - Len(L)] /\ k - Len(L) \in 1 .. Len(s) BY <2>1, <1>8
    <2>3. k - Len(L) = 1 BY <2>2, <1>4, <1>11 DEF IsOrder
    <2> QED BY <2>3, <1>1
  <1>12. Total(Sold(M, i)) = Total(Sold(s, i))
    <2>1. Total(Sold(L, i)) = 0 BY SilentNothing DEF i
    <2>2. Total(Sold(s, i)) \in Nat BY <1>1, SoldNat
    <2>3. Total(Sold(M, i)) = Total(Sold(L, i)) + Total(Sold(s, i)) BY <1>3
    <2> QED BY <2>1, <2>2, <2>3
  <1>13. ASSUME NEW j, j # i PROVE Total(Sold(M, j)) = Total(Sold(L, j))
    <2>1. Total(Sold(s, j)) = 0 BY <1>1, <1>4, <1>13, RelNone
    <2>2. Total(Sold(L, j)) \in Nat BY SoldNat
    <2>3. Total(Sold(M, j)) = Total(Sold(L, j)) + Total(Sold(s, j)) BY <1>3
    <2> QED BY <2>1, <2>2, <2>3
  <1>14. Appended(L, s, i, M) BY <1>2, <1>6, <1>9, <1>10, <1>11, <1>12, <1>13 DEF Appended
  <1> QED BY <1>14 DEF M, i

LEMMA BlockInv ==
  ASSUME NEW S, InputSet(S), NEW L, LogInv(L, S), NEW in \in S, Silent(L, in.id), NEW s, Block(s, in)
  PROVE  LogInv(L \o s, S)
  <1> DEFINE M == L \o s
             i == in.id
             n == Len(L) + 1
  <1>1. /\ L \in Seq(Reports) /\ Matching(L, S) /\ Sound(L) /\ Ordered(L) /\ Ended(L) /\ Bounded(L, S)
    BY DEF LogInv
  <1>2. Appended(L, s, i, M) BY <1>1, BlockAppended
  <1>3. /\ M \in Seq(Reports) /\ n \in 1 .. Len(M) /\ Len(L) \in Nat /\ Len(s) \in Nat /\ Len(M) = Len(L) + Len(s)
        /\ \A k \in 1 .. Len(L) : M[k] = L[k] /\ k \in 1 .. Len(M)
        /\ \A k \in 1 .. Len(M) : k \in 1 .. Len(L) \/ (k > Len(L) /\ M[k].id = i)
        /\ \A k \in 1 .. Len(M) : IsOrder(M, k, i) => k = n
        /\ IsOrder(M, n, i) /\ M[n] = s[1]
    BY <1>1, <1>2 DEF Appended, Block
  <1>4. /\ Total(Sold(M, i)) = Total(Sold(s, i))
        /\ \A j : j # i => Total(Sold(M, j)) = Total(Sold(L, j))
    BY <1>2 DEF Appended
  <1>5. /\ Opens(s[1], in) /\ Total(Sold(s, i)) + s[1].left <= in.volume
        /\ \A k \in 1 .. Len(s) : s[k].id = in.id /\ s[k].side = in.side /\ s[k].price = in.price
    BY DEF Block
  <1>6. \A k \in 1 .. Len(M) : k \in 1 .. Len(L) \/ (k > Len(L) /\ k - Len(L) \in 1 .. Len(s) /\ M[k] = s[k - Len(L)])
    <2>1. \A k \in 1 .. Len(s) : M[Len(L) + k] = s[k] BY <1>1, ConcatAt DEF Joined, Block
    <2> HIDE DEF M
    <2>2. \A k \in 1 .. Len(M) : k \in 1 .. Len(L) \/ (k > Len(L) /\ k - Len(L) \in 1 .. Len(s) /\ k = Len(L) + (k - Len(L)))
      BY <1>3
    <2> QED BY <2>1, <2>2
  <1> HIDE DEF M, i, n
  <1>7. \A k \in 1 .. Len(M) : k \notin 1 .. Len(L) /\ M[k].type = "Order" => k = n
    BY <1>3 DEF IsOrder
  <1>9. Matching(M, S)
    <2> SUFFICES ASSUME NEW k \in 1 .. Len(M)
                 PROVE  \E x \in S : /\ M[k].id = x.id /\ M[k].side = x.side /\ M[k].price = x.price
                                     /\ M[k].type = "Order" => M[k].volume = x.volume
      BY DEF Matching
    <2>1. CASE k \in 1 .. Len(L)
      <3>1. M[k] = L[k] BY <2>1, <1>3
      <3>2. PICK x \in S : /\ L[k].id = x.id /\ L[k].side = x.side /\ L[k].price = x.price
                           /\ L[k].type = "Order" => L[k].volume = x.volume
        BY <2>1, <1>1 DEF Matching
      <3> QED BY <3>1, <3>2
    <2>2. CASE k \notin 1 .. Len(L)
      <3>1. M[k].id = in.id /\ M[k].side = in.side /\ M[k].price = in.price BY <2>2, <1>5, <1>6
      <3>2. M[k].type = "Order" => M[k].volume = in.volume BY <2>2, <1>3, <1>5, <1>7 DEF Opens
      <3> QED BY <3>1, <3>2
    <2> QED BY <2>1, <2>2
  <1>10. Sound(M)
    <2> SUFFICES ASSUME NEW k \in 1 .. Len(M), M[k].type = "Order"
                 PROVE  /\ M[k].external \/ is_final_status(M[k].status)
                        /\ is_final_status(M[k].status) \/ Lives
      BY DEF Sound
    <2>1. CASE k \in 1 .. Len(L) BY <2>1, <1>1, <1>3 DEF Sound
    <2>2. CASE k \notin 1 .. Len(L)
      <3>1. M[k] = s[1] BY <2>2, <1>3, <1>7
      <3> QED BY <3>1, <1>5 DEF Opens
    <2> QED BY <2>1, <2>2
  <1>11. Ordered(M)
    <2> SUFFICES ASSUME NEW k \in 1 .. Len(M), M[k].type = "Trade"
                 PROVE  \E j \in 1 .. k - 1 : IsOrder(M, j, M[k].id)
      BY DEF Ordered
    <2>1. CASE k \in 1 .. Len(L)
      <3>1. M[k] = L[k] BY <2>1, <1>3
      <3>2. PICK j \in 1 .. k - 1 : IsOrder(L, j, L[k].id) BY <3>1, <2>1, <1>1 DEF Ordered
      <3>3. j \in 1 .. Len(L) BY <2>1
      <3> QED BY <3>1, <3>2, <3>3, <1>3 DEF IsOrder
    <2>2. CASE k \notin 1 .. Len(L)
      <3>1. M[k].id = i /\ k > Len(L) BY <2>2, <1>3
      <3>2. k # n
        <4>1. M[n].type = "Order" BY <1>3 DEF IsOrder
        <4> QED BY <4>1
      <3>3. n \in 1 .. k - 1 BY <3>1, <3>2, <1>3 DEF n
      <3> QED BY <3>1, <3>3, <1>3
    <2> QED BY <2>1, <2>2
  <1>12. Ended(M)
    <2> SUFFICES ASSUME NEW j \in 1 .. Len(M), NEW k \in 1 .. Len(M),
                        M[j].type = "Order", M[k].type = "Order", M[j].id = M[k].id
                 PROVE  M[j].left = M[k].left /\ (j < k => ~is_final_status(M[j].status))
      BY DEF Ended
    <2>1. CASE M[k].id = i
      <3>1. j = n /\ k = n BY <2>1, <1>3 DEF IsOrder
      <3> QED BY <3>1, <1>3
    <2>2. CASE M[k].id # i
      <3>1. j \in 1 .. Len(L) /\ k \in 1 .. Len(L) BY <2>2, <1>3
      <3> QED BY <3>1, <1>1, <1>3 DEF Ended
    <2> QED BY <2>1, <2>2
  <1>13. Bounded(M, S)
    <2> SUFFICES ASSUME NEW x \in S, NEW k \in 1 .. Len(M), IsOrder(M, k, x.id)
                 PROVE  Total(Sold(M, x.id)) + M[k].left <= x.volume
      BY DEF Bounded
    <2>1. CASE x.id = i
      <3>1. x = in BY <2>1 DEF InputSet, i
      <3>2. k = n BY <2>1, <1>3
      <3> QED BY <3>1, <3>2, <1>3, <1>4, <1>5 DEF i
    <2>2. CASE x.id # i
      <3>1. k \in 1 .. Len(L) BY <2>2, <1>3 DEF IsOrder
      <3>2. M[k] = L[k] /\ IsOrder(L, k, x.id) BY <3>1, <1>3 DEF IsOrder
      <3>3. Total(Sold(L, x.id)) + L[k].left <= x.volume BY <3>1, <3>2, <1>1 DEF Bounded
      <3> QED BY <3>2, <3>3, <2>2, <1>4
    <2> QED BY <2>1, <2>2
  <1>14. LogInv(M, S) BY <1>3, <1>9, <1>10, <1>11, <1>12, <1>13 DEF LogInv
  <1> QED BY <1>14 DEF M

LEMMA BlockAddsUp ==
  ASSUME NEW S, InputSet(S), NEW L, LogInv(L, S), NEW X, AddsUp(L, S, X), NEW in \in S, Silent(L, in.id),
         NEW s, Block(s, in)
  PROVE  AddsUp(L \o s, S, X)
  <1> DEFINE M == L \o s
             i == in.id
             n == Len(L) + 1
  <1>1. L \in Seq(Reports) /\ Ordered(L) BY DEF LogInv
  <1>2. Appended(L, s, i, M) BY <1>1, BlockAppended
  <1>3. /\ \A k \in 1 .. Len(L) : M[k] = L[k]
        /\ \A k \in 1 .. Len(M) : k \in 1 .. Len(L) \/ (k > Len(L) /\ M[k].id = i)
        /\ \A k \in 1 .. Len(M) : IsOrder(M, k, i) => k = n
        /\ M[n] = s[1]
        /\ Total(Sold(M, i)) = Total(Sold(s, i))
        /\ \A j : j # i => Total(Sold(M, j)) = Total(Sold(L, j))
    BY <1>2 DEF Appended
  <1>4. RefusedAt(s[1], in) \/ Total(Sold(s, i)) + s[1].left = in.volume BY DEF Block
  <1> HIDE DEF M, i, n
  <1>5. ASSUME NEW x \in S, NEW k \in 1 .. Len(M), IsOrder(M, k, x.id), x.id \notin X, ~RefusedAt(M[k], x)
        PROVE  Total(Sold(M, x.id)) + M[k].left = x.volume
    <2>1. CASE x.id = i
      <3>1. x = in BY <2>1 DEF InputSet, i
      <3>2. k = n BY <1>5, <2>1, <1>3
      <3> QED BY <3>1, <3>2, <1>3, <1>4, <1>5 DEF i
    <2>2. CASE x.id # i
      <3>1. k \in 1 .. Len(L) BY <2>2, <1>3, <1>5 DEF IsOrder
      <3>2. M[k] = L[k] /\ IsOrder(L, k, x.id) BY <3>1, <1>3, <1>5 DEF IsOrder
      <3>3. Total(Sold(L, x.id)) + L[k].left = x.volume BY <3>1, <3>2, <1>5 DEF AddsUp
      <3> QED BY <3>2, <3>3, <2>2, <1>3
    <2> QED BY <2>1, <2>2
  <1>6. AddsUp(M, S, X) BY <1>5 DEF AddsUp
  <1> QED BY <1>6 DEF M

----------------------------------------------------------------------------
(***************************************************************************)
(* TraderSim::insert_order_                                                *)
(***************************************************************************)

\* how many trades of the minimum volume M make up v
LEMMA Pieces ==
  ASSUME NEW v \in Nat \ {0}, NEW M \in Nat \ {0}, NEW n, n = (v + M - 1) \div M
  PROVE  n \in Nat /\ n >= 1 /\ (n - 1) * M < v /\ v <= n * M
  <1> DEFINE a == v + M - 1
  <1>1. a \in Nat /\ n = a \div M OBVIOUS
  <1>2. n \in Int /\ a >= M * n /\ a < M * n + M
    <2> HIDE DEF a
    <2> QED BY <1>1, SMTT(30)
  <1>3. n * M = M * n /\ (n - 1) * M = M * n - M BY <1>2
  <1>4. n >= 1
    <2>1. SUFFICES ASSUME n <= 0 PROVE FALSE BY <1>2
    <2>2. M * n <= 0 BY <1>2, <2>1
    <2>3. a >= M OBVIOUS
    <2>4. M * n \in Int BY <1>2
    <2> HIDE DEF a
    <2> QED BY <1>1, <1>2, <2>2, <2>3, <2>4
  <1>5. M * n \in Int BY <1>2
  <1> QED BY <1>2, <1>3, <1>4, <1>5

LEMMA SplitTotal ==
  ASSUME NEW v \in Nat \ {0}
  PROVE  /\ Split(v) \in Seq(Int) /\ \A k \in 1 .. Len(Split(v)) : Split(v)[k] > 0
         /\ Total(Split(v)) = v
  <1> DEFINE M == MinVolume
             n == (v + M - 1) \div M
             s == Split(v)
             g == [k \in 0 .. n |-> IF k * M <= v THEN k * M ELSE v]
  <1>1. M \in Nat \ {0} BY TradingAssumption
  <1>2. n \in Nat /\ n >= 1 /\ (n - 1) * M < v /\ v <= n * M BY <1>1, Pieces
  <1>3. s = [k \in 1 .. n |-> Min({M, v - (k - 1) * M})] BY DEF Split
  <1> HIDE DEF M, n, s
  <1>4. ASSUME NEW k \in 1 .. n
        PROVE  /\ k * M \in Int /\ (k - 1) * M \in Int /\ (k - 1) * M < v
               /\ (k - 1) * M = k * M - M
               /\ Min({M, v - (k - 1) * M}) = IF k * M <= v THEN M ELSE v - (k - 1) * M
    <2>1. k * M \in Int /\ (k - 1) * M \in Int /\ (n - 1) * M \in Int BY <1>1, <1>2
    <2>2. (k - 1) * M = k * M - M BY <1>1
    <2>3. (k - 1) * M <= (n - 1) * M
      <3>1. (n - 1) * M - (k - 1) * M = (n - k) * M BY <1>1, <1>2
      <3>2. n - k \in Nat BY <1>2
      <3>3. (n - k) * M \in Nat BY <3>2, <1>1
      <3> QED BY <2>1, <3>1, <3>3
    <2>4. v - (k - 1) * M \in Int BY <2>1
    <2>5. Min({M, v - (k - 1) * M}) = IF M <= v - (k - 1) * M THEN M ELSE v - (k - 1) * M BY <1>1, <2>4, MinOfTwo
    <2> QED BY <1>1, <1>2, <2>1, <2>2, <2>3, <2>5
  <1>5. ASSUME NEW k \in 1 .. n PROVE s[k] \in Int /\ s[k] > 0
    <2>1. s[k] = Min({M, v - (k - 1) * M}) BY <1>3
    <2> QED BY <2>1, <1>1, <1>4
  <1>6. s \in [1 .. n -> Int] BY <1>3, <1>5
  <1>7. s \in Seq(Int) /\ Len(s) = n BY <1>2, <1>6, IntSeqOf
  <1>8. Sums(g, s)
    <2>1. \A k \in 0 .. n : k * M \in Int BY <1>1, <1>2
    <2>2. g \in [0 .. n -> Int] BY <2>1
    <2>3. g[0] = 0
      <3>1. 0 * M = 0 /\ 0 \in 0 .. n BY <1>1, <1>2
      <3> QED BY <3>1
    <2>4. ASSUME NEW k \in 1 .. n PROVE g[k] = g[k - 1] + s[k]
      <3>1. k \in 0 .. n /\ k - 1 \in 0 .. n BY <1>2
      <3>2. g[k] = (IF k * M <= v THEN k * M ELSE v) /\ g[k - 1] = (IF (k - 1) * M <= v THEN (k - 1) * M ELSE v) BY <3>1
      <3>3. s[k] = IF k * M <= v THEN M ELSE v - (k - 1) * M BY <1>3, <1>4
      <3> HIDE DEF g
      <3>5. /\ k * M \in Int /\ (k - 1) * M \in Int /\ (k - 1) * M < v /\ (k - 1) * M = k * M - M BY <1>4
      <3>4. g[k - 1] = (k - 1) * M
        <4>1. (k - 1) * M <= v BY <3>5
        <4> QED BY <4>1, <3>2
      <3>6. CASE k * M <= v
        <4>1. g[k] = k * M /\ s[k] = M BY <3>6, <3>2, <3>3
        <4> QED BY <4>1, <3>4, <3>5, <1>1
      <3>7. CASE ~(k * M <= v)
        <4>1. g[k] = v /\ s[k] = v - (k - 1) * M BY <3>7, <3>2, <3>3
        <4> QED BY <4>1, <3>4, <3>5
      <3> QED BY <3>6, <3>7
    <2> HIDE DEF g
    <2> QED BY <1>7, <2>2, <2>3, <2>4 DEF Sums
  <1>9. g[n] = v
    <2>1. n \in 0 .. n /\ n * M \in Int BY <1>1, <1>2
    <2> QED BY <1>2, <2>1
  <1> HIDE DEF g
  <1>10. Total(s) = v BY <1>7, <1>8, <1>9, TotalIs
  <1> QED BY <1>5, <1>7, <1>10 DEF s

LEMMA TradeRec ==
  ASSUME NEW in \in InputRecs, NEW volume \in Nat \ {0}, NEW f, f = Trade(in, volume)
  PROVE  /\ f \in TradeRecs /\ f \in Reports
         /\ f.type = "Trade" /\ f.id = in.id /\ f.side = in.side /\ f.price = in.price /\ f.volume = volume
  BY DEF Trade, TradeRecs, InputRecs, Reports

LEMMA OneFrame ==
  ASSUME NEW in, NEW f \in OrderType, Opens(f, in), f.id = in.id, f.side = in.side, f.price = in.price,
         in.volume \in Nat, f.left <= in.volume, RefusedAt(f, in) \/ f.left = in.volume
  PROVE  Block(<<f>>, in) /\ <<f>>[1] = f
  <1> DEFINE s == <<f>>
  <1>1. s \in Seq(Reports) /\ Len(s) = 1 /\ s[1] = f BY DEF Reports
  <1>2. \A k \in 1 .. Len(s) : k = 1 /\ s[k] = f BY <1>1
  <1> HIDE DEF s
  <1>3. \A k \in 1 .. Len(s) : ~(s[k].type = "Trade" /\ s[k].id = in.id) BY <1>2 DEF OrderType
  <1>4. Total(Sold(s, in.id)) = 0 BY <1>1, <1>3, SoldNone
  <1>5. 0 + f.left = f.left BY DEF OrderType
  <1>6. Len(s) >= 1 BY <1>1
  <1>7. Block(s, in) BY <1>1, <1>2, <1>4, <1>5, <1>6 DEF Block
  <1> QED BY <1>1, <1>7 DEF s

LEMMA StatusOf ==
  ASSUME NEW in \in InputRecs, ~TooSmall(in), mode \in MatchModes
  PROVE  /\ Status(in) \in Statuses /\ volume_traded(in) \in Nat /\ Left(in) \in Nat
         /\ Left(in) + volume_traded(in) = in.volume
         /\ is_final_status(Status(in)) \/ Lives
         /\ Lives /\ Left(in) # 0 => ~is_final_status(Status(in))
         /\ volume_traded(in) = 0 => mode \notin {"partialfillandcancel", "partialfill", "fill", "multiple_transactions"}
         /\ volume_traded(in) # 0 /\ mode = "multiple_transactions" => volume_traded(in) = in.volume
  <1>1. in.volume \in Nat /\ in.volume > 0 /\ MinVolume \in Nat /\ MinVolume > 0 /\ MinVolume <= in.volume
    BY TradingAssumption DEF InputRecs, TooSmall
  <1>2. mode \in {"reject", "pend", "cancel", "partialfillandcancel", "partialfill", "fill", "multiple_transactions"}
    BY TradingAssumption
  <1> QED BY <1>1, <1>2 DEF Status, Statuses, volume_traded, Left, Lives, is_final_status

LEMMA TradesOf ==
  ASSUME NEW in \in InputRecs, ~TooSmall(in), mode \in MatchModes
  PROVE  /\ Trades(in) \in Seq(Reports)
         /\ \A k \in 1 .. Len(Trades(in)) :
              /\ Trades(in)[k].type = "Trade" /\ Trades(in)[k].id = in.id
              /\ Trades(in)[k].side = in.side /\ Trades(in)[k].price = in.price
         /\ Total(Sold(Trades(in), in.id)) = volume_traded(in)
  <1> DEFINE t == Trades(in)
  <1>1. in.volume \in Nat \ {0} BY DEF InputRecs
  <1>2. CASE mode = "multiple_transactions"
    <2> DEFINE p == Split(in.volume)
    <2>1. p \in Seq(Int) /\ (\A k \in 1 .. Len(p) : p[k] > 0) /\ Total(p) = in.volume BY <1>1, SplitTotal
    <2>2. DOMAIN p = 1 .. Len(p) /\ Len(p) \in Nat /\ \A k \in 1 .. Len(p) : p[k] \in Nat \ {0} BY <2>1
    <2>3. t = [k \in DOMAIN p |-> Trade(in, p[k])] BY <1>2 DEF Trades
    <2> HIDE DEF p, t
    <2>4. \A k \in 1 .. Len(p) : t[k] = Trade(in, p[k]) BY <2>2, <2>3
    <2>5. ASSUME NEW k \in 1 .. Len(p)
          PROVE  /\ t[k] \in Reports
                 /\ t[k].type = "Trade" /\ t[k].id = in.id /\ t[k].side = in.side /\ t[k].price = in.price
                 /\ t[k].volume = p[k]
      <3>1. p[k] \in Nat \ {0} /\ t[k] = Trade(in, p[k]) BY <2>2, <2>4
      <3> QED BY <3>1, TradeRec
    <2>6. t \in Seq(Reports) /\ Len(t) = Len(p)
      <3>1. t \in [1 .. Len(p) -> Reports] BY <2>2, <2>3, <2>5
      <3> QED BY <3>1, <2>2
    <2>7. Sold(t, in.id) = p
      <3>1. Sold(t, in.id) \in Seq(Int) /\ Len(Sold(t, in.id)) = Len(p) BY <2>6, SoldType
      <3>2. ASSUME NEW k \in 1 .. Len(p) PROVE Sold(t, in.id)[k] = p[k]
        <4>1. k \in 1 .. Len(t) BY <2>6
        <4> QED BY <4>1, <2>5, <2>6, SoldType
      <3> QED BY <3>1, <3>2, <2>1, SameSeq
    <2>8. volume_traded(in) = in.volume BY <1>2 DEF volume_traded
    <2>9. Total(Sold(t, in.id)) = volume_traded(in) BY <2>1, <2>7, <2>8
    <2> QED BY <2>5, <2>6, <2>9 DEF t
  <1>3. CASE mode # "multiple_transactions" /\ volume_traded(in) > 0
    <2> DEFINE f == Trade(in, volume_traded(in))
    <2>1. t = <<f>> BY <1>3 DEF Trades
    <2>2. volume_traded(in) \in Nat \ {0} BY <1>3, StatusOf
    <2>3. /\ f \in Reports /\ f.type = "Trade" /\ f.id = in.id /\ f.side = in.side /\ f.price = in.price
          /\ f.volume = volume_traded(in)
      BY <2>2, TradeRec
    <2> HIDE DEF f, t
    <2>4. t \in Seq(Reports) /\ Len(t) = 1 /\ t[1] = f BY <2>1, <2>3
    <2>5. \A k \in 1 .. Len(t) : k = 1 /\ t[k] = f BY <2>4
    <2> DEFINE p == Sold(t, in.id)
    <2>6. p \in Seq(Int) /\ Len(p) = 1 /\ p[1] = volume_traded(in)
      <3>1. 1 \in 1 .. Len(t) BY <2>4
      <3> QED BY <2>3, <2>4, <3>1, SoldType
    <2> HIDE DEF p
    <2>7. Total(p) = volume_traded(in)
      <3>1. p = Append(<<>>, p[1]) BY <2>6
      <3>2. <<>> \in Seq(Int) /\ Total(<<>>) = 0
        <4>1. <<>> \in Seq(Int) /\ \A k \in 1 .. Len(<<>>) : <<>>[k] = 0 OBVIOUS
        <4> QED BY <4>1, TotalZero
      <3>3. p[1] \in Int BY <2>2, <2>6
      <3>4. Total(Append(<<>>, p[1])) = 0 + p[1] BY <3>2, <3>3, TotalAppend
      <3> QED BY <2>2, <2>6, <3>1, <3>4
    <2> QED BY <2>3, <2>4, <2>5, <2>7 DEF t, p
  <1>4. CASE mode # "multiple_transactions" /\ ~(volume_traded(in) > 0)
    <2>1. t = <<>> BY <1>4 DEF Trades
    <2>2. volume_traded(in) = 0 BY <1>4, StatusOf
    <2>3. t \in Seq(Reports) /\ Len(t) = 0 BY <2>1
    <2> HIDE DEF t
    <2>5. \A k \in 1 .. Len(t) : FALSE BY <2>3
    <2>4. Total(Sold(t, in.id)) = 0
      <3>1. \A k \in 1 .. Len(t) : ~(t[k].type = "Trade" /\ t[k].id = in.id) BY <2>5
      <3> QED BY <3>1, <2>3, SoldNone
    <2> QED BY <2>2, <2>3, <2>4, <2>5 DEF t
  <1> QED BY <1>2, <1>3, <1>4

LEMMA InsertBlock ==
  ASSUME NEW in \in InputRecs, mode \in MatchModes
  PROVE  /\ Block(insert_order_(in), in)
         /\ Accepted(in) => insert_order_(in)[1] = Order(in, Status(in), Left(in), TRUE)
  <1>1. in.volume \in Nat /\ in.volume > 0 BY DEF InputRecs
  <1>2. "Error" \in Statuses /\ is_final_status("Error") /\ TRUE \in BOOLEAN BY DEF Statuses, is_final_status
  <1>3. CASE TooSmall(in)
    <2> DEFINE f == Order(in, "Error", in.volume, TRUE)
    <2>5. f = Order(in, "Error", in.volume, TRUE) OBVIOUS
    <2> HIDE DEF f
    <2>1. /\ f \in OrderType /\ f.id = in.id /\ f.side = in.side /\ f.price = in.price /\ f.volume = in.volume
          /\ f.status = "Error" /\ f.left = in.volume
      BY <1>1, <1>2, <2>5, SMTT(30) DEF Order, OrderType, InputRecs, Reports
    <2>2. insert_order_(in) = <<f>> BY <1>3, <2>5 DEF insert_order_
    <2>3. Opens(f, in) BY <2>1, <1>2 DEF Opens
    <2>4. Block(<<f>>, in) BY <1>1, <2>1, <2>3, OneFrame
    <2> QED BY <1>3, <2>2, <2>4 DEF Accepted
  <1>4. CASE ~TooSmall(in) /\ NoBlock(in)
    <2> DEFINE f == Order(in, "Error", Left(in), TRUE)
    <2>1. Left(in) \in Nat /\ Left(in) <= in.volume BY <1>1, <1>4, StatusOf
    <2>7. f = Order(in, "Error", Left(in), TRUE) OBVIOUS
    <2> HIDE DEF f
    <2>2. /\ f \in OrderType /\ f.id = in.id /\ f.side = in.side /\ f.price = in.price /\ f.volume = in.volume
          /\ f.status = "Error" /\ f.left = Left(in)
      BY <2>1, <1>2, <2>7, SMTT(30) DEF Order, OrderType, InputRecs, Reports
    <2>3. insert_order_(in) = <<f>> BY <1>4, <2>7 DEF insert_order_
    <2>4. RefusedAt(f, in)
      <3>1. in.volume >= MinVolume BY <1>1, <1>4, TradingAssumption DEF TooSmall
      <3> QED BY <3>1, <2>2, <1>4 DEF RefusedAt, NoBlock
    <2>5. Opens(f, in) BY <2>2, <1>2 DEF Opens
    <2>6. Block(<<f>>, in) BY <1>1, <2>1, <2>2, <2>4, <2>5, OneFrame
    <2> QED BY <1>4, <2>3, <2>6 DEF Accepted
  <1>5. CASE ~TooSmall(in) /\ ~NoBlock(in)
    <2> DEFINE f == Order(in, Status(in), Left(in), TRUE)
               t == Trades(in)
               s == <<f>> \o t
    <2>1. /\ Status(in) \in Statuses /\ volume_traded(in) \in Nat /\ Left(in) \in Nat
          /\ Left(in) + volume_traded(in) = in.volume
          /\ is_final_status(Status(in)) \/ Lives
      BY <1>5, StatusOf
    <2>a. f = Order(in, Status(in), Left(in), TRUE) OBVIOUS
    <2>b. s = <<f>> \o t OBVIOUS
    <2> HIDE DEF f, t, s
    <2>2. /\ f \in OrderType /\ f \in Reports /\ f.type = "Order"
          /\ f.id = in.id /\ f.side = in.side /\ f.price = in.price /\ f.volume = in.volume
          /\ f.status = Status(in) /\ f.left = Left(in) /\ f.external = TRUE
      BY <2>1, <1>2, <2>a, SMTT(30) DEF Order, OrderType, InputRecs, Reports
    <2>3. /\ t \in Seq(Reports)
          /\ \A k \in 1 .. Len(t) : t[k].type = "Trade" /\ t[k].id = in.id /\ t[k].side = in.side /\ t[k].price = in.price
          /\ Total(Sold(t, in.id)) = volume_traded(in)
      BY <1>5, TradesOf DEF t
    <2>4. insert_order_(in) = s BY <1>5, <2>a, <2>b DEF insert_order_, t
    <2> DEFINE u == <<f>>
    <2>5. u \in Seq(Reports) /\ Len(u) = 1 /\ u[1] = f BY <2>2
    <2>6. s = u \o t BY <2>b
    <2> HIDE DEF u
    <2>7. /\ s \in Seq(Reports) /\ Len(s) = 1 + Len(t)
          /\ \A k \in 1 .. 1 : s[k] = u[k]
          /\ \A k \in 1 .. Len(t) : s[1 + k] = t[k]
      <3>1. Joined(Reports, u, t, s) BY <2>3, <2>5, <2>6, ConcatAt
      <3> QED BY <3>1, <2>5 DEF Joined
    <2>8. s[1] = f /\ Len(t) \in Nat BY <2>3, <2>5, <2>7
    <2>9. ASSUME NEW k \in 1 .. Len(s)
          PROVE  /\ s[k].id = in.id /\ s[k].side = in.side /\ s[k].price = in.price
                 /\ k # 1 => s[k].type = "Trade"
      <3>1. CASE k = 1 BY <3>1, <2>2, <2>8
      <3>2. CASE k # 1
        <4>1. k - 1 \in 1 .. Len(t) /\ k = 1 + (k - 1) BY <3>2, <2>7, <2>8
        <4>2. s[k] = t[k - 1] BY <4>1, <2>7
        <4> QED BY <4>1, <4>2, <2>3
      <3> QED BY <3>1, <3>2
    <2>10. Total(Sold(s, in.id)) = volume_traded(in)
      <3>1. \A k \in 1 .. Len(u) : ~(u[k].type = "Trade" /\ u[k].id = in.id)
        <4>1. \A k \in 1 .. Len(u) : u[k] = f BY <2>5
        <4> QED BY <4>1, <2>2
      <3>2. Total(Sold(u, in.id)) = 0 BY <2>5, <3>1, SoldNone
      <3>3. Total(Sold(s, in.id)) = Total(Sold(u, in.id)) + Total(Sold(t, in.id)) BY <2>3, <2>5, <2>6, SoldConcat
      <3> QED BY <3>2, <3>3, <2>1, <2>3
    <2>11. Total(Sold(s, in.id)) + s[1].left = in.volume BY <2>1, <2>2, <2>8, <2>10
    <2>12. Opens(f, in) BY <2>1, <2>2 DEF Opens
    <2>13. Len(s) >= 1 BY <2>7, <2>8
    <2>14. Total(Sold(s, in.id)) + s[1].left <= in.volume BY <1>1, <2>11
    <2>15. Block(s, in) BY <2>7, <2>8, <2>9, <2>11, <2>12, <2>13, <2>14 DEF Block
    <2> QED BY <2>4, <2>8, <2>15, <2>a
  <1> QED BY <1>3, <1>4, <1>5

----------------------------------------------------------------------------
(***************************************************************************)
(* Several blocks, one after the other.                                    *)
(***************************************************************************)

LEMMA StepByStep ==
  ASSUME NEW n \in Nat, NEW T, 0 \in T, \A k \in 1 .. n : k - 1 \in T => k \in T
  PROVE  \A k \in 0 .. n : k \in T
  <1> DEFINE D == {k \in 0 .. n : k \notin T}
  <1>1. D \in SUBSET Nat OBVIOUS
  <1>2. SUFFICES ASSUME D # {} PROVE FALSE OBVIOUS
  <1>3. PICK k \in D : \A i \in D : k <= i
    <2> HIDE DEF D
    <2> QED BY <1>1, <1>2, LeastNat
  <1>4. k \in 1 .. n BY <1>3
  <1>5. k - 1 \in 0 .. n /\ k - 1 \notin D BY <1>3, <1>4
  <1> QED BY <1>3, <1>4, <1>5

\* g adds the members of ss to L one by one
Steps(S, L, ss, g) ==
  /\ g \in [0 .. Len(ss) -> Seq(S)] /\ g[0] = L
  /\ \A k \in 1 .. Len(ss) : g[k] = g[k - 1] \o ss[k]

LEMMA FlattenSteps ==
  ASSUME NEW S, NEW ss \in Seq(Seq(S))
  PROVE  \E h : Steps(S, <<>>, ss, h) /\ FlattenSeq(ss) = h[Len(ss)]
  <1> DEFINE n == Len(ss)
             P(f) == f = [k \in 1 .. n |-> IF k = 1 THEN ss[k] ELSE f[k - 1] \o ss[k]]
             F == [k \in Nat |-> [x \in Seq(S) |-> IF k \in 1 .. n THEN x \o ss[k] ELSE x]]
             f == CHOOSE f : P(f)
             h == [k \in 0 .. n |-> IF k = 0 THEN <<>> ELSE f[k]]
  <1>1. n \in Nat /\ \A k \in 1 .. n : ss[k] \in Seq(S) OBVIOUS
  <1>2. CASE n = 0
    <2>1. FlattenSeq(ss) = ss /\ ss = <<>> BY <1>2 DEF FlattenSeq
    <2>2. Steps(S, <<>>, ss, [k \in 0 .. 0 |-> <<>>]) BY <1>2 DEF Steps
    <2> QED BY <2>1, <2>2, <1>2
  <1>3. CASE n # 0
    <2>1. FlattenSeq(ss) = f[n] BY <1>3 DEF FlattenSeq
    <2>2. F \in [Nat -> [Seq(S) -> Seq(S)]] BY <1>1
    <2>3. ss[1] \in Seq(S) /\ 1 \in Nat /\ n \in 1 .. n BY <1>1, <1>3
    <2>4. \A k \in 1 .. n : \A x \in Seq(S) : F[k][x] = x \o ss[k]
      <3> TAKE k \in 1 .. n
      <3> TAKE x \in Seq(S)
      <3>1. k \in Nat BY <1>1
      <3>2. F[k] = [y \in Seq(S) |-> IF k \in 1 .. n THEN y \o ss[k] ELSE y] BY <3>1
      <3> HIDE DEF F
      <3> QED BY <3>2
    <2> HIDE DEF F, f
    <2>5. PICK g \in [1 .. n -> Seq(S)] :
            \A k \in 1 .. n : g[k] = IF k = 1 THEN ss[1] ELSE F[k][g[k - 1]]
      <3>1. Recursive(Seq(S), ss[1], 1, n, F) BY <1>1, <2>2, <2>3, Recursion, Zenon
      <3> QED BY <3>1 DEF Recursive
    <2>6. \A k \in 1 .. n : g[k] = IF k = 1 THEN ss[k] ELSE g[k - 1] \o ss[k]
      <3> TAKE k \in 1 .. n
      <3>1. CASE k = 1 BY <3>1, <2>5
      <3>2. CASE k # 1
        <4>1. k - 1 \in 1 .. n BY <3>2, <1>1
        <4>2. g[k - 1] \in Seq(S) BY <4>1
        <4> QED BY <4>2, <3>2, <2>4, <2>5
      <3> QED BY <3>1, <3>2
    <2>7. P(g) BY <2>6
    <2>8. P(f)
      <3> HIDE DEF P
      <3> QED BY <2>7 DEF f
    <2>9. \A k \in 1 .. n : f[k] = IF k = 1 THEN ss[k] ELSE f[k - 1] \o ss[k] BY <2>8
    <2> HIDE DEF P
    <2> DEFINE T == {k \in Nat : k = 0 \/ f[k] \in Seq(S)}
    <2>10. ASSUME NEW k \in 1 .. n, k - 1 \in T PROVE k \in T
      <3>1. CASE k = 1 BY <3>1, <1>1, <2>9
      <3>2. CASE k # 1
        <4>1. f[k - 1] \in Seq(S) BY <3>2, <2>10
        <4>2. f[k] = f[k - 1] \o ss[k] /\ ss[k] \in Seq(S) BY <3>2, <1>1, <2>9
        <4>3. f[k] \in Seq(S)
          <5> HIDE DEF T
          <5> QED BY <4>1, <4>2
        <4> QED BY <4>3
      <3> QED BY <3>1, <3>2
    <2>11. \A k \in 0 .. n : k \in T
      <3>1. 0 \in T OBVIOUS
      <3> HIDE DEF T
      <3> QED BY <3>1, <1>1, <2>10, StepByStep
    <2>12. \A k \in 1 .. n : f[k] \in Seq(S)
      <3> TAKE k \in 1 .. n
      <3>1. k \in T /\ k # 0 BY <2>11
      <3> QED BY <3>1
    <2>13. h \in [0 .. n -> Seq(S)] /\ h[0] = <<>> BY <1>1, <2>12
    <2>14. ASSUME NEW k \in 1 .. n PROVE h[k] = h[k - 1] \o ss[k]
      <3>1. k - 1 \in 0 .. n /\ k \in 0 .. n /\ h[k] = f[k] BY <1>1
      <3>2. CASE k = 1
        <4>1. h[k - 1] = <<>> /\ h[k] = ss[k] BY <3>1, <3>2, <2>9
        <4>2. <<>> \o ss[k] = ss[k] BY <1>1
        <4> QED BY <4>1, <4>2
      <3>3. CASE k # 1
        <4>1. h[k - 1] = f[k - 1] BY <3>1, <3>3
        <4>2. f[k] = f[k - 1] \o ss[k] BY <3>3, <2>9
        <4> QED BY <4>1, <4>2, <3>1
      <3> QED BY <3>2, <3>3
    <2>15. h[n] = f[n] BY <1>1, <1>3
    <2> HIDE DEF h
    <2> QED BY <2>1, <2>13, <2>14, <2>15 DEF Steps
  <1> QED BY <1>2, <1>3

LEMMA FlattenOnto ==
  ASSUME NEW S, NEW ss \in Seq(Seq(S)), NEW L \in Seq(S)
  PROVE  FlattenSeq(ss) \in Seq(S) /\ \E g : Steps(S, L, ss, g) /\ L \o FlattenSeq(ss) = g[Len(ss)]
  <1>1. PICK h : Steps(S, <<>>, ss, h) /\ FlattenSeq(ss) = h[Len(ss)] BY FlattenSteps
  <1> DEFINE n == Len(ss)
             g == [k \in 0 .. n |-> L \o h[k]]
  <1>2. n \in Nat /\ \A k \in 1 .. n : ss[k] \in Seq(S) OBVIOUS
  <1>3. h \in [0 .. n -> Seq(S)] /\ h[0] = <<>> /\ \A k \in 1 .. n : h[k] = h[k - 1] \o ss[k] BY <1>1 DEF Steps
  <1>4. \A k \in 0 .. n : g[k] = L \o h[k] /\ g[k] \in Seq(S)
    <2> TAKE k \in 0 .. n
    <2>1. h[k] \in Seq(S) BY <1>3
    <2> QED BY <2>1
  <1>5. g \in [0 .. n -> Seq(S)] BY <1>4
  <1>6. g[0] = L BY <1>2, <1>3
  <1>7. ASSUME NEW k \in 1 .. n PROVE g[k] = g[k - 1] \o ss[k]
    <2>1. k \in 0 .. n /\ k - 1 \in 0 .. n BY <1>2
    <2>2. h[k - 1] \in Seq(S) /\ ss[k] \in Seq(S) /\ h[k] = h[k - 1] \o ss[k] BY <2>1, <1>2, <1>3
    <2>3. (L \o h[k - 1]) \o ss[k] = L \o (h[k - 1] \o ss[k])
      <3>1. Associates(L, h[k - 1], ss[k]) BY <2>2, ConcatAssoc
      <3> QED BY <3>1 DEF Associates
    <2>4. g[k] = L \o h[k] /\ g[k - 1] = L \o h[k - 1] BY <2>1, <1>4
    <2> HIDE DEF g
    <2> QED BY <2>2, <2>3, <2>4
  <1>8. n \in 0 .. n BY <1>2
  <1>9. h[n] \in Seq(S) BY <1>3, <1>8
  <1>10. g[n] = L \o h[n] BY <1>4, <1>8
  <1> HIDE DEF g
  <1>11. Steps(S, L, ss, g) BY <1>5, <1>6, <1>7 DEF Steps
  <1> QED BY <1>1, <1>9, <1>10, <1>11

\* the same for single frames
LEMMA AddOneByOne ==
  ASSUME NEW S, NEW u \in Seq(S), NEW L \in Seq(S)
  PROVE  LET ss == [k \in 1 .. Len(u) |-> <<u[k]>>]
         IN  /\ ss \in Seq(Seq(S)) /\ Len(ss) = Len(u)
             /\ \E g : Steps(S, L, ss, g) /\ L \o u = g[Len(ss)]
  <1> DEFINE n == Len(u)
             ss == [k \in 1 .. n |-> <<u[k]>>]
             g == [k \in 0 .. n |-> L \o SubSeq(u, 1, k)]
  <1>1. n \in Nat /\ \A k \in 1 .. n : u[k] \in S OBVIOUS
  <1>2. \A k \in 1 .. n : ss[k] = <<u[k]>> /\ <<u[k]>> \in Seq(S) BY <1>1
  <1>3. ss \in Seq(Seq(S)) /\ Len(ss) = n
    <2>1. ss \in [1 .. n -> Seq(S)] BY <1>2
    <2> HIDE DEF ss
    <2> QED BY <2>1, <1>1
  <1>4. \A k \in 0 .. n : SubSeq(u, 1, k) \in Seq(S) /\ Len(SubSeq(u, 1, k)) = k
                          /\ \A j \in 1 .. k : SubSeq(u, 1, k)[j] = u[j]
    OBVIOUS
  <1>5. \A k \in 0 .. n : g[k] = L \o SubSeq(u, 1, k) /\ g[k] \in Seq(S)
    <2> TAKE k \in 0 .. n
    <2>1. SubSeq(u, 1, k) \in Seq(S) BY <1>4
    <2> QED BY <2>1
  <1>6. g \in [0 .. n -> Seq(S)] BY <1>5
  <1>7. g[0] = L
    <2>1. SubSeq(u, 1, 0) = <<>> BY <1>1
    <2> QED BY <2>1, <1>1
  <1>8. ASSUME NEW k \in 1 .. n PROVE g[k] = g[k - 1] \o ss[k]
    <2>1. k \in 0 .. n /\ k - 1 \in 0 .. n BY <1>1
    <2> DEFINE p == SubSeq(u, 1, k - 1)
               q == SubSeq(u, 1, k)
               e == <<u[k]>>
    <2>2. p \in Seq(S) /\ Len(p) = k - 1 /\ \A j \in 1 .. k - 1 : p[j] = u[j] BY <2>1, <1>4
    <2>3. q \in Seq(S) /\ Len(q) = k /\ \A j \in 1 .. k : q[j] = u[j] BY <2>1, <1>4
    <2>4. e \in Seq(S) /\ Len(e) = 1 /\ e[1] = u[k] BY <1>1
    <2>5. g[k] = L \o q /\ g[k - 1] = L \o p /\ ss[k] = e BY <2>1, <1>2, <1>5
    <2> HIDE DEF p, q, e, g, ss
    <2>6. p \o e = q
      <3>1. Joined(S, p, e, p \o e) BY <2>2, <2>4, ConcatAt
      <3>2. ASSUME NEW j \in 1 .. k PROVE (p \o e)[j] = q[j]
        <4>1. CASE j = k
          <5>1. (p \o e)[Len(p) + 1] = e[1]
            <6>1. 1 \in 1 .. Len(e) BY <2>4
            <6> QED BY <6>1, <3>1 DEF Joined
          <5>2. Len(p) + 1 = k /\ q[k] = u[k] BY <1>1, <2>1, <2>2, <2>3
          <5> QED BY <5>1, <5>2, <4>1, <2>4
        <4>2. CASE j # k
          <5>1. j \in 1 .. k - 1 BY <2>1, <4>2
          <5> QED BY <5>1, <3>1, <2>2, <2>3 DEF Joined
        <4> QED BY <4>1, <4>2
      <3>3. p \o e \in Seq(S) /\ Len(p \o e) = k BY <3>1, <2>2, <2>4 DEF Joined
      <3> QED BY <3>2, <3>3, <2>3, SameSeq
    <2>7. (L \o p) \o e = L \o (p \o e)
      <3>1. Associates(L, p, e) BY <2>2, <2>4, ConcatAssoc
      <3> QED BY <3>1 DEF Associates
    <2> QED BY <2>5, <2>6, <2>7
  <1>9. g[n] = L \o u
    <2>1. SubSeq(u, 1, n) = u BY <1>1
    <2>2. n \in 0 .. n BY <1>1
    <2> QED BY <2>1, <2>2, <1>5
  <1> HIDE DEF g, ss
  <1>10. Steps(S, L, ss, g) BY <1>3, <1>6, <1>7, <1>8 DEF Steps
  <1> QED BY <1>3, <1>9, <1>10 DEF ss

\* B[k] is the block of the order input in[k], of which L says nothing yet
Blocks(S, L, B, in) ==
  /\ in \in Seq(S) /\ B \in Seq(Seq(Reports)) /\ Len(B) = Len(in)
  /\ \A k \in 1 .. Len(in) : Block(B[k], in[k]) /\ Silent(L, in[k].id)
  /\ \A j, k \in 1 .. Len(in) : in[j].id = in[k].id => j = k

\* M says no more of order i than L does
NoNews(L, M, i) == \A m \in 1 .. Len(M) : IsOrder(M, m, i) => m \in 1 .. Len(L)

\* M is L with the first n blocks
After(S, X, L, B, in, n, M) ==
  /\ LogInv(M, S) /\ AddsUp(M, S, X) /\ Longer(L, M)
  /\ \A i : (\A j \in 1 .. n : in[j].id # i) => NoNews(L, M, i)
  /\ \A j \in 1 .. n : Says(M, in[j].id, B[j][1])
  /\ \A m \in 1 .. Len(M) : m \in 1 .. Len(L) \/ Silent(L, M[m].id)

LEMMA NextBlock ==
  ASSUME NEW S, InputSet(S), NEW X, NEW L, NEW B, NEW in, Blocks(S, L, B, in), NEW n \in 1 .. Len(in), NEW M,
         After(S, X, L, B, in, n - 1, M)
  PROVE  After(S, X, L, B, in, n, M \o B[n])
  <1> DEFINE s == B[n]
             x == in[n]
             i == in[n].id
             N == M \o s
  <1>1. /\ LogInv(M, S) /\ AddsUp(M, S, X) /\ Longer(L, M)
        /\ \A y : (\A j \in 1 .. n - 1 : in[j].id # y) => NoNews(L, M, y)
        /\ \A j \in 1 .. n - 1 : Says(M, in[j].id, B[j][1])
        /\ \A m \in 1 .. Len(M) : m \in 1 .. Len(L) \/ Silent(L, M[m].id)
    BY DEF After
  <1>2. /\ x \in S /\ Block(s, x) /\ Silent(L, i) /\ Len(in) \in Nat
        /\ \A j \in 1 .. n - 1 : in[j].id # i
    <2>1. in \in Seq(S) BY DEF Blocks
    <2>2. Len(in) \in Nat /\ x \in S BY <2>1
    <2>3. ASSUME NEW j \in 1 .. n - 1, in[j].id = i PROVE FALSE
      <3>1. j \in 1 .. Len(in) /\ j # n BY <2>2
      <3> QED BY <3>1, <2>3 DEF Blocks
    <2> QED BY <2>2, <2>3 DEF Blocks
  <1>3. M \in Seq(Reports) /\ Ordered(M) BY <1>1 DEF LogInv
  <1>4. /\ L \in Seq(Reports) /\ Len(L) <= Len(M) /\ Len(L) \in Nat /\ Len(M) \in Nat
        /\ \A k \in 1 .. Len(L) : M[k] = L[k]
    <2>1. L \in Seq(Reports) /\ M \in Seq(Reports) BY <1>1 DEF Longer
    <2>2. Len(L) \in Nat /\ Len(M) \in Nat BY <2>1
    <2>3. Len(L) <= Len(M) /\ \A k \in 1 .. Len(L) : M[k] = L[k] BY <1>1 DEF Longer
    <2> QED BY <2>1, <2>2, <2>3
  <1>5. Silent(M, i)
    <2>1. NoNews(L, M, i) BY <1>1, <1>2
    <2> SUFFICES ASSUME NEW k \in 1 .. Len(M), IsOrder(M, k, i) PROVE FALSE BY DEF Silent
    <2>2. k \in 1 .. Len(L) BY <2>1 DEF NoNews
    <2>3. M[k] = L[k] BY <2>2, <1>4
    <2> QED BY <2>2, <2>3, <1>2 DEF Silent, IsOrder
  <1>6. Block(s, x) /\ Silent(M, x.id) BY <1>2, <1>5
  <1>7. LogInv(N, S) /\ AddsUp(N, S, X) BY <1>1, <1>2, <1>6, BlockInv, BlockAddsUp
  <1>8. Appended(M, s, i, N) BY <1>3, <1>6, BlockAppended
  <1>9. /\ N \in Seq(Reports) /\ Len(N) = Len(M) + Len(s) /\ Len(s) \in Nat
        /\ \A k \in 1 .. Len(M) : N[k] = M[k] /\ k \in 1 .. Len(N)
        /\ \A k \in 1 .. Len(N) : k \in 1 .. Len(M) \/ (k > Len(M) /\ N[k].id = i)
        /\ \A k \in 1 .. Len(N) : IsOrder(N, k, i) => k = Len(M) + 1
        /\ IsOrder(N, Len(M) + 1, i) /\ N[Len(M) + 1] = s[1] /\ Len(M) + 1 \in 1 .. Len(N)
    <2> HIDE DEF N, i
    <2>1. s \in Seq(Reports) BY <1>2 DEF Block
    <2>2. Len(s) \in Nat BY <2>1
    <2> HIDE DEF s
    <2> QED BY <2>2, <1>8 DEF Appended
  <1> HIDE DEF N, i
  <1>10. Longer(L, N)
    <2>1. Len(L) <= Len(N) BY <1>4, <1>9
    <2>2. ASSUME NEW k \in 1 .. Len(L) PROVE N[k] = L[k]
      <3>1. k \in 1 .. Len(M) BY <1>4
      <3> QED BY <3>1, <1>4, <1>9
    <2> QED BY <1>4, <1>9, <2>1, <2>2 DEF Longer
  <1>11. ASSUME NEW y, \A j \in 1 .. n : in[j].id # y PROVE NoNews(L, N, y)
    <2>1. y # i BY <1>11, <1>2 DEF i
    <2>2. NoNews(L, M, y)
      <3>1. \A j \in 1 .. n - 1 : j \in 1 .. n OBVIOUS
      <3> QED BY <3>1, <1>1, <1>11
    <2>3. ASSUME NEW m \in 1 .. Len(N), IsOrder(N, m, y) PROVE m \in 1 .. Len(L)
      <3>1. m \in 1 .. Len(M) BY <2>1, <2>3, <1>9 DEF IsOrder
      <3>2. IsOrder(M, m, y) BY <3>1, <2>3, <1>9 DEF IsOrder
      <3> QED BY <3>1, <3>2, <2>2 DEF NoNews
    <2> QED BY <2>3 DEF NoNews
  <1>12. ASSUME NEW j \in 1 .. n PROVE Says(N, in[j].id, B[j][1])
    <2>1. CASE j = n
      <3>1. \A m \in 1 .. Len(N) : IsOrder(N, m, i) => N[m] = s[1] BY <1>9
      <3>2. Says(N, i, s[1]) BY <3>1, <1>9 DEF Says
      <3> QED BY <3>2, <2>1 DEF i
    <2>2. CASE j # n
      <3> DEFINE y == in[j].id
                 f == B[j][1]
      <3>1. j \in 1 .. n - 1 BY <2>2
      <3>2. Says(M, y, f) /\ y # i BY <3>1, <1>1, <1>2 DEF i
      <3> HIDE DEF y, f
      <3>3. PICK m \in 1 .. Len(M) : IsOrder(M, m, y) BY <3>2 DEF Says
      <3>4. m \in 1 .. Len(N) /\ IsOrder(N, m, y) BY <3>3, <1>9 DEF IsOrder
      <3>5. ASSUME NEW l \in 1 .. Len(N), IsOrder(N, l, y) PROVE N[l] = f
        <4>1. l \in 1 .. Len(M) BY <3>2, <3>5, <1>9 DEF IsOrder
        <4>2. IsOrder(M, l, y) /\ N[l] = M[l] BY <4>1, <3>5, <1>9 DEF IsOrder
        <4> QED BY <4>1, <4>2, <3>2 DEF Says
      <3>6. Says(N, y, f) BY <3>4, <3>5 DEF Says
      <3> QED BY <3>6 DEF y, f
    <2> QED BY <2>1, <2>2
  <1>13. ASSUME NEW m \in 1 .. Len(N) PROVE m \in 1 .. Len(L) \/ Silent(L, N[m].id)
    <2>1. CASE m \in 1 .. Len(M) BY <2>1, <1>1, <1>9
    <2>2. CASE m \notin 1 .. Len(M)
      <3>1. N[m].id = i BY <2>2, <1>9
      <3> QED BY <3>1, <1>2 DEF i
    <2> QED BY <2>1, <2>2
  <1>14. After(S, X, L, B, in, n, N) BY <1>7, <1>10, <1>11, <1>12, <1>13 DEF After
  <1> QED BY <1>14 DEF N

LEMMA AllBlocks ==
  ASSUME NEW S, InputSet(S), NEW X, NEW L, LogInv(L, S), AddsUp(L, S, X), NEW B, NEW in, Blocks(S, L, B, in),
         NEW g, Steps(Reports, L, B, g)
  PROVE  After(S, X, L, B, in, Len(in), g[Len(B)])
  <1> DEFINE n == Len(in)
             T == {k \in 0 .. n : After(S, X, L, B, in, k, g[k])}
  <1>1. in \in Seq(S) /\ Len(B) = n BY DEF Blocks
  <1>2. n \in Nat BY <1>1
  <1>3. L \in Seq(Reports) /\ Len(L) \in Nat
    <2>1. L \in Seq(Reports) BY DEF LogInv
    <2> QED BY <2>1
  <1>4. After(S, X, L, B, in, 0, L)
    <2>1. Longer(L, L) BY <1>3 DEF Longer
    <2>2. \A i : NoNews(L, L, i) BY DEF NoNews
    <2>3. \A j \in 1 .. 0 : FALSE OBVIOUS
    <2> QED BY <2>1, <2>2, <2>3 DEF After
  <1>5. 0 \in T
    <2>1. g[0] = L BY DEF Steps
    <2> QED BY <2>1, <1>2, <1>4
  <1>6. ASSUME NEW k \in 1 .. n, k - 1 \in T PROVE k \in T
    <2>1. After(S, X, L, B, in, k - 1, g[k - 1]) BY <1>6
    <2>2. g[k] = g[k - 1] \o B[k] BY <1>1 DEF Steps
    <2> DEFINE M == g[k - 1]
    <2>3. After(S, X, L, B, in, k - 1, M) BY <2>1
    <2>4. k \in 1 .. Len(in) OBVIOUS
    <2> HIDE DEF M, n
    <2>5. After(S, X, L, B, in, k, M \o B[k]) BY <2>3, <2>4, NextBlock
    <2>6. k \in 0 .. n BY <2>4, <1>2 DEF n
    <2> QED BY <2>2, <2>5, <2>6 DEF M
  <1>7. \A k \in 0 .. n : k \in T
    <2> HIDE DEF T, n
    <2> QED BY <1>2, <1>5, <1>6, StepByStep
  <1>8. n \in 0 .. n BY <1>2
  <1> QED BY <1>1, <1>7, <1>8

----------------------------------------------------------------------------
(***************************************************************************)
(* What the handlers of the trader write.                                  *)
(***************************************************************************)

LEMMA CommandKinds ==
  ASSUME SentInv, NEW k \in 1 .. Len(inbox)
  PROVE  /\ inbox[k].type \in {"OrderInput", "OrderAction", "BlockMessage", "BatchOrderBegin", "BatchOrderEnd"}
         /\ inbox[k].type = "OrderInput" => inbox[k] \in InputRecs /\ inbox[k] \in Sent
         /\ inbox[k].type = "OrderAction" => inbox[k].id \in Ids
  <1>1. inbox \in Seq(Commands) BY DEF SentInv
  <1>2. inbox[k] \in Commands /\ k \in DOMAIN inbox BY <1>1
  <1>3. inbox[k].type = "OrderInput" => inbox[k] \in Sent BY <1>2 DEF Sent
  <1>4. CASE inbox[k] \in InputRecs BY <1>3, <1>4 DEF InputRecs
  <1>5. CASE inbox[k] \in [type : {"OrderAction"}, id : Ids] BY <1>3, <1>5
  <1>6. CASE inbox[k] \in [type : {"BlockMessage", "BatchOrderBegin", "BatchOrderEnd"}] BY <1>3, <1>6
  <1> QED BY <1>2, <1>4, <1>5, <1>6 DEF Commands

LEMMA SentSet ==
  ASSUME SentInv
  PROVE  InputSet(Sent)
  <1>1. inbox \in Seq(Commands) BY DEF SentInv
  <1>2. DOMAIN inbox = 1 .. Len(inbox) BY <1>1
  <1>3. ASSUME NEW x \in Sent PROVE \E k \in 1 .. Len(inbox) : x = inbox[k] /\ inbox[k].type = "OrderInput"
    BY <1>2 DEF Sent
  <1>4. Sent \subseteq InputRecs
    <2> SUFFICES ASSUME NEW x \in Sent PROVE x \in InputRecs OBVIOUS
    <2>1. PICK k \in 1 .. Len(inbox) : x = inbox[k] /\ inbox[k].type = "OrderInput" BY <1>3
    <2> QED BY <2>1, CommandKinds
  <1>5. ASSUME NEW x \in Sent, NEW y \in Sent, x.id = y.id PROVE x = y
    <2>1. PICK k \in 1 .. Len(inbox) : x = inbox[k] /\ inbox[k].type = "OrderInput" BY <1>3
    <2>2. PICK j \in 1 .. Len(inbox) : y = inbox[j] /\ inbox[j].type = "OrderInput" BY <1>3
    <2>3. k = j BY <2>1, <2>2, <1>5 DEF SentInv
    <2> QED BY <2>1, <2>2, <2>3
  <1> QED BY <1>4, <1>5 DEF InputSet

\* the frames of W may be added to the journal, all or the first of them
Fits(W) ==
  /\ W \in Seq(Reports)
  /\ LogInv(outbox \o W, Sent) /\ AddsUp(outbox \o W, Sent, torn) /\ Longer(outbox, outbox \o W)
  /\ Len(W) <= 1 \/ \A k \in 1 .. Len(W) : Silent(outbox, W[k].id)

\* W are the blocks of B
Written(W, B, in) ==
  /\ W \in Seq(Reports) /\ Blocks(Sent, outbox, B, in)
  /\ After(Sent, torn, outbox, B, in, Len(in), outbox \o W)

LEMMA WrittenFits ==
  ASSUME outbox \in Seq(Reports), NEW W, NEW B, NEW in, Written(W, B, in)
  PROVE  Fits(W)
  <1> DEFINE M == outbox \o W
  <1>1. W \in Seq(Reports) BY DEF Written
  <1>2. /\ Len(outbox) \in Nat /\ Len(W) \in Nat /\ Len(M) = Len(outbox) + Len(W)
        /\ \A k \in 1 .. Len(W) : M[Len(outbox) + k] = W[k]
    <2>1. Joined(Reports, outbox, W, M) BY <1>1, ConcatAt
    <2> HIDE DEF M
    <2> QED BY <2>1, <1>1 DEF Joined
  <1>3. /\ LogInv(M, Sent) /\ AddsUp(M, Sent, torn) /\ Longer(outbox, M)
        /\ \A m \in 1 .. Len(M) : m \in 1 .. Len(outbox) \/ Silent(outbox, M[m].id)
    BY DEF Written, After
  <1> HIDE DEF M
  <1>4. ASSUME NEW k \in 1 .. Len(W) PROVE Silent(outbox, W[k].id)
    <2>1. Len(outbox) + k \in 1 .. Len(M) /\ Len(outbox) + k \notin 1 .. Len(outbox) BY <1>2
    <2>2. M[Len(outbox) + k] = W[k] BY <1>2
    <2> QED BY <2>1, <2>2, <1>3
  <1> QED BY <1>1, <1>3, <1>4 DEF Fits, M

LEMMA WrittenBlocks ==
  ASSUME SentInv, LogInv(outbox, Sent), AddsUp(outbox, Sent, torn), NEW W \in Seq(Reports), NEW B, NEW in,
         Blocks(Sent, outbox, B, in), NEW g, Steps(Reports, outbox, B, g), outbox \o W = g[Len(B)]
  PROVE  Written(W, B, in)
  <1>1. InputSet(Sent) BY SentSet
  <1>2. After(Sent, torn, outbox, B, in, Len(in), g[Len(B)]) BY <1>1, AllBlocks
  <1> QED BY <1>2 DEF Written

LEMMA WrittenOne ==
  ASSUME SentInv, LogInv(outbox, Sent), AddsUp(outbox, Sent, torn), NEW in \in Sent, NEW s, Block(s, in),
         Silent(outbox, in.id)
  PROVE  Written(s, <<s>>, <<in>>)
  <1> DEFINE B == <<s>>
             u == <<in>>
             g == [k \in 0 .. 1 |-> IF k = 0 THEN outbox ELSE outbox \o s]
  <1>1. s \in Seq(Reports) /\ outbox \in Seq(Reports) BY DEF Block, LogInv
  <1>2. u \in Seq(Sent) /\ B \in Seq(Seq(Reports)) /\ Len(u) = 1 /\ Len(B) = 1 /\ u[1] = in /\ B[1] = s BY <1>1
  <1>3. \A k \in 1 .. 1 : k = 1 OBVIOUS
  <1>4. outbox \o s \in Seq(Reports) BY <1>1
  <1>5. g \in [0 .. 1 -> Seq(Reports)] /\ g[0] = outbox /\ g[1] = outbox \o s BY <1>1, <1>4
  <1> HIDE DEF B, u, g
  <1>6. Blocks(Sent, outbox, B, u) BY <1>2, <1>3 DEF Blocks
  <1>7. g[1] = g[1 - 1] \o B[1]
    <2>1. 1 - 1 = 0 OBVIOUS
    <2> QED BY <2>1, <1>2, <1>5
  <1>8. Steps(Reports, outbox, B, g) BY <1>2, <1>3, <1>5, <1>7 DEF Steps
  <1>9. outbox \o s = g[Len(B)] BY <1>2, <1>5
  <1>10. Written(s, B, u) BY <1>1, <1>6, <1>8, <1>9, WrittenBlocks
  <1> QED BY <1>10 DEF B, u

\* an order that would trade with one of the account's own
LEMMA RiskBlock ==
  ASSUME NEW in \in InputRecs, NEW status \in {"Error", "Lost"}
  PROVE  Block(<<Order(in, status, in.volume, FALSE)>>, in)
  <1> DEFINE f == Order(in, status, in.volume, FALSE)
  <1>1. in.volume \in Nat BY DEF InputRecs
  <1>2. status \in Statuses /\ is_final_status(status) BY DEF Statuses, is_final_status
  <1>3. /\ f \in OrderType /\ f.id = in.id /\ f.side = in.side /\ f.price = in.price /\ f.volume = in.volume
        /\ f.status = status /\ f.left = in.volume
    BY <1>1, <1>2, SMTT(30) DEF Order, OrderType, InputRecs
  <1> HIDE DEF f
  <1>4. Opens(f, in) BY <1>2, <1>3 DEF Opens
  <1>5. Block(<<f>>, in) BY <1>1, <1>3, <1>4, OneFrame
  <1> QED BY <1>5 DEF f

LEMMA NextFrame ==
  ASSUME TraderInv, SentInv, HasFrame
  PROVE  tpos + 1 \in 1 .. Len(inbox) /\ tpos + 1 \in tpos + 1 .. Len(inbox) /\ linked
  <1>1. inbox \in Seq(Commands) BY DEF SentInv
  <1>2. tpos \in 0 .. Len(inbox) BY DEF TraderInv
  <1> QED BY <1>1, <1>2 DEF HasFrame

LEMMA AnswerInput ==
  ASSUME SentInv, LogInv(outbox, Sent), AddsUp(outbox, Sent, torn), TraderInv, HasFrame,
         NEW f, f = inbox[tpos + 1], f.type = "OrderInput", HasRisk(f) \/ ~batch
  PROVE  /\ Written(Answer(f), <<Answer(f)>>, <<f>>)
         /\ ~HasRisk(f) /\ Accepted(f) => Placed(f, Answer(f)[1])
  <1>1. tpos + 1 \in 1 .. Len(inbox) /\ Ahead(tpos + 1) /\ linked BY NextFrame DEF Ahead
  <1>2. f \in InputRecs /\ f \in Sent BY <1>1, CommandKinds
  <1>3. Silent(outbox, f.id) BY <1>1 DEF TraderInv, Waiting
  <1>4. mode \in MatchModes BY DEF TraderInv
  <1>5. CASE HasRisk(f)
    <2>1. Answer(f) = <<Order(f, "Error", f.volume, FALSE)>> BY <1>5 DEF Answer
    <2>2. Block(<<Order(f, "Error", f.volume, FALSE)>>, f) BY <1>2, RiskBlock
    <2>3. Block(Answer(f), f) BY <2>1, <2>2
    <2>4. Written(Answer(f), <<Answer(f)>>, <<f>>) BY <2>3, <1>2, <1>3, WrittenOne
    <2> QED BY <2>4, <1>5
  <1>6. CASE ~HasRisk(f)
    <2>1. Answer(f) = insert_order_(f) BY <1>6 DEF Answer
    <2>2. Block(insert_order_(f), f) /\ (Accepted(f) => insert_order_(f)[1] = Order(f, Status(f), Left(f), TRUE))
      BY <1>2, <1>4, InsertBlock
    <2>3. Block(Answer(f), f) BY <2>1, <2>2
    <2>4. Written(Answer(f), <<Answer(f)>>, <<f>>) BY <2>3, <1>2, <1>3, WrittenOne
    <2>5. Accepted(f) => Placed(f, Answer(f)[1]) BY <2>1, <2>2 DEF Placed, Accepted
    <2> QED BY <2>4, <2>5
  <1> QED BY <1>5, <1>6

InputBlocks == [k \in DOMAIN inputs |-> insert_order_(inputs[k])]

LEMMA AnswerBatch ==
  ASSUME SentInv, LogInv(outbox, Sent), AddsUp(outbox, Sent, torn), TraderInv,
         NEW f, f.type = "BatchOrderEnd"
  PROVE  /\ Written(Answer(f), InputBlocks, inputs)
         /\ \A k \in 1 .. Len(inputs) : Accepted(inputs[k]) => Placed(inputs[k], InputBlocks[k][1])
  <1> DEFINE B == InputBlocks
             n == Len(inputs)
  <1>1. InputSet(Sent) /\ mode \in MatchModes BY SentSet DEF TraderInv
  <1>2. inputs \in Seq(Sent) BY DEF TraderInv, Waiting
  <1>3. n \in Nat /\ DOMAIN inputs = 1 .. n /\ \A k \in 1 .. n : inputs[k] \in Sent BY <1>2
  <1>4. ASSUME NEW k \in 1 .. n
        PROVE  /\ B[k] = insert_order_(inputs[k]) /\ Block(B[k], inputs[k]) /\ B[k] \in Seq(Reports)
               /\ Accepted(inputs[k]) => Placed(inputs[k], B[k][1])
    <2>1. B[k] = insert_order_(inputs[k]) BY <1>3 DEF InputBlocks
    <2>2. inputs[k] \in InputRecs BY <1>1, <1>3 DEF InputSet
    <2>3. /\ Block(insert_order_(inputs[k]), inputs[k])
          /\ Accepted(inputs[k]) =>
               insert_order_(inputs[k])[1] = Order(inputs[k], Status(inputs[k]), Left(inputs[k]), TRUE)
      BY <2>2, <1>1, InsertBlock
    <2>4. B[k] \in Seq(Reports) BY <2>1, <2>3 DEF Block
    <2> QED BY <2>1, <2>3, <2>4 DEF Placed, Accepted
  <1>5. B \in Seq(Seq(Reports)) /\ Len(B) = n
    <2>1. B \in [1 .. n -> Seq(Reports)] BY <1>3, <1>4 DEF InputBlocks
    <2> HIDE DEF B
    <2> QED BY <2>1, <1>3
  <1>6. Blocks(Sent, outbox, B, inputs)
    <2>1. \A k \in 1 .. n : Block(B[k], inputs[k]) BY <1>4
    <2>2. \A k \in 1 .. n : Silent(outbox, inputs[k].id) BY DEF TraderInv, Waiting
    <2>3. \A j, k \in 1 .. n : inputs[j].id = inputs[k].id => j = k BY DEF TraderInv, Waiting
    <2> HIDE DEF B
    <2> QED BY <2>1, <2>2, <2>3, <1>2, <1>5 DEF Blocks
  <1>7. Answer(f) = FlattenSeq(B) BY DEF Answer, InputBlocks
  <1>8. outbox \in Seq(Reports) BY DEF LogInv
  <1> HIDE DEF B
  <1>9. FlattenSeq(B) \in Seq(Reports) BY <1>5, <1>8, FlattenOnto
  <1>10. PICK g : Steps(Reports, outbox, B, g) /\ outbox \o FlattenSeq(B) = g[Len(B)] BY <1>5, <1>8, FlattenOnto
  <1>11. Written(FlattenSeq(B), B, inputs) BY <1>6, <1>9, <1>10, WrittenBlocks
  <1> QED BY <1>4, <1>7, <1>11 DEF B

\* a cancelled order was open, and nothing else changes about it
LEMMA AnswerCancel ==
  ASSUME SentInv, LogInv(outbox, Sent), AddsUp(outbox, Sent, torn), TraderInv, NEW i, i \in DOMAIN orders, Lives,
         orders[i].left # 0
  PROVE  LET f == [orders[i] EXCEPT !.status =
                     IF orders[i].left = orders[i].volume THEN "Cancelled" ELSE "PartialFilledNotActive"]
         IN  /\ Fits(<<f>>)
             /\ \A j : j # i => NoNews(outbox, outbox \o <<f>>, j)
  <1> DEFINE o == orders[i]
             f == [o EXCEPT !.status = IF o.left = o.volume THEN "Cancelled" ELSE "PartialFilledNotActive"]
             u == <<f>>
             M == outbox \o u
             n == Len(outbox) + 1
  <1>1. /\ outbox \in Seq(Reports) /\ Matching(outbox, Sent) /\ Sound(outbox) /\ Ordered(outbox) /\ Ended(outbox)
        /\ Bounded(outbox, Sent) /\ InputSet(Sent)
    BY SentSet DEF LogInv
  <1>2. Says(outbox, i, o) BY DEF TraderInv, Entered
  <1>3. PICK in \in Sent : in.id = i /\ Placed(in, o) BY DEF TraderInv, Entered
  <1>4. in \in InputRecs /\ mode \in MatchModes BY <1>1 DEF TraderInv, InputSet
  <1>5. /\ Status(in) \in Statuses /\ Left(in) \in Nat
        /\ Left(in) # 0 => ~is_final_status(Status(in))
    BY <1>3, <1>4, StatusOf DEF Placed
  <1>6. /\ o \in OrderType /\ o.type = "Order" /\ o.id = i /\ o.status = Status(in) /\ o.left = Left(in)
        /\ o.side = in.side /\ o.price = in.price /\ o.volume = in.volume
    <2>1. o = Order(in, Status(in), Left(in), TRUE) BY <1>3 DEF Placed
    <2> HIDE DEF o
    <2> QED BY <2>1, <1>3, <1>4, <1>5, SMTT(30) DEF Order, OrderType, InputRecs
  <1>7. ~is_final_status(o.status) /\ o.status # "Error"
    <2>1. o.left # 0 OBVIOUS
    <2> HIDE DEF o
    <2> QED BY <2>1, <1>5, <1>6 DEF is_final_status
  <1>8. /\ f \in OrderType /\ f.type = "Order" /\ f.id = i /\ f.left = o.left /\ f.volume = o.volume
        /\ f.side = o.side /\ f.price = o.price /\ is_final_status(f.status) /\ f.status # "Error"
    <2> HIDE DEF o
    <2> QED BY <1>6 DEF OrderType, Statuses, is_final_status
  <1> HIDE DEF o, f
  <1>9. u \in Seq(Reports) /\ Len(u) = 1 /\ u[1] = f BY <1>8 DEF Reports
  <1> HIDE DEF u
  <1>10. /\ M \in Seq(Reports) /\ Len(M) = Len(outbox) + 1 /\ Len(outbox) \in Nat /\ n \in 1 .. Len(M) /\ M[n] = f
         /\ \A k \in 1 .. Len(outbox) : M[k] = outbox[k] /\ k \in 1 .. Len(M)
         /\ \A k \in 1 .. Len(M) : k \in 1 .. Len(outbox) \/ k = n
    <2>1. Joined(Reports, outbox, u, M) BY <1>1, <1>9, ConcatAt
    <2>2. Len(outbox) \in Nat BY <1>1
    <2>3. 1 \in 1 .. Len(u) BY <1>9
    <2> HIDE DEF M
    <2>4. M[Len(outbox) + 1] = u[1] BY <2>1, <2>3 DEF Joined
    <2>5. Len(M) = Len(outbox) + 1 /\ M \in Seq(Reports) BY <2>1, <1>9 DEF Joined
    <2>6. \A k \in 1 .. Len(outbox) : M[k] = outbox[k] BY <2>1 DEF Joined
    <2> QED BY <2>2, <2>4, <2>5, <2>6, <1>9
  <1>11. \A j : Total(Sold(M, j)) = Total(Sold(outbox, j))
    <2> TAKE j
    <2>1. \A k \in 1 .. Len(u) : ~(u[k].type = "Trade" /\ u[k].id = j)
      <3>1. \A k \in 1 .. Len(u) : u[k] = f BY <1>9
      <3> QED BY <3>1, <1>8
    <2>2. Total(Sold(u, j)) = 0 BY <2>1, <1>9, SoldNone
    <2>3. Total(Sold(M, j)) = Total(Sold(outbox, j)) + Total(Sold(u, j)) BY <1>1, <1>9, SoldConcat
    <2>4. Total(Sold(outbox, j)) \in Nat BY <1>1, SoldNat
    <2> QED BY <2>2, <2>3, <2>4
  <1> HIDE DEF M, n
  <1>12. PICK m \in 1 .. Len(outbox) : IsOrder(outbox, m, i) BY <1>2 DEF Says
  <1>13. \A k \in 1 .. Len(outbox) : IsOrder(outbox, k, i) => outbox[k] = o BY <1>2 DEF Says
  <1>14. outbox[m] = o BY <1>12, <1>13
  <1>15. Matching(M, Sent)
    <2> SUFFICES ASSUME NEW k \in 1 .. Len(M)
                 PROVE  \E x \in Sent : /\ M[k].id = x.id /\ M[k].side = x.side /\ M[k].price = x.price
                                        /\ M[k].type = "Order" => M[k].volume = x.volume
      BY DEF Matching
    <2>1. CASE k \in 1 .. Len(outbox) BY <2>1, <1>1, <1>10 DEF Matching
    <2>2. CASE k = n BY <2>2, <1>3, <1>6, <1>8, <1>10
    <2> QED BY <2>1, <2>2, <1>10
  <1>16. Sound(M)
    <2> SUFFICES ASSUME NEW k \in 1 .. Len(M), M[k].type = "Order"
                 PROVE  /\ M[k].external \/ is_final_status(M[k].status)
                        /\ is_final_status(M[k].status) \/ Lives
      BY DEF Sound
    <2>1. CASE k \in 1 .. Len(outbox) BY <2>1, <1>1, <1>10 DEF Sound
    <2>2. CASE k = n BY <2>2, <1>8, <1>10
    <2> QED BY <2>1, <2>2, <1>10
  <1>17. Ordered(M)
    <2> SUFFICES ASSUME NEW k \in 1 .. Len(M), M[k].type = "Trade"
                 PROVE  \E j \in 1 .. k - 1 : IsOrder(M, j, M[k].id)
      BY DEF Ordered
    <2>1. k \in 1 .. Len(outbox) /\ M[k] = outbox[k] BY <1>8, <1>10
    <2>2. PICK j \in 1 .. k - 1 : IsOrder(outbox, j, outbox[k].id) BY <2>1, <1>1 DEF Ordered
    <2>3. j \in 1 .. Len(outbox) BY <2>1, <1>10
    <2> QED BY <2>1, <2>2, <2>3, <1>10 DEF IsOrder
  <1>18. Ended(M)
    <2> SUFFICES ASSUME NEW j \in 1 .. Len(M), NEW k \in 1 .. Len(M),
                        M[j].type = "Order", M[k].type = "Order", M[j].id = M[k].id
                 PROVE  M[j].left = M[k].left /\ (j < k => ~is_final_status(M[j].status))
      BY DEF Ended
    <2>1. CASE j \in 1 .. Len(outbox) /\ k \in 1 .. Len(outbox) BY <2>1, <1>1, <1>10 DEF Ended
    <2>2. CASE j \in 1 .. Len(outbox) /\ k = n
      <3>1. IsOrder(outbox, j, i) BY <2>2, <1>8, <1>10 DEF IsOrder
      <3>2. M[j] = o BY <2>2, <3>1, <1>10, <1>13
      <3> QED BY <2>2, <3>2, <1>7, <1>8, <1>10
    <2>3. CASE j = n /\ k \in 1 .. Len(outbox)
      <3>1. IsOrder(outbox, k, i) BY <2>3, <1>8, <1>10 DEF IsOrder
      <3>2. M[k] = o BY <2>3, <3>1, <1>10, <1>13
      <3>3. ~(j < k) BY <2>3, <1>10 DEF n
      <3> QED BY <2>3, <3>2, <3>3, <1>8, <1>10
    <2>4. CASE j = n /\ k = n
      <3>1. ~(j < k) BY <2>4, <1>10
      <3> QED BY <2>4, <3>1
    <2> QED BY <2>1, <2>2, <2>3, <2>4, <1>10
  <1>19. Bounded(M, Sent)
    <2> SUFFICES ASSUME NEW x \in Sent, NEW k \in 1 .. Len(M), IsOrder(M, k, x.id)
                 PROVE  Total(Sold(M, x.id)) + M[k].left <= x.volume
      BY DEF Bounded
    <2>1. CASE k \in 1 .. Len(outbox)
      <3>1. M[k] = outbox[k] /\ IsOrder(outbox, k, x.id) BY <2>1, <1>10 DEF IsOrder
      <3>2. Total(Sold(outbox, x.id)) + outbox[k].left <= x.volume BY <2>1, <3>1, <1>1 DEF Bounded
      <3> QED BY <3>1, <3>2, <1>11
    <2>2. CASE k = n
      <3>1. x.id = i BY <2>2, <1>8, <1>10 DEF IsOrder
      <3>2. IsOrder(outbox, m, x.id) BY <3>1, <1>12
      <3>3. Total(Sold(outbox, x.id)) + outbox[m].left <= x.volume BY <3>2, <1>1, <1>12 DEF Bounded
      <3>4. M[k].left = outbox[m].left BY <2>2, <1>8, <1>10, <1>14
      <3> QED BY <3>3, <3>4, <1>11
    <2> QED BY <2>1, <2>2, <1>10
  <1>20. AddsUp(M, Sent, torn)
    <2> SUFFICES ASSUME NEW x \in Sent, NEW k \in 1 .. Len(M), IsOrder(M, k, x.id), x.id \notin torn,
                        ~RefusedAt(M[k], x)
                 PROVE  Total(Sold(M, x.id)) + M[k].left = x.volume
      BY DEF AddsUp
    <2>1. CASE k \in 1 .. Len(outbox)
      <3>1. M[k] = outbox[k] /\ IsOrder(outbox, k, x.id) BY <2>1, <1>10 DEF IsOrder
      <3>2. Total(Sold(outbox, x.id)) + outbox[k].left = x.volume BY <2>1, <3>1 DEF AddsUp
      <3> QED BY <3>1, <3>2, <1>11
    <2>2. CASE k = n
      <3>1. x.id = i BY <2>2, <1>8, <1>10 DEF IsOrder
      <3>2. IsOrder(outbox, m, x.id) /\ ~RefusedAt(outbox[m], x) BY <3>1, <1>7, <1>12, <1>14 DEF RefusedAt
      <3>3. Total(Sold(outbox, x.id)) + outbox[m].left = x.volume BY <3>2, <1>12 DEF AddsUp
      <3>4. M[k].left = outbox[m].left BY <2>2, <1>8, <1>10, <1>14
      <3> QED BY <3>3, <3>4, <1>11
    <2> QED BY <2>1, <2>2, <1>10
  <1>21. Longer(outbox, M)
    <2>1. Len(outbox) <= Len(M) BY <1>10
    <2> QED BY <2>1, <1>1, <1>10 DEF Longer
  <1>22. LogInv(M, Sent) BY <1>10, <1>15, <1>16, <1>17, <1>18, <1>19 DEF LogInv
  <1>23. Len(u) <= 1 BY <1>9
  <1>24. Fits(u) BY <1>9, <1>20, <1>21, <1>22, <1>23 DEF Fits, M
  <1>25. ASSUME NEW j, j # i PROVE NoNews(outbox, M, j)
    <2>1. ASSUME NEW k \in 1 .. Len(M), IsOrder(M, k, j) PROVE k \in 1 .. Len(outbox)
      <3>1. k # n BY <2>1, <1>8, <1>10, <1>25 DEF IsOrder
      <3> QED BY <3>1, <1>10
    <2> QED BY <2>1 DEF NoNews
  <1> QED BY <1>24, <1>25 DEF M, u, f, o

----------------------------------------------------------------------------
(***************************************************************************)
(* Trader::recover                                                         *)
(***************************************************************************)

LEMMA SilentIs ==
  ASSUME outbox \in Seq(Reports), NEW i
  PROVE  i \notin DOMAIN LatestOrders(outbox) <=> Silent(outbox, i)
  <1>1. i \in DOMAIN LatestOrders(outbox) <=> Reporting(outbox, i) # {} BY LatestIs
  <1>2. Reporting(outbox, i) = {} <=> Silent(outbox, i) BY DEF Reporting, Silent
  <1> QED BY <1>1, <1>2

LEMMA SetToSeqNone == SetToSeq({}) = <<>>
  <1>1. Cardinality({}) = 0 BY FS_EmptySet
  <1>2. <<>> \in [1 .. 0 -> {}] /\ IsInjective(<<>>) BY DEF IsInjective
  <1>3. \E f \in [1 .. 0 -> {}] : IsInjective(f) BY <1>2
  <1>4. SetToSeq({}) \in [1 .. 0 -> {}] BY <1>1, <1>3 DEF SetToSeq
  <1> QED BY <1>4

\* the order inputs among the first k commands that nothing was written for
UnansweredIn(k, s) ==
  /\ s \in Seq(Sent)
  /\ \A j \in 1 .. Len(s) : /\ Silent(outbox, s[j].id)
                            /\ \E m \in 1 .. k : inbox[m].type = "OrderInput" /\ s[j] = inbox[m]
  /\ \A j, l \in 1 .. Len(s) : s[j].id = s[l].id => j = l

LEMMA OneMore ==
  ASSUME SentInv, NEW k \in 1 .. Len(inbox), NEW s, UnansweredIn(k - 1, s), inbox[k].type = "OrderInput",
         Silent(outbox, inbox[k].id)
  PROVE  UnansweredIn(k, Append(s, inbox[k]))
  <1> DEFINE t == Append(s, inbox[k])
             n == Len(s)
             x == inbox[k]
  <1>1. /\ s \in Seq(Sent) /\ n \in Nat /\ x \in Sent
        /\ \A j \in 1 .. n : /\ Silent(outbox, s[j].id)
                             /\ \E m \in 1 .. k - 1 : inbox[m].type = "OrderInput" /\ s[j] = inbox[m]
        /\ \A j, l \in 1 .. n : s[j].id = s[l].id => j = l
    <2>1. s \in Seq(Sent) BY DEF UnansweredIn
    <2>2. n \in Nat BY <2>1
    <2>3. x \in Sent BY CommandKinds
    <2> QED BY <2>1, <2>2, <2>3 DEF UnansweredIn
  <1>2. t \in Seq(Sent) /\ Len(t) = n + 1 /\ t[n + 1] = x /\ \A j \in 1 .. n : t[j] = s[j] BY <1>1
  <1>3. Len(inbox) \in Nat /\ k \in Nat
    <2>1. inbox \in Seq(Commands) BY DEF SentInv
    <2> QED BY <2>1
  <1> HIDE DEF t, n
  <1>4. \A j \in 1 .. Len(t) : j \in 1 .. n \/ j = n + 1 BY <1>1, <1>2
  <1>5. ASSUME NEW j \in 1 .. n PROVE t[j].id # x.id
    <2>1. PICK m \in 1 .. k - 1 : inbox[m].type = "OrderInput" /\ s[j] = inbox[m] BY <1>1
    <2>2. m \in 1 .. Len(inbox) /\ m # k BY <1>3
    <2>3. inbox[m].id # inbox[k].id BY <2>1, <2>2 DEF SentInv
    <2> QED BY <2>1, <2>3, <1>2
  <1>6. ASSUME NEW j \in 1 .. Len(t)
        PROVE  /\ Silent(outbox, t[j].id)
               /\ \E m \in 1 .. k : inbox[m].type = "OrderInput" /\ t[j] = inbox[m]
    <2>1. CASE j \in 1 .. n
      <3>1. PICK m \in 1 .. k - 1 : inbox[m].type = "OrderInput" /\ s[j] = inbox[m] BY <2>1, <1>1
      <3>2. m \in 1 .. k BY <1>3
      <3> QED BY <2>1, <3>1, <3>2, <1>1, <1>2
    <2>2. CASE j = n + 1
      <3>1. k \in 1 .. k BY <1>3
      <3> QED BY <2>2, <3>1, <1>2
    <2> QED BY <2>1, <2>2, <1>4
  <1>7. ASSUME NEW j \in 1 .. Len(t), NEW l \in 1 .. Len(t), t[j].id = t[l].id PROVE j = l
    <2>1. CASE j \in 1 .. n /\ l \in 1 .. n BY <2>1, <1>1, <1>2, <1>7
    <2>2. CASE j = n + 1 /\ l \in 1 .. n BY <2>2, <1>2, <1>5, <1>7
    <2>3. CASE j \in 1 .. n /\ l = n + 1 BY <2>3, <1>2, <1>5, <1>7
    <2>4. CASE j = n + 1 /\ l = n + 1 BY <2>4
    <2> QED BY <2>1, <2>2, <2>3, <2>4, <1>4
  <1>8. UnansweredIn(k, t) BY <1>2, <1>6, <1>7 DEF UnansweredIn
  <1> QED BY <1>8 DEF t

LEMMA UnansweredIs ==
  ASSUME SentInv, LogInv(outbox, Sent)
  PROVE  UnansweredIn(Len(inbox), Unanswered)
  <1> DEFINE n == Len(inbox)
             due(k) == inbox[k].type = "OrderInput" /\ inbox[k].id \notin DOMAIN LatestOrders(outbox)
             P(f) == f = [k \in 0 .. n |-> IF k = 0 THEN <<>>
                                           ELSE IF inbox[k].type = "OrderInput" /\ inbox[k].id \notin DOMAIN LatestOrders(outbox)
                                                THEN Append(f[k - 1], inbox[k]) ELSE f[k - 1]]
             F == [k \in Nat |-> [x \in Seq(Sent) |-> IF k \in 1 .. n /\ due(k) THEN Append(x, inbox[k]) ELSE x]]
             f == CHOOSE f : P(f)
  <1>1. outbox \in Seq(Reports) /\ inbox \in Seq(Commands) BY DEF LogInv, SentInv
  <1>2. n \in Nat BY <1>1
  <1>3. Unanswered = f[n] BY DEF Unanswered
  <1>4. \A k \in 1 .. n : inbox[k].type = "OrderInput" => inbox[k] \in Sent BY CommandKinds
  <1>5. \A k \in 1 .. n : due(k) <=> inbox[k].type = "OrderInput" /\ Silent(outbox, inbox[k].id) BY <1>1, SilentIs
  <1>6. F \in [Nat -> [Seq(Sent) -> Seq(Sent)]]
    <2>1. ASSUME NEW k \in Nat, NEW x \in Seq(Sent)
          PROVE  (IF k \in 1 .. n /\ due(k) THEN Append(x, inbox[k]) ELSE x) \in Seq(Sent)
      <3>1. CASE k \in 1 .. n /\ due(k)
        <4>1. inbox[k] \in Sent BY <3>1, <1>4
        <4>2. Append(x, inbox[k]) \in Seq(Sent) BY <4>1
        <4> QED BY <3>1, <4>2
      <3>2. CASE ~(k \in 1 .. n /\ due(k)) BY <3>2
      <3> QED BY <3>1, <3>2
    <2> HIDE DEF due
    <2> QED BY <2>1
  <1>7. \A k \in Nat : \A x \in Seq(Sent) : F[k][x] = IF k \in 1 .. n /\ due(k) THEN Append(x, inbox[k]) ELSE x
    OBVIOUS
  <1>8. <<>> \in Seq(Sent) /\ 0 \in Nat OBVIOUS
  <1> HIDE DEF F, f
  <1>9. PICK g \in [0 .. n -> Seq(Sent)] : \A k \in 0 .. n : g[k] = IF k = 0 THEN <<>> ELSE F[k][g[k - 1]]
    <2>1. Recursive(Seq(Sent), <<>>, 0, n, F) BY <1>2, <1>6, <1>8, Recursion, Zenon
    <2> QED BY <2>1 DEF Recursive
  <1>10. ASSUME NEW k \in 0 .. n, k # 0
         PROVE  g[k] = IF due(k) THEN Append(g[k - 1], inbox[k]) ELSE g[k - 1]
    <2>1. k \in 1 .. n /\ k - 1 \in 0 .. n /\ k \in Nat BY <1>2, <1>10
    <2>2. g[k - 1] \in Seq(Sent) BY <2>1, <1>9
    <2>3. g[k] = F[k][g[k - 1]] BY <1>9, <1>10
    <2>4. F[k][g[k - 1]] = IF k \in 1 .. n /\ due(k) THEN Append(g[k - 1], inbox[k]) ELSE g[k - 1] BY <2>1, <2>2, <1>7
    <2> HIDE DEF due
    <2> QED BY <2>1, <2>3, <2>4
  <1>11. P(g)
    <2>1. g[0] = <<>> BY <1>2, <1>9
    <2> QED BY <2>1, <1>9, <1>10
  <1>12. P(f)
    <2> HIDE DEF P
    <2> QED BY <1>11 DEF f
  <1>13. f[0] = <<>> /\ \A k \in 1 .. n : f[k] = IF due(k) THEN Append(f[k - 1], inbox[k]) ELSE f[k - 1]
    <2>1. \A k \in 0 .. n : f[k] = IF k = 0 THEN <<>>
                                   ELSE IF inbox[k].type = "OrderInput" /\ inbox[k].id \notin DOMAIN LatestOrders(outbox)
                                        THEN Append(f[k - 1], inbox[k]) ELSE f[k - 1]
      BY <1>12
    <2>2. f[0] = <<>> BY <2>1, <1>2
    <2>3. ASSUME NEW k \in 1 .. n PROVE f[k] = IF due(k) THEN Append(f[k - 1], inbox[k]) ELSE f[k - 1]
      <3>1. k \in 0 .. n /\ k # 0 BY <1>2
      <3> QED BY <3>1, <2>1
    <2> QED BY <2>2, <2>3
  <1> HIDE DEF P
  <1> DEFINE T == {k \in 0 .. n : UnansweredIn(k, f[k])}
  <1>14. 0 \in T
    <2>1. UnansweredIn(0, <<>>)
      <3>1. \A j \in 1 .. Len(<<>>) : FALSE OBVIOUS
      <3> QED BY <3>1, <1>8 DEF UnansweredIn
    <2> QED BY <2>1, <1>2, <1>13
  <1>15. ASSUME NEW k \in 1 .. n, k - 1 \in T PROVE k \in T
    <2>1. UnansweredIn(k - 1, f[k - 1]) /\ k \in 0 .. n /\ k \in Nat BY <1>2, <1>15
    <2>2. CASE due(k)
      <3>1. f[k] = Append(f[k - 1], inbox[k]) BY <2>2, <1>13
      <3>2. inbox[k].type = "OrderInput" /\ Silent(outbox, inbox[k].id) BY <2>2, <1>5
      <3> DEFINE s == f[k - 1]
      <3>3. UnansweredIn(k - 1, s) BY <2>1
      <3> HIDE DEF s
      <3>4. UnansweredIn(k, Append(s, inbox[k])) BY <3>2, <3>3, OneMore
      <3> QED BY <2>1, <3>1, <3>4 DEF s
    <2>3. CASE ~due(k)
      <3>1. f[k] = f[k - 1] BY <2>3, <1>13
      <3>2. \A m \in 1 .. k - 1 : m \in 1 .. k BY <2>1
      <3>3. UnansweredIn(k, f[k - 1]) BY <2>1, <3>2 DEF UnansweredIn
      <3> QED BY <2>1, <3>1, <3>3
    <2> QED BY <2>2, <2>3
  <1>16. \A k \in 0 .. n : k \in T
    <2> HIDE DEF T, n, due
    <2> QED BY <1>2, <1>14, <1>15, StepByStep
  <1>17. n \in T BY <1>2, <1>16
  <1> QED BY <1>3, <1>17

\* no order is found without its external id, so recover() finds them as they were reported
LEMMA FoundIs ==
  ASSUME LogInv(outbox, Sent)
  PROVE  /\ \A i \in DOMAIN Found : ~IsLost(LatestOrders(outbox)[i]) /\ Found[i] \in OrderType
         /\ RecoverFrames =
              <<>> \o [k \in DOMAIN Unanswered |-> Order(Unanswered[k], "Lost", Unanswered[k].volume, FALSE)]
         /\ DOMAIN Found = DOMAIN LatestOrders(outbox)
  <1> DEFINE O == LatestOrders(outbox)
  <1>1. outbox \in Seq(Reports) /\ Sound(outbox) BY DEF LogInv
  <1>2. Found = [i \in DOMAIN O |-> IF IsLost(O[i]) THEN [O[i] EXCEPT !.status = "Lost"] ELSE O[i]] BY DEF Found
  <1>3. ASSUME NEW i \in DOMAIN O PROVE ~IsLost(O[i]) /\ O[i] \in OrderType
    <2>1. PICK m \in Reporting(outbox, i) : O[i] = outbox[m] BY <1>1, LatestIs
    <2>2. m \in 1 .. Len(outbox) /\ outbox[m].type = "Order" BY DEF Reporting, IsOrder
    <2>3. outbox[m] \in Reports BY <2>2, <1>1
    <2>4. outbox[m] \in OrderType BY <2>2, <2>3, ReportKinds
    <2>5. outbox[m].external \/ is_final_status(outbox[m].status) BY <2>2, <1>1 DEF Sound
    <2> HIDE DEF O
    <2> QED BY <2>1, <2>4, <2>5 DEF IsLost
  <1> HIDE DEF O
  <1>4. DOMAIN Found = DOMAIN O /\ \A i \in DOMAIN O : Found[i] = O[i] BY <1>2, <1>3
  <1>5. {i \in DOMAIN Found : IsLost(O[i])} = {} BY <1>3, <1>4
  <1> DEFINE U == [k \in DOMAIN Unanswered |-> Order(Unanswered[k], "Lost", Unanswered[k].volume, FALSE)]
             E == {i \in DOMAIN Found : IsLost(O[i])}
  <1>6. RecoverFrames = SetToSeq({Found[i] : i \in E}) \o U BY DEF RecoverFrames, O
  <1> HIDE DEF U
  <1>7. {Found[i] : i \in E} = {} BY <1>5
  <1>8. RecoverFrames = <<>> \o U BY <1>6, <1>7, SetToSeqNone
  <1> QED BY <1>3, <1>4, <1>8 DEF O, U

LEMMA RecoverWritten ==
  ASSUME SentInv, LogInv(outbox, Sent), AddsUp(outbox, Sent, torn)
  PROVE  Written(RecoverFrames, [k \in 1 .. Len(RecoverFrames) |-> <<RecoverFrames[k]>>], Unanswered)
  <1> DEFINE a == Unanswered
             n == Len(Unanswered)
             U == [k \in DOMAIN Unanswered |-> Order(Unanswered[k], "Lost", Unanswered[k].volume, FALSE)]
             B == [k \in 1 .. Len(U) |-> <<U[k]>>]
  <1>1. UnansweredIn(Len(inbox), a) /\ InputSet(Sent) /\ outbox \in Seq(Reports) BY UnansweredIs, SentSet DEF LogInv
  <1>2. a \in Seq(Sent) BY <1>1 DEF UnansweredIn
  <1>3. n \in Nat /\ DOMAIN a = 1 .. n /\ \A k \in 1 .. n : a[k] \in Sent BY <1>2
  <1>4. ASSUME NEW k \in 1 .. n PROVE U[k] \in Reports /\ Block(<<U[k]>>, a[k])
    <2>1. U[k] = Order(a[k], "Lost", a[k].volume, FALSE) BY <1>3
    <2>2. a[k] \in InputRecs BY <1>1, <1>3 DEF InputSet
    <2>3. Block(<<Order(a[k], "Lost", a[k].volume, FALSE)>>, a[k]) BY <2>2, RiskBlock
    <2> HIDE DEF U
    <2>4. Block(<<U[k]>>, a[k]) BY <2>1, <2>3
    <2>5. <<U[k]>>[1] \in OrderType BY <2>4 DEF Block, Opens
    <2> QED BY <2>4, <2>5 DEF Reports
  <1>5. U \in Seq(Reports) /\ Len(U) = n
    <2>1. U \in [1 .. n -> Reports] BY <1>3, <1>4
    <2> HIDE DEF U
    <2> QED BY <2>1, <1>3
  <1>6. RecoverFrames = U
    <2>1. RecoverFrames = <<>> \o U BY FoundIs
    <2> HIDE DEF U
    <2> QED BY <2>1, <1>5
  <1> HIDE DEF U
  <1>7. /\ B \in Seq(Seq(Reports)) /\ Len(B) = Len(U)
        /\ \E g : Steps(Reports, outbox, B, g) /\ outbox \o U = g[Len(B)]
    BY <1>1, <1>5, AddOneByOne
  <1>8. Blocks(Sent, outbox, B, a)
    <2>1. \A k \in 1 .. n : Block(B[k], a[k]) BY <1>4, <1>5
    <2>2. \A k \in 1 .. n : Silent(outbox, a[k].id) BY <1>1 DEF UnansweredIn
    <2>3. \A j, k \in 1 .. n : a[j].id = a[k].id => j = k BY <1>1 DEF UnansweredIn
    <2>4. B \in Seq(Seq(Reports)) /\ Len(B) = Len(a) BY <1>5, <1>7
    <2> HIDE DEF B, a
    <2> QED BY <2>1, <2>2, <2>3, <2>4, <1>2 DEF Blocks, a
  <1> HIDE DEF B
  <1>9. PICK g : Steps(Reports, outbox, B, g) /\ outbox \o U = g[Len(B)] BY <1>7
  <1>10. Written(U, B, a) BY <1>5, <1>8, <1>9, WrittenBlocks
  <1> QED BY <1>6, <1>10 DEF B

----------------------------------------------------------------------------
(***************************************************************************)
(* A crash cuts off what was being written.                                *)
(***************************************************************************)

CutIds(W, n) == {W[k].id : k \in {k \in 1 .. n : \E j \in n + 1 .. Len(W) : W[j].id = W[k].id}}

LEMMA CutGood ==
  ASSUME SentInv, outbox \in Seq(Reports), AddsUp(outbox, Sent, torn), NEW W, Fits(W),
         NEW n \in 0 .. Max({0, Len(W) - 1})
  PROVE  LET M == outbox \o SubSeq(W, 1, n)
         IN  /\ LogInv(M, Sent) /\ AddsUp(M, Sent, torn \cup CutIds(W, n)) /\ Longer(outbox, M)
             /\ CutIds(W, n) \subseteq Ids
  <1> DEFINE P == SubSeq(W, 1, n)
             R == SubSeq(W, n + 1, Len(W))
             M == outbox \o P
             N == outbox \o W
  <1>1. /\ W \in Seq(Reports) /\ LogInv(N, Sent) /\ AddsUp(N, Sent, torn)
        /\ Len(W) <= 1 \/ \A k \in 1 .. Len(W) : Silent(outbox, W[k].id)
    BY DEF Fits
  <1>2. Len(W) \in Nat /\ InputSet(Sent) BY <1>1, SentSet
  <1>3. n \in Nat /\ n <= Len(W) /\ (Len(W) <= 1 => n = 0)
    <2>1. Max({0, Len(W) - 1}) = IF 0 >= Len(W) - 1 THEN 0 ELSE Len(W) - 1 BY <1>2, MaxOfTwo
    <2> QED BY <2>1, <1>2
  <1>4. /\ P \in Seq(Reports) /\ Len(P) = n /\ \A k \in 1 .. n : P[k] = W[k]
        /\ R \in Seq(Reports) /\ Len(R) = Len(W) - n /\ \A k \in 1 .. Len(R) : R[k] = W[n + k]
    BY <1>1, <1>2, <1>3
  <1> HIDE DEF P, R
  <1>5. W = P \o R
    <2>1. Joined(Reports, P, R, P \o R) BY <1>4, ConcatAt
    <2>2. ASSUME NEW k \in 1 .. Len(W) PROVE (P \o R)[k] = W[k]
      <3>1. CASE k <= n
        <4>1. k \in 1 .. Len(P) BY <3>1, <1>2, <1>3, <1>4
        <4> QED BY <4>1, <2>1, <1>4 DEF Joined
      <3>2. CASE k > n
        <4>1. k - n \in 1 .. Len(R) /\ Len(P) + (k - n) = k BY <3>2, <1>2, <1>3, <1>4
        <4>2. (P \o R)[Len(P) + (k - n)] = R[k - n] BY <4>1, <2>1 DEF Joined
        <4>3. R[k - n] = W[n + (k - n)] BY <4>1, <1>4
        <4>4. n + (k - n) = k BY <1>3
        <4> QED BY <4>1, <4>2, <4>3, <4>4
      <3>3. k <= n \/ k > n BY <1>2, <1>3
      <3> QED BY <3>1, <3>2, <3>3
    <2>3. P \o R \in Seq(Reports) /\ Len(P \o R) = Len(W) BY <2>1, <1>2, <1>3, <1>4 DEF Joined
    <2> QED BY <2>2, <2>3, <1>1, SameSeq
  <1>6. N = M \o R
    <2>1. Associates(outbox, P, R) BY <1>4, ConcatAssoc
    <2> QED BY <2>1, <1>5 DEF Associates
  <1>7. M \in Seq(Reports) /\ Joined(Reports, outbox, P, M) /\ Joined(Reports, M, R, N)
    <2>1. Joined(Reports, outbox, P, M) BY <1>4, ConcatAt
    <2> HIDE DEF M
    <2>2. M \in Seq(Reports) BY <2>1 DEF Joined
    <2>3. Joined(Reports, M, R, M \o R) BY <2>2, <1>4, ConcatAt
    <2> QED BY <2>1, <2>2, <2>3, <1>6
  <1> HIDE DEF M, N
  <1>8. LogInv(M, Sent)
    <2>1. LogInv(M \o R, Sent) BY <1>1, <1>6
    <2> QED BY <2>1, <1>2, <1>4, <1>7, PrefixInv
  <1>9. /\ Len(outbox) \in Nat /\ Len(M) = Len(outbox) + n /\ Len(M) \in Nat /\ Len(N) = Len(M) + Len(R) /\ Len(R) \in Nat
        /\ \A k \in 1 .. Len(outbox) : M[k] = outbox[k]
        /\ \A k \in 1 .. n : M[Len(outbox) + k] = P[k]
        /\ \A k \in 1 .. Len(M) : N[k] = M[k] /\ k \in 1 .. Len(N)
    <2>1. Len(outbox) \in Nat /\ Len(M) \in Nat /\ Len(R) \in Nat BY <1>4, <1>7
    <2>2. Len(M) = Len(outbox) + n /\ Len(N) = Len(M) + Len(R) BY <1>4, <1>7 DEF Joined
    <2>3. \A k \in 1 .. Len(M) : N[k] = M[k] BY <1>7 DEF Joined
    <2>4. \A k \in 1 .. Len(outbox) : M[k] = outbox[k] BY <1>7 DEF Joined
    <2>5. \A k \in 1 .. n : M[Len(outbox) + k] = P[k] BY <1>4, <1>7 DEF Joined
    <2> QED BY <2>1, <2>2, <2>3, <2>4, <2>5
  <1>10. Longer(outbox, M)
    <2>1. Len(outbox) <= Len(M) BY <1>3, <1>9
    <2> QED BY <2>1, <1>7, <1>9 DEF Longer
  <1>11. AddsUp(M, Sent, torn \cup CutIds(W, n))
    <2> SUFFICES ASSUME NEW x \in Sent, NEW k \in 1 .. Len(M), IsOrder(M, k, x.id), x.id \notin torn,
                        x.id \notin CutIds(W, n), ~RefusedAt(M[k], x)
                 PROVE  Total(Sold(M, x.id)) + M[k].left = x.volume
      BY DEF AddsUp
    <2>1. N[k] = M[k] /\ k \in 1 .. Len(N) /\ IsOrder(N, k, x.id) BY <1>9 DEF IsOrder
    <2>2. Total(Sold(N, x.id)) + N[k].left = x.volume BY <2>1, <1>1 DEF AddsUp
    <2>3. Total(Sold(N, x.id)) = Total(Sold(M, x.id)) + Total(Sold(R, x.id)) BY <1>4, <1>6, <1>7, SoldConcat
    <2>4. CASE \A j \in 1 .. Len(R) : R[j].id # x.id
      <3>1. Total(Sold(R, x.id)) = 0 BY <2>4, <1>4, RelNone
      <3>2. Total(Sold(M, x.id)) \in Nat BY <1>7, SoldNat
      <3>3. Total(Sold(N, x.id)) = Total(Sold(M, x.id)) BY <2>3, <3>1, <3>2
      <3> QED BY <2>1, <2>2, <3>3
    <2>5. CASE n = 0
      <3>1. k \in 1 .. Len(outbox) /\ M[k] = outbox[k] BY <2>5, <1>9
      <3>2. IsOrder(outbox, k, x.id) BY <3>1 DEF IsOrder
      <3>3. Total(Sold(outbox, x.id)) + outbox[k].left = x.volume BY <3>1, <3>2 DEF AddsUp
      <3>4. M = outbox
        <4>1. Len(M) = Len(outbox) BY <2>5, <1>9
        <4>2. \A i \in 1 .. Len(M) : M[i] = outbox[i] BY <4>1, <1>9
        <4> QED BY <4>1, <4>2, <1>7, SameSeq
      <3> QED BY <3>1, <3>3, <3>4
    <2>6. CASE n # 0 /\ \E j \in 1 .. Len(R) : R[j].id = x.id
      <3>1. PICK j \in 1 .. Len(R) : R[j].id = x.id BY <2>6
      <3>2. n + j \in n + 1 .. Len(W) /\ W[n + j].id = x.id /\ n + j \in 1 .. Len(W) BY <3>1, <1>2, <1>3, <1>4
      <3>3. Silent(outbox, x.id)
        <4>1. ~(Len(W) <= 1) BY <2>6, <1>3
        <4>2. Silent(outbox, W[n + j].id) BY <4>1, <3>2, <1>1
        <4> QED BY <4>2, <3>2
      <3>4. k \notin 1 .. Len(outbox)
        <4>1. ASSUME k \in 1 .. Len(outbox) PROVE FALSE
          <5>1. IsOrder(outbox, k, x.id) BY <4>1, <1>9 DEF IsOrder
          <5> QED BY <4>1, <5>1, <3>3 DEF Silent
        <4> QED BY <4>1
      <3> DEFINE l == k - Len(outbox)
      <3>5. l \in 1 .. n /\ k = Len(outbox) + l BY <3>4, <1>3, <1>9
      <3> HIDE DEF l
      <3>6. M[k] = W[l] BY <3>5, <1>4, <1>9
      <3>7. W[l].id = x.id BY <3>6 DEF IsOrder
      <3>8. W[l].id \in CutIds(W, n) BY <3>2, <3>5, <3>7 DEF CutIds
      <3> QED BY <3>7, <3>8
    <2> QED BY <2>4, <2>5, <2>6
  <1>12. CutIds(W, n) \subseteq Ids
    <2>1. ASSUME NEW k \in 1 .. n PROVE W[k].id \in Ids
      <3>1. k \in 1 .. Len(W) BY <1>2, <1>3
      <3>2. W[k] \in Reports BY <3>1, <1>1
      <3> QED BY <3>2, ReportKinds
    <2> QED BY <2>1 DEF CutIds
  <1> QED BY <1>8, <1>10, <1>11, <1>12 DEF M, P

----------------------------------------------------------------------------
(***************************************************************************)
(* The strategy's journal.                                                 *)
(***************************************************************************)

LEMMA SentSame ==
  ASSUME SentInv, inbox' = inbox
  PROVE  SentInv' /\ Sent' = Sent
  <1>1. Sent' = Sent BY DEF Sent
  <1> QED BY <1>1 DEF SentInv

\* what a step of the strategy adds to its journal
Sends(f) ==
  /\ inbox' \in Seq(Commands) /\ Len(inbox') = Len(inbox) + 1 /\ Len(inbox) \in Nat
  /\ inbox'[Len(inbox) + 1] = f
  /\ \A k \in 1 .. Len(inbox) : inbox'[k] = inbox[k] /\ k \in 1 .. Len(inbox')
  /\ \A k \in 1 .. Len(inbox') : k \in 1 .. Len(inbox) \/ k = Len(inbox) + 1
  /\ Sent' = IF f.type = "OrderInput" THEN Sent \cup {f} ELSE Sent

LEMMA Sending ==
  ASSUME SentInv, NEW f \in Commands, Write(f)
  PROVE  Sends(f)
  <1> DEFINE n == Len(inbox)
             new == Append(inbox, f)
  <1>1. inbox \in Seq(Commands) /\ inbox' = new BY DEF SentInv, Write
  <1>2. /\ new \in Seq(Commands) /\ n \in Nat /\ Len(new) = n + 1 /\ new[n + 1] = f
        /\ \A k \in 1 .. n : new[k] = inbox[k]
    BY <1>1
  <1> HIDE DEF new, n
  <1>3. \A k \in 1 .. n : k \in 1 .. Len(new) BY <1>2
  <1>4. \A k \in 1 .. Len(new) : k \in 1 .. n \/ k = n + 1 BY <1>2
  <1>5. DOMAIN inbox = 1 .. n /\ DOMAIN new = 1 .. Len(new) /\ n + 1 \in 1 .. Len(new) BY <1>1, <1>2 DEF n
  <1>6. {new[k] : k \in {k \in DOMAIN new : new[k].type = "OrderInput"}}
          = IF f.type = "OrderInput" THEN Sent \cup {f} ELSE Sent
    <2> DEFINE A == {new[k] : k \in {k \in DOMAIN new : new[k].type = "OrderInput"}}
    <2>1. ASSUME NEW x \in A PROVE x \in Sent \/ (x = f /\ f.type = "OrderInput")
      <3>1. PICK k \in 1 .. Len(new) : new[k].type = "OrderInput" /\ x = new[k] BY <1>5
      <3>2. CASE k = n + 1 BY <3>1, <3>2, <1>2
      <3>3. CASE k # n + 1
        <4>1. k \in 1 .. n /\ new[k] = inbox[k] BY <3>3, <1>2, <1>4
        <4> QED BY <4>1, <3>1, <1>5 DEF Sent
      <3> QED BY <3>2, <3>3
    <2>2. ASSUME NEW x \in Sent PROVE x \in A
      <3>1. PICK k \in 1 .. n : inbox[k].type = "OrderInput" /\ x = inbox[k] BY <1>5 DEF Sent
      <3>2. new[k] = inbox[k] /\ k \in DOMAIN new BY <1>2, <1>3, <1>5
      <3> QED BY <3>1, <3>2
    <2>3. f.type = "OrderInput" => f \in A BY <1>2, <1>5
    <2> HIDE DEF A
    <2>4. A = IF f.type = "OrderInput" THEN Sent \cup {f} ELSE Sent
      <3>1. CASE f.type = "OrderInput" BY <3>1, <2>1, <2>2, <2>3
      <3>2. CASE f.type # "OrderInput" BY <3>2, <2>1, <2>2
      <3> QED BY <3>1, <3>2
    <2> QED BY <2>4 DEF A
  <1>7. Sent' = {new[k] : k \in {k \in DOMAIN new : new[k].type = "OrderInput"}} BY <1>1 DEF Sent
  <1> QED BY <1>1, <1>2, <1>3, <1>4, <1>6, <1>7 DEF Sends, n

LEMMA SentMark ==
  ASSUME SentInv, NEW f, Sends(f), f.type # "OrderInput"
  PROVE  SentInv' /\ Sent' = Sent
  <1>1. Sent' = Sent BY DEF Sends
  <1>2. ASSUME NEW j \in 1 .. Len(inbox'), NEW k \in 1 .. Len(inbox'),
               inbox'[j].type = "OrderInput", inbox'[k].type = "OrderInput", inbox'[j].id = inbox'[k].id
        PROVE  j = k
    <2>1. /\ j \in 1 .. Len(inbox) /\ inbox'[j] = inbox[j]
          /\ k \in 1 .. Len(inbox) /\ inbox'[k] = inbox[k]
      BY <1>2 DEF Sends
    <2> QED BY <2>1, <1>2 DEF SentInv
  <1>3. inbox' \in Seq(Commands) BY DEF Sends
  <1> QED BY <1>1, <1>2, <1>3 DEF SentInv

LEMMA SentOrder ==
  ASSUME SentInv, NEW f \in InputRecs, Sends(f), f.id = Cardinality(Sent) + 1, Cardinality(Sent) < MaxOrders
  PROVE  /\ SentInv' /\ Sent' = Sent \cup {f} /\ f \notin Sent
         /\ Cardinality(Sent') = Cardinality(Sent) + 1 /\ Cardinality(Sent) \in Nat
         /\ \A x \in Sent : x.id \in 1 .. Cardinality(Sent)
  <1> DEFINE c == Cardinality(Sent)
  <1>1. f.type = "OrderInput" BY DEF InputRecs
  <1>2. Sent' = Sent \cup {f} BY <1>1 DEF Sends
  <1>3. IsFiniteSet(Sent) /\ {x.id : x \in Sent} = 1 .. c /\ MaxOrders \in Nat BY TradingAssumption DEF SentInv
  <1>4. c \in Nat BY <1>3, FS_CardinalityType
  <1>5. \A x \in Sent : x.id \in 1 .. c
    <2> HIDE DEF c
    <2> QED BY <1>3
  <1>6. f \notin Sent
    <2> HIDE DEF c
    <2>1. f.id = c + 1 BY DEF c
    <2> QED BY <2>1, <1>4, <1>5
  <1>7. IsFiniteSet(Sent') /\ Cardinality(Sent') = c + 1 BY <1>2, <1>3, <1>6, FS_AddElement
  <1>8. {x.id : x \in Sent'} = 1 .. c + 1
    <2>1. {x.id : x \in Sent'} = {x.id : x \in Sent} \cup {f.id} BY <1>2
    <2> HIDE DEF c
    <2>2. f.id = c + 1 BY DEF c
    <2>3. (1 .. c) \cup {c + 1} = 1 .. c + 1 BY <1>4
    <2> QED BY <2>1, <2>2, <2>3, <1>3
  <1>9. ASSUME NEW j \in 1 .. Len(inbox'), NEW k \in 1 .. Len(inbox'),
               inbox'[j].type = "OrderInput", inbox'[k].type = "OrderInput", inbox'[j].id = inbox'[k].id
        PROVE  j = k
    <2> DEFINE n == Len(inbox)
    <2>1. /\ inbox'[n + 1] = f
          /\ \A i \in 1 .. n : inbox'[i] = inbox[i]
          /\ \A i \in 1 .. Len(inbox') : i \in 1 .. n \/ i = n + 1
      BY DEF Sends
    <2>2. ASSUME NEW i \in 1 .. n, inbox[i].type = "OrderInput" PROVE inbox[i].id # f.id
      <3>1. inbox[i] \in Sent BY <2>2, CommandKinds
      <3>2. inbox[i].id \in 1 .. c BY <3>1, <1>5
      <3>3. f.id = c + 1 OBVIOUS
      <3> HIDE DEF c
      <3> QED BY <3>2, <3>3, <1>4
    <2> HIDE DEF n
    <2>3. CASE j \in 1 .. n /\ k \in 1 .. n BY <2>1, <2>3, <1>9 DEF SentInv, n
    <2>4. CASE j \in 1 .. n /\ k = n + 1 BY <2>1, <2>2, <2>4, <1>9
    <2>5. CASE j = n + 1 /\ k \in 1 .. n BY <2>1, <2>2, <2>5, <1>9
    <2>6. CASE j = n + 1 /\ k = n + 1 BY <2>6
    <2> QED BY <2>1, <2>3, <2>4, <2>5, <2>6
  <1>10. inbox' \in Seq(Commands) BY DEF Sends
  <1>11. c + 1 <= MaxOrders BY <1>3, <1>4
  <1>12. SentInv'
    <2> HIDE DEF c
    <2> QED BY <1>7, <1>8, <1>9, <1>10, <1>11 DEF SentInv
  <1> QED BY <1>2, <1>4, <1>5, <1>6, <1>7, <1>12

LEMMA LogMore ==
  ASSUME NEW S, NEW f, NEW L, NEW X, LogInv(L, S), AddsUp(L, S, X), f.id \notin {x.id : x \in S}
  PROVE  LogInv(L, S \cup {f}) /\ AddsUp(L, S \cup {f}, X) /\ Silent(L, f.id) /\ \A k \in 1 .. Len(L) : L[k].id # f.id
  <1> DEFINE T == S \cup {f}
  <1>1. /\ L \in Seq(Reports) /\ Matching(L, S) /\ Sound(L) /\ Ordered(L) /\ Ended(L) /\ Bounded(L, S)
    BY DEF LogInv
  <1>2. \A k \in 1 .. Len(L) : L[k].id # f.id BY <1>1 DEF Matching
  <1>3. Silent(L, f.id) BY <1>2 DEF Silent, IsOrder
  <1>4. \A x \in T : x \in S \/ x = f OBVIOUS
  <1>5. S \subseteq T OBVIOUS
  <1> HIDE DEF T
  <1>6. Matching(L, T) BY <1>1, <1>5 DEF Matching
  <1>7. Bounded(L, T) BY <1>1, <1>3, <1>4 DEF Bounded, Silent
  <1>8. AddsUp(L, T, X) BY <1>3, <1>4 DEF AddsUp, Silent
  <1>9. LogInv(L, T) BY <1>1, <1>6, <1>7 DEF LogInv
  <1> QED BY <1>2, <1>3, <1>8, <1>9 DEF T

----------------------------------------------------------------------------
(***************************************************************************)
(* The trader: each action keeps its invariant.                            *)
(***************************************************************************)

LEMMA PlacedKept ==
  ASSUME mode' = mode, NEW x, NEW o
  PROVE  Placed(x, o)' <=> Placed(x, o)
  BY DEF Placed, Order, Status, Left, volume_traded, TooSmall

LEMMA LivesKept ==
  ASSUME mode' = mode
  PROVE  Lives' <=> Lives
  BY DEF Lives

\* the journals of the strategy and the trader, and what the trader keeps
Kept == UNCHANGED <<outbox, td, memory, ready, lost, history>>

LEMMA SendTrader ==
  ASSUME TraderInv, SentInv, LogInv(outbox, Sent), NEW f, Sends(f), Kept, Sent \subseteq Sent',
         f.type = "OrderInput" => ready = "yes" /\ Silent(outbox, f.id) /\ \A x \in Sent : x.id # f.id,
         f.type = "OrderAction" => Lives
  PROVE  TraderInv'
  <1>1. /\ outbox' = outbox /\ td' = td /\ mode' = mode /\ linked' = linked /\ tpos' = tpos /\ recovered' = recovered
        /\ orders' = orders /\ batch' = batch /\ inputs' = inputs /\ blocked' = blocked /\ ready' = ready
        /\ lost' = lost /\ torn' = torn /\ missed' = missed
    BY DEF Kept, memory, history
  <1>2. /\ Len(inbox') = Len(inbox) + 1 /\ Len(inbox) \in Nat
        /\ inbox'[Len(inbox) + 1] = f
        /\ \A k \in 1 .. Len(inbox) : inbox'[k] = inbox[k] /\ k \in 1 .. Len(inbox')
        /\ \A k \in 1 .. Len(inbox') : k \in 1 .. Len(inbox) \/ k = Len(inbox) + 1
    BY DEF Sends
  <1>3. tpos' \in 0 .. Len(inbox') BY <1>1, <1>2 DEF TraderInv
  <1>4. Lifecycle' BY <1>1 DEF TraderInv, Lifecycle
  <1>5. Entered'
    <2> SUFFICES ASSUME NEW i \in DOMAIN orders
                 PROVE  Says(outbox, i, orders[i]) /\ \E x \in Sent' : x.id = i /\ Placed(x, orders[i])'
      BY <1>1 DEF Entered
    <2>1. PICK x \in Sent : x.id = i /\ Placed(x, orders[i]) BY DEF TraderInv, Entered
    <2>2. Says(outbox, i, orders[i]) BY DEF TraderInv, Entered
    <2> DEFINE o == orders[i]
    <2>3. Placed(x, o)' <=> Placed(x, o) BY <1>1, PlacedKept
    <2>4. Placed(x, orders[i])'
      <3>1. o' = o BY <1>1
      <3> QED BY <2>1, <1>1 DEF Placed, Order, Status, Left, volume_traded, TooSmall
    <2> QED BY <2>1, <2>2, <2>4
  <1>6. Waiting'
    <2> DEFINE n == Len(inbox)
    <2>1. ASSUME NEW k \in 1 .. Len(inbox'), Ahead(k)'
          PROVE  (k \in 1 .. n /\ Ahead(k) /\ inbox'[k] = inbox[k]) \/ (k = n + 1 /\ inbox'[k] = f /\ f.type = "OrderInput")
      <3>1. k \in tpos + 1 .. Len(inbox') /\ inbox'[k].type = "OrderInput" BY <2>1, <1>1 DEF Ahead
      <3>2. CASE k \in 1 .. n
        <4>1. k \in tpos + 1 .. n BY <3>1, <3>2, <1>2 DEF TraderInv
        <4> QED BY <3>1, <3>2, <4>1, <1>2 DEF Ahead
      <3>3. CASE k = n + 1 BY <3>1, <3>3, <1>2
      <3> QED BY <3>2, <3>3, <1>2
    <2>2. ASSUME linked', NEW k \in 1 .. Len(inbox'), Ahead(k)'
          PROVE  td' = "ready" /\ Silent(outbox, inbox'[k].id)
      <3>1. CASE k \in 1 .. n /\ Ahead(k) /\ inbox'[k] = inbox[k] BY <3>1, <2>2, <1>1 DEF TraderInv, Waiting
      <3>2. CASE k = n + 1 /\ inbox'[k] = f /\ f.type = "OrderInput"
        BY <3>2, <2>2, <1>1 DEF TraderInv, Lifecycle
      <3> QED BY <3>1, <3>2, <2>1, <2>2
    <2>3. inputs \in Seq(Sent) BY DEF TraderInv, Waiting
    <2>4. inputs' \in Seq(Sent')
      <3>1. \A S, T : S \subseteq T => \A s \in Seq(S) : s \in Seq(T) OBVIOUS
      <3> QED BY <3>1, <2>3, <1>1
    <2>5. ASSUME NEW j \in 1 .. Len(inputs), NEW k \in 1 .. Len(inbox'), Ahead(k)'
          PROVE  inbox'[k].id # inputs[j].id
      <3>1. CASE k \in 1 .. n /\ Ahead(k) /\ inbox'[k] = inbox[k] BY <3>1 DEF TraderInv, Waiting
      <3>2. CASE k = n + 1 /\ inbox'[k] = f /\ f.type = "OrderInput"
        <4>1. inputs[j] \in Sent BY <2>3
        <4> QED BY <3>2, <4>1
      <3> QED BY <3>1, <3>2, <2>1, <2>5
    <2>6. \A j \in 1 .. Len(inputs) : /\ Silent(outbox, inputs[j].id)
                                      /\ \A l \in 1 .. Len(inputs) : inputs[l].id = inputs[j].id => l = j
      BY DEF TraderInv, Waiting
    <2> HIDE DEF n
    <2> QED BY <2>2, <2>4, <2>5, <2>6, <1>1 DEF Waiting
  <1>7. Cancels'
    <2> SUFFICES ASSUME NEW k \in 1 .. Len(inbox'), inbox'[k].type = "OrderAction" PROVE Lives'
      BY DEF Cancels
    <2>1. CASE k \in 1 .. Len(inbox)
      <3>1. Lives BY <2>1, <1>2 DEF TraderInv, Cancels
      <3> QED BY <3>1, <1>1, LivesKept
    <2>2. CASE k = Len(inbox) + 1
      <3>1. Lives BY <2>2, <1>2
      <3> QED BY <3>1, <1>1, LivesKept
    <2> QED BY <2>1, <2>2, <1>2
  <1>8. \A i \in DOMAIN recovered : recovered[i] \in OrderType BY DEF TraderInv
  <1>9. \A i \in DOMAIN recovered' : recovered'[i] \in OrderType BY <1>1, <1>8
  <1> QED BY <1>1, <1>3, <1>4, <1>5, <1>6, <1>7, <1>9 DEF TraderInv

LEMMA SaysKept ==
  ASSUME NEW L, NEW M, NEW i, Longer(L, M), NoNews(L, M, i)
  PROVE  /\ Silent(L, i) => Silent(M, i)
         /\ \A f : Says(L, i, f) => Says(M, i, f)
  <1>1. /\ \A k \in 1 .. Len(L) : M[k] = L[k] /\ k \in 1 .. Len(M)
        /\ \A k \in 1 .. Len(M) : IsOrder(M, k, i) => k \in 1 .. Len(L)
    <2>1. L \in Seq(Reports) /\ M \in Seq(Reports) BY DEF Longer
    <2>2. Len(L) \in Nat /\ Len(M) \in Nat /\ Len(L) <= Len(M) BY <2>1 DEF Longer
    <2>3. \A k \in 1 .. Len(L) : k \in 1 .. Len(M) BY <2>2
    <2>4. \A k \in 1 .. Len(L) : M[k] = L[k] BY DEF Longer
    <2>5. \A k \in 1 .. Len(M) : IsOrder(M, k, i) => k \in 1 .. Len(L) BY DEF NoNews
    <2> QED BY <2>3, <2>4, <2>5
  <1>2. \A k \in 1 .. Len(M) : IsOrder(M, k, i) => k \in 1 .. Len(L) /\ IsOrder(L, k, i) BY <1>1 DEF IsOrder
  <1>3. \A k \in 1 .. Len(L) : IsOrder(L, k, i) => k \in 1 .. Len(M) /\ IsOrder(M, k, i) BY <1>1 DEF IsOrder
  <1> QED BY <1>1, <1>2, <1>3 DEF Silent, Says

LEMMA NothingNew ==
  ASSUME NEW L, L \in Seq(Reports)
  PROVE  Longer(L, L) /\ \A i : NoNews(L, L, i)
  <1>1. Len(L) \in Nat OBVIOUS
  <1> QED BY <1>1 DEF Longer, NoNews

LEMMA EnteredKept ==
  ASSUME Entered, mode' = mode, Sent' = Sent, Longer(outbox, outbox'),
         \A i \in DOMAIN orders' : i \in DOMAIN orders /\ orders'[i] = orders[i] /\ NoNews(outbox, outbox', i)
  PROVE  Entered'
  <1> SUFFICES ASSUME NEW i \in DOMAIN orders'
               PROVE  Says(outbox', i, orders'[i]) /\ \E x \in Sent : x.id = i /\ Placed(x, orders[i])'
    <2> QED BY DEF Entered
  <1>1. i \in DOMAIN orders /\ orders'[i] = orders[i] /\ NoNews(outbox, outbox', i) OBVIOUS
  <1>2. Says(outbox, i, orders[i]) BY <1>1 DEF Entered
  <1>3. PICK x \in Sent : x.id = i /\ Placed(x, orders[i]) BY <1>1 DEF Entered
  <1>4. Placed(x, orders[i])' BY <1>1, <1>3 DEF Placed, Order, Status, Left, volume_traded, TooSmall
  <1>5. Says(outbox', i, orders[i]) BY <1>1, <1>2, SaysKept
  <1> QED BY <1>1, <1>3, <1>4, <1>5

LEMMA LaterOn ==
  ASSUME NEW a \in Int, NEW b \in Int, NEW n \in Nat, a <= b, NEW k \in b + 1 .. n
  PROVE  k \in a + 1 .. n
  OBVIOUS

\* nothing is written and no command is handled
LEMMA QuietTrader ==
  ASSUME TraderInv, SentInv, outbox \in Seq(Reports), UNCHANGED <<inbox, outbox, mode, linked, recovered, orders, inputs>>,
         tpos' \in tpos .. Len(inbox), linked => td' = td, td' \in {"down", "boot", "ready"}, lost' \in BOOLEAN,
         ready' \in {"no", "due", "yes"}, torn' \subseteq Ids, missed' \subseteq Ids, Lifecycle'
  PROVE  TraderInv'
  <1>1. Sent' = Sent /\ SentInv' BY SentSame
  <1>2. tpos \in 0 .. Len(inbox) /\ tpos' \in 0 .. Len(inbox') BY DEF TraderInv
  <1>3. Entered'
    <2>1. \A i \in DOMAIN orders' : i \in DOMAIN orders /\ orders'[i] = orders[i] /\ NoNews(outbox, outbox', i)
      BY NothingNew
    <2>2. Longer(outbox, outbox') BY NothingNew
    <2> QED BY <1>1, <2>1, <2>2, EnteredKept DEF TraderInv
  <1>4. ASSUME NEW k \in 1 .. Len(inbox), Ahead(k)' PROVE Ahead(k)
    <2>1. k \in tpos' + 1 .. Len(inbox) /\ inbox[k].type = "OrderInput" BY <1>4 DEF Ahead
    <2>2. tpos' \in Int /\ tpos \in Int /\ tpos <= tpos' BY <1>2
    <2>3. Len(inbox) \in Nat
      <3>1. inbox \in Seq(Commands) BY DEF SentInv
      <3> QED BY <3>1
    <2>4. k \in tpos + 1 .. Len(inbox) BY <2>1, <2>2, <2>3, LaterOn
    <2> QED BY <2>1, <2>4 DEF Ahead
  <1>5. Waiting'
    <2>1. linked' => \A k \in 1 .. Len(inbox) : Ahead(k)' => td' = "ready" /\ Silent(outbox, inbox[k].id)
      BY <1>4 DEF TraderInv, Waiting
    <2>2. inputs' \in Seq(Sent') BY <1>1 DEF TraderInv, Waiting
    <2>3. \A j \in 1 .. Len(inputs) :
            /\ Silent(outbox, inputs[j].id)
            /\ \A k \in 1 .. Len(inbox) : Ahead(k)' => inbox[k].id # inputs[j].id
            /\ \A l \in 1 .. Len(inputs) : inputs[l].id = inputs[j].id => l = j
      BY <1>4 DEF TraderInv, Waiting
    <2> QED BY <2>1, <2>2, <2>3 DEF Waiting
  <1>6. Cancels' BY LivesKept DEF TraderInv, Cancels
  <1>7. /\ mode' \in MatchModes /\ linked' \in BOOLEAN
        /\ \A i \in DOMAIN recovered' : recovered'[i] \in OrderType
    BY DEF TraderInv
  <1> QED BY <1>2, <1>3, <1>5, <1>6, <1>7 DEF TraderInv

\* a trader that has just started, or has just gone
LEMMA EmptyTrader ==
  ASSUME TraderInv, SentInv, UNCHANGED <<inbox, mode>>, orders' = << >>, inputs' = << >>, tpos' \in 0 .. Len(inbox),
         linked' => \A k \in tpos' + 1 .. Len(inbox) : inbox[k].type # "OrderInput",
         td' \in {"down", "boot", "ready"}, lost' \in BOOLEAN, linked' \in BOOLEAN,
         ready' \in {"no", "due", "yes"}, torn' \subseteq Ids, missed' \subseteq Ids, Lifecycle',
         \A i \in DOMAIN recovered' : recovered'[i] \in OrderType
  PROVE  TraderInv'
  <1>2. Entered' BY DEF Entered
  <1>3. Waiting'
    <2>1. linked' => \A k \in 1 .. Len(inbox') : ~Ahead(k)' BY DEF Ahead
    <2>2. inputs' \in Seq(Sent') /\ \A j \in 1 .. Len(inputs') : FALSE OBVIOUS
    <2> QED BY <2>1, <2>2 DEF Waiting
  <1>4. Cancels' BY LivesKept DEF TraderInv, Cancels
  <1>5. mode' \in MatchModes BY DEF TraderInv
  <1> QED BY <1>2, <1>3, <1>4, <1>5 DEF TraderInv

LEMMA SeeReadyTrader ==
  ASSUME TradingInv, SeeReady
  PROVE  TraderInv'
  <1>1. /\ ready = "due" /\ ready' = "yes"
        /\ UNCHANGED <<inbox, outbox, mode, linked, recovered, orders, inputs, tpos, td, lost, torn, missed>>
    BY DEF SeeReady, wire, memory, history
  <1>2. TraderInv /\ SentInv /\ outbox \in Seq(Reports) BY DEF TradingInv, LogInv
  <1>3. Lifecycle' BY <1>1, <1>2 DEF TraderInv, Lifecycle
  <1>4. tpos' \in tpos .. Len(inbox) BY <1>1, <1>2 DEF TraderInv
  <1> QED BY <1>1, <1>2, <1>3, <1>4, QuietTrader DEF TraderInv

LEMMA SeeGoneTrader ==
  ASSUME TradingInv, SeeGone
  PROVE  TraderInv'
  <1>1. /\ lost /\ lost' = FALSE /\ ready' = "no"
        /\ UNCHANGED <<inbox, outbox, mode, linked, recovered, orders, inputs, tpos, td, torn, missed>>
    BY DEF SeeGone, wire, memory, history
  <1>2. TraderInv /\ SentInv /\ outbox \in Seq(Reports) BY DEF TradingInv, LogInv
  <1>3. Lifecycle' BY <1>1, <1>2 DEF TraderInv, Lifecycle
  <1>4. tpos' \in tpos .. Len(inbox) BY <1>1, <1>2 DEF TraderInv
  <1> QED BY <1>1, <1>2, <1>3, <1>4, QuietTrader DEF TraderInv

LEMMA ReadTrader ==
  ASSUME TradingInv, ReadFrame
  PROVE  TraderInv'
  <1>1. UNCHANGED <<inbox, outbox, mode, linked, recovered, orders, inputs, tpos, td, ready, lost, torn, missed>>
    BY DEF ReadFrame, wire, memory, history
  <1>2. TraderInv /\ SentInv /\ outbox \in Seq(Reports) BY DEF TradingInv, LogInv
  <1>3. Lifecycle' BY <1>1, <1>2 DEF TraderInv, Lifecycle
  <1>4. tpos' \in tpos .. Len(inbox) BY <1>1, <1>2 DEF TraderInv
  <1> QED BY <1>1, <1>2, <1>3, <1>4, QuietTrader DEF TraderInv

LEMMA BootTrader ==
  ASSUME TradingInv, Boot
  PROVE  TraderInv'
  <1>1. /\ td = "down" /\ td' = "boot"
        /\ UNCHANGED <<inbox, outbox, mode, linked, recovered, orders, inputs, tpos, ready, lost, torn, missed>>
    BY DEF Boot, wire, memory, history
  <1>2. TraderInv /\ SentInv /\ outbox \in Seq(Reports) BY DEF TradingInv, LogInv
  <1>3. Lifecycle' /\ ~linked BY <1>1, <1>2 DEF TraderInv, Lifecycle
  <1>4. tpos' \in tpos .. Len(inbox) BY <1>1, <1>2 DEF TraderInv
  <1> QED BY <1>1, <1>2, <1>3, <1>4, QuietTrader DEF TraderInv

LEMMA SkipTrader ==
  ASSUME TradingInv, SkipFrame
  PROVE  TraderInv'
  <1>1. /\ HasFrame /\ tpos' = tpos + 1
        /\ UNCHANGED <<inbox, outbox, mode, linked, recovered, orders, inputs, td, ready, lost, torn, missed>>
    BY DEF SkipFrame, wire, history
  <1>2. TraderInv /\ SentInv /\ outbox \in Seq(Reports) BY DEF TradingInv, LogInv
  <1>3. Lifecycle' BY <1>1, <1>2 DEF TraderInv, Lifecycle
  <1>4. tpos' \in tpos .. Len(inbox)
    <2>1. tpos + 1 \in 1 .. Len(inbox) /\ tpos \in 0 .. Len(inbox) BY <1>1, <1>2, NextFrame DEF TraderInv
    <2> QED BY <2>1, <1>1
  <1> QED BY <1>1, <1>2, <1>3, <1>4, QuietTrader DEF TraderInv

LEMMA LinkTrader ==
  ASSUME TradingInv, Link
  PROVE  TraderInv'
  <1>1. /\ td # "down" /\ ~linked /\ ~lost /\ linked' = TRUE /\ tpos' = Len(inbox)
        /\ ready' = IF td = "ready" THEN "due" ELSE "no"
        /\ missed' = IF td = "ready" THEN missed \cup {Unanswered[k].id : k \in DOMAIN Unanswered} ELSE missed
        /\ UNCHANGED <<inbox, outbox, mode, recovered, orders, inputs, td, lost, torn>>
    BY DEF Link, wire
  <1>2. TraderInv /\ SentInv /\ LogInv(outbox, Sent) BY DEF TradingInv
  <1>3. orders' = << >> /\ inputs' = << >> BY <1>1, <1>2 DEF TraderInv, Lifecycle
  <1>4. Lifecycle' BY <1>1, <1>2, <1>3 DEF TraderInv, Lifecycle
  <1>5. Len(inbox) \in Nat
    <2>1. inbox \in Seq(Commands) BY <1>2 DEF SentInv
    <2> QED BY <2>1
  <1>6. missed' \subseteq Ids
    <2>1. UnansweredIn(Len(inbox), Unanswered) BY <1>2, UnansweredIs
    <2>2. Unanswered \in Seq(Sent) BY <2>1 DEF UnansweredIn
    <2>3. ASSUME NEW k \in DOMAIN Unanswered PROVE Unanswered[k].id \in Ids
      <3>1. Unanswered[k] \in Sent /\ InputSet(Sent) BY <2>2, <1>2, SentSet
      <3> QED BY <3>1, InputType
    <2> QED BY <2>3, <1>1, <1>2 DEF TraderInv
  <1>7. tpos' \in 0 .. Len(inbox) /\ \A k \in tpos' + 1 .. Len(inbox) : FALSE BY <1>1, <1>5
  <1>8. td' \in {"down", "boot", "ready"} /\ ready' \in {"no", "due", "yes"} /\ lost' \in BOOLEAN /\ torn' \subseteq Ids
    BY <1>1, <1>2 DEF TraderInv
  <1>9. \A i \in DOMAIN recovered' : recovered'[i] \in OrderType BY <1>1, <1>2 DEF TraderInv
  <1> QED BY <1>1, <1>2, <1>3, <1>4, <1>6, <1>7, <1>8, <1>9, EmptyTrader

LEMMA StartTrader ==
  ASSUME TradingInv, Start
  PROVE  TraderInv'
  <1>1. /\ td = "boot" /\ td' = "ready" /\ recovered' = Found
        /\ ready' = IF linked THEN "due" ELSE ready
        /\ UNCHANGED <<inbox, mode, linked, tpos, orders, inputs, lost, torn, missed>>
    BY DEF Start, history
  <1>2. TraderInv /\ SentInv /\ LogInv(outbox, Sent) BY DEF TradingInv
  <1>3. orders' = << >> /\ inputs' = << >> BY <1>1, <1>2 DEF TraderInv, Lifecycle
  <1>4. Lifecycle' BY <1>1, <1>2, <1>3 DEF TraderInv, Lifecycle
  <1>5. Len(inbox) \in Nat
    <2>1. inbox \in Seq(Commands) BY <1>2 DEF SentInv
    <2> QED BY <2>1
  <1>6. \A i \in DOMAIN recovered' : recovered'[i] \in OrderType BY <1>1, <1>2, FoundIs
  <1>7. linked' => \A k \in tpos' + 1 .. Len(inbox) : inbox[k].type # "OrderInput"
    <2> SUFFICES ASSUME linked, NEW k \in tpos + 1 .. Len(inbox), inbox[k].type = "OrderInput" PROVE FALSE
      BY <1>1
    <2>1. k \in 1 .. Len(inbox) BY <1>2, <1>5 DEF TraderInv
    <2>2. Ahead(k) BY DEF Ahead
    <2> QED BY <2>1, <2>2, <1>1, <1>2 DEF TraderInv, Waiting
  <1>8. /\ td' \in {"down", "boot", "ready"} /\ ready' \in {"no", "due", "yes"} /\ lost' \in BOOLEAN
        /\ linked' \in BOOLEAN /\ torn' \subseteq Ids /\ missed' \subseteq Ids /\ tpos' \in 0 .. Len(inbox)
    BY <1>1, <1>2 DEF TraderInv
  <1> QED BY <1>1, <1>2, <1>3, <1>4, <1>6, <1>7, <1>8, EmptyTrader

LEMMA NothingFits ==
  ASSUME LogInv(outbox, Sent), AddsUp(outbox, Sent, torn)
  PROVE  Fits(<<>>) /\ outbox \o <<>> = outbox
  <1>1. outbox \in Seq(Reports) BY DEF LogInv
  <1>2. outbox \o <<>> = outbox BY <1>1
  <1>3. <<>> \in Seq(Reports) /\ Len(<<>>) <= 1 OBVIOUS
  <1> DEFINE M == outbox \o <<>>
  <1>4. M = outbox BY <1>2
  <1> HIDE DEF M
  <1>5. LogInv(M, Sent) /\ AddsUp(M, Sent, torn) /\ Longer(outbox, M) BY <1>1, <1>4, NothingNew
  <1> QED BY <1>2, <1>3, <1>5 DEF Fits, M

LEMMA WrittenNews ==
  ASSUME NEW W, NEW B, NEW in, Written(W, B, in)
  PROVE  /\ \A i : (\A j \in 1 .. Len(in) : in[j].id # i) => NoNews(outbox, outbox \o W, i)
         /\ \A j \in 1 .. Len(in) : Says(outbox \o W, in[j].id, B[j][1])
         /\ \A i, f : Says(outbox, i, f) => \A j \in 1 .. Len(in) : in[j].id # i
         /\ Longer(outbox, outbox \o W)
  <1> DEFINE M == outbox \o W
  <1>1. After(Sent, torn, outbox, B, in, Len(in), M) /\ Blocks(Sent, outbox, B, in) BY DEF Written
  <1> HIDE DEF M
  <1>2. \A i : (\A j \in 1 .. Len(in) : in[j].id # i) => NoNews(outbox, M, i) BY <1>1 DEF After
  <1>3. \A j \in 1 .. Len(in) : Says(M, in[j].id, B[j][1]) BY <1>1 DEF After
  <1>4. \A j \in 1 .. Len(in) : Silent(outbox, in[j].id) BY <1>1 DEF Blocks
  <1>5. \A i, f : Says(outbox, i, f) => ~Silent(outbox, i) BY DEF Says, Silent
  <1>6. Longer(outbox, M) BY <1>1 DEF After
  <1> QED BY <1>2, <1>3, <1>4, <1>5, <1>6 DEF M

LEMMA InsertedIs ==
  ASSUME NEW S, NEW i \in DOMAIN Inserted(S)
  PROVE  \/ \E x \in S : /\ x.id = i /\ Accepted(x)
                         /\ Inserted(S)[i] = Order(x, Status(x), Left(x), TRUE)
         \/ i \in DOMAIN orders /\ Inserted(S)[i] = orders[i]
  <1> DEFINE new == {Order(x, Status(x), Left(x), TRUE) : x \in {x \in S : Accepted(x)}}
  <1>1. Inserted(S) = [k \in DOMAIN orders \cup {o.id : o \in new} |->
                         IF \E o \in new : o.id = k THEN CHOOSE o \in new : o.id = k ELSE orders[k]]
    BY DEF Inserted
  <1>2. \A o \in new : \E x \in S : Accepted(x) /\ o = Order(x, Status(x), Left(x), TRUE) /\ o.id = x.id
    BY DEF Order
  <1> HIDE DEF new
  <1>3. i \in DOMAIN orders \cup {o.id : o \in new} BY <1>1
  <1>4. CASE \E o \in new : o.id = i
    <2> DEFINE o == CHOOSE o \in new : o.id = i
    <2>1. o \in new /\ o.id = i BY <1>4
    <2>2. Inserted(S)[i] = o BY <1>1, <1>3, <1>4
    <2> HIDE DEF o
    <2>3. PICK x \in S : Accepted(x) /\ o = Order(x, Status(x), Left(x), TRUE) /\ o.id = x.id BY <2>1, <1>2
    <2> QED BY <2>1, <2>2, <2>3
  <1>5. CASE ~\E o \in new : o.id = i
    <2>1. i \in DOMAIN orders BY <1>3, <1>5
    <2> QED BY <2>1, <1>1, <1>3, <1>5
  <1> QED BY <1>4, <1>5

\* the inputs of S are among in, and those that are accepted are reported by the first frames of B
Enters(B, in, S) ==
  /\ \A x \in S : \E j \in 1 .. Len(in) : x = in[j]
  /\ \A j \in 1 .. Len(in) : Accepted(in[j]) => Placed(in[j], B[j][1])

\* orders are entered in TraderSim::orders_ as they are reported
LEMMA InsertedEntered ==
  ASSUME TraderInv, NEW W, NEW B, NEW in, Written(W, B, in), outbox' = outbox \o W, mode' = mode, Sent' = Sent,
         NEW S, Enters(B, in, S), orders' = Inserted(S)
  PROVE  Entered'
  <1>1. in \in Seq(Sent) BY DEF Written, Blocks
  <1>2. \A j \in 1 .. Len(in) : in[j] \in Sent BY <1>1
  <1> SUFFICES ASSUME NEW i \in DOMAIN orders'
               PROVE  Says(outbox', i, orders'[i]) /\ \E x \in Sent : x.id = i /\ Placed(x, orders[i])'
    <2>1. Sent' = Sent OBVIOUS
    <2> HIDE DEF Written
    <2> QED BY <2>1, Zenon DEF Entered
  <1> DEFINE o == Inserted(S)[i]
  <1>3. orders'[i] = o /\ i \in DOMAIN Inserted(S) OBVIOUS
  <1>4. CASE \E x \in S : x.id = i /\ Accepted(x) /\ Inserted(S)[i] = Order(x, Status(x), Left(x), TRUE)
    <2>1. PICK j \in 1 .. Len(in) :
                 in[j].id = i /\ Accepted(in[j]) /\ o = Order(in[j], Status(in[j]), Left(in[j]), TRUE)
      BY <1>4 DEF Enters
    <2> HIDE DEF o
    <2>2. Placed(in[j], B[j][1]) BY <2>1 DEF Enters
    <2>3. o = B[j][1] BY <2>1, <2>2 DEF Placed
    <2>9. Says(outbox \o W, in[j].id, B[j][1]) BY <2>1, WrittenNews
    <2>4. Says(outbox', i, o) BY <2>1, <2>3, <2>9
    <2>5. Placed(in[j], orders[i])' BY <2>2, <2>3, <1>3 DEF Placed, Order, Status, Left, volume_traded, TooSmall
    <2> QED BY <2>1, <2>4, <2>5, <1>2, <1>3
  <1>5. CASE i \in DOMAIN orders /\ Inserted(S)[i] = orders[i]
    <2> HIDE DEF o
    <2>1. Says(outbox, i, orders[i]) BY <1>5 DEF TraderInv, Entered
    <2>2. PICK x \in Sent : x.id = i /\ Placed(x, orders[i]) BY <1>5 DEF TraderInv, Entered
    <2>3. \A j \in 1 .. Len(in) : in[j].id # i BY <2>1, WrittenNews
    <2>4. NoNews(outbox, outbox', i) /\ Longer(outbox, outbox') BY <2>3, WrittenNews
    <2>5. Says(outbox', i, orders[i]) BY <2>1, <2>4, SaysKept
    <2>6. orders'[i] = orders[i] BY <1>5
    <2>7. Placed(x, orders[i])' BY <2>2, <2>6 DEF Placed, Order, Status, Left, volume_traded, TooSmall
    <2> QED BY <2>2, <2>5, <2>6, <2>7
  <1> QED BY <1>3, <1>4, <1>5, InsertedIs

\* a handler has been given the next command
LEMMA HandledTrader ==
  ASSUME TraderInv, SentInv, HasFrame, td = "ready", tpos' = tpos + 1,
         UNCHANGED <<inbox, mode, linked, recovered, td, ready, lost, torn, missed>>, Entered',
         inputs' \in Seq(Sent),
         \A j \in 1 .. Len(inputs') :
            /\ Silent(outbox', inputs'[j].id)
            /\ \A k \in 1 .. Len(inbox) : Ahead(k) /\ k # tpos + 1 => inbox[k].id # inputs'[j].id
            /\ \A l \in 1 .. Len(inputs') : inputs'[l].id = inputs'[j].id => l = j,
         \A k \in 1 .. Len(inbox) : Ahead(k) /\ k # tpos + 1 => Silent(outbox', inbox[k].id)
  PROVE  TraderInv'
  <1>1. Sent' = Sent /\ SentInv' BY SentSame
  <1>2. tpos \in 0 .. Len(inbox) /\ tpos + 1 \in 1 .. Len(inbox) /\ linked BY NextFrame DEF TraderInv
  <1>3. Len(inbox) \in Nat
    <2>1. inbox \in Seq(Commands) BY DEF SentInv
    <2> QED BY <2>1
  <1>4. ASSUME NEW k \in 1 .. Len(inbox), Ahead(k)' PROVE Ahead(k) /\ k # tpos + 1
    <2> DEFINE b == tpos + 1
    <2>1. k \in b + 1 .. Len(inbox) /\ inbox[k].type = "OrderInput" BY <1>4 DEF Ahead
    <2>2. b \in Int /\ tpos \in Int /\ tpos <= b BY <1>2
    <2>3. b = tpos + 1 OBVIOUS
    <2> HIDE DEF b
    <2>4. k \in tpos + 1 .. Len(inbox) BY <2>1, <2>2, <1>3, LaterOn
    <2>5. k # b BY <2>1, <2>2, <1>3
    <2> QED BY <2>1, <2>3, <2>4, <2>5 DEF Ahead
  <1>5. Waiting'
    <2>1. linked' => \A k \in 1 .. Len(inbox) : Ahead(k)' => td' = "ready" /\ Silent(outbox', inbox[k].id)
      BY <1>4
    <2>2. inputs' \in Seq(Sent') BY <1>1
    <2>3. \A j \in 1 .. Len(inputs') :
            /\ Silent(outbox', inputs'[j].id)
            /\ \A k \in 1 .. Len(inbox) : Ahead(k)' => inbox[k].id # inputs'[j].id
            /\ \A l \in 1 .. Len(inputs') : inputs'[l].id = inputs'[j].id => l = j
      BY <1>4
    <2> QED BY <2>1, <2>2, <2>3 DEF Waiting
  <1>6. Cancels' BY LivesKept DEF TraderInv, Cancels
  <1>7. Lifecycle' BY <1>2 DEF TraderInv, Lifecycle
  <1>8. /\ mode' \in MatchModes /\ linked' \in BOOLEAN /\ lost' \in BOOLEAN /\ td' \in {"down", "boot", "ready"}
        /\ ready' \in {"no", "due", "yes"} /\ torn' \subseteq Ids /\ missed' \subseteq Ids
        /\ \A i \in DOMAIN recovered' : recovered'[i] \in OrderType
    BY DEF TraderInv
  <1>9. tpos' \in 0 .. Len(inbox') BY <1>2
  <1> QED BY <1>5, <1>6, <1>7, <1>8, <1>9 DEF TraderInv

\* what a handler changes, and what it does not
LEMMA Handling ==
  ASSUME TraderInv, SentInv, HandleFrame, NEW f, f = inbox[tpos + 1]
  PROVE  /\ HasFrame /\ td = "ready" /\ tpos' = tpos + 1 /\ outbox' = outbox \o Answer(f)
         /\ UNCHANGED <<inbox, mode, linked, recovered, td, ready, lost, torn, missed>>
         /\ tpos + 1 \in 1 .. Len(inbox) /\ linked /\ Sent' = Sent
         /\ \A k \in 1 .. Len(inbox) : Ahead(k) /\ k # tpos + 1 /\ f.type = "OrderInput" => inbox[k].id # f.id
         /\ \A k \in 1 .. Len(inbox) : Ahead(k) => Silent(outbox, inbox[k].id)
         /\ f.type = "OrderInput" => f \in Sent /\ f \in InputRecs /\ Ahead(tpos + 1)
         /\ f.type = "OrderAction" => Lives
  <1>1. /\ HasFrame /\ td = "ready" /\ tpos' = tpos + 1 /\ outbox' = outbox \o Answer(f)
        /\ UNCHANGED <<inbox, mode, linked, recovered, td, ready, lost, torn, missed>>
    BY DEF HandleFrame, history
  <1>2. tpos + 1 \in 1 .. Len(inbox) /\ tpos + 1 \in tpos + 1 .. Len(inbox) /\ linked BY <1>1, NextFrame
  <1>3. f.type = "OrderInput" => f \in Sent /\ f \in InputRecs /\ Ahead(tpos + 1) BY <1>2, CommandKinds DEF Ahead
  <1>4. \A k \in 1 .. Len(inbox) : Ahead(k) /\ k # tpos + 1 /\ f.type = "OrderInput" => inbox[k].id # f.id
    BY <1>2 DEF SentInv, Ahead
  <1>5. \A k \in 1 .. Len(inbox) : Ahead(k) => Silent(outbox, inbox[k].id) BY <1>2 DEF TraderInv, Waiting
  <1>6. f.type = "OrderAction" => Lives BY <1>2 DEF TraderInv, Cancels
  <1>7. Sent' = Sent BY <1>1, SentSame
  <1> QED BY <1>1, <1>2, <1>3, <1>4, <1>5, <1>6, <1>7

\* an order that is answered at once
LEMMA HandleInput ==
  ASSUME SentInv, LogInv(outbox, Sent), AddsUp(outbox, Sent, torn), TraderInv, HandleFrame,
         NEW f, f = inbox[tpos + 1], f.type = "OrderInput", HasRisk(f) \/ ~batch
  PROVE  TraderInv'
  <1> DEFINE W == Answer(f)
             B == <<Answer(f)>>
             in == <<f>>
  <1>1. /\ HasFrame /\ td = "ready" /\ tpos' = tpos + 1 /\ outbox' = outbox \o W
        /\ UNCHANGED <<inbox, mode, linked, recovered, td, ready, lost, torn, missed>>
        /\ Sent' = Sent /\ f \in Sent /\ Ahead(tpos + 1) /\ tpos + 1 \in 1 .. Len(inbox)
        /\ \A k \in 1 .. Len(inbox) : Ahead(k) /\ k # tpos + 1 => inbox[k].id # f.id
        /\ \A k \in 1 .. Len(inbox) : Ahead(k) => Silent(outbox, inbox[k].id)
    BY Handling
  <1>2. inputs' = inputs /\ orders' = IF HasRisk(f) THEN orders ELSE Inserted({f}) BY DEF HandleFrame
  <1>3. Written(W, B, in) /\ (~HasRisk(f) /\ Accepted(f) => Placed(f, B[1][1])) BY <1>1, AnswerInput
  <1>4. Len(in) = 1 /\ in[1] = f /\ \A j \in 1 .. Len(in) : j = 1 OBVIOUS
  <1> HIDE DEF W, B, in
  <1>5. /\ \A i : i # f.id => NoNews(outbox, outbox', i)
        /\ \A i, o : Says(outbox, i, o) => i # f.id
        /\ Longer(outbox, outbox')
    BY <1>1, <1>3, <1>4, WrittenNews
  <1>6. Entered'
    <2>1. CASE HasRisk(f)
      <3>1. \A i \in DOMAIN orders : Says(outbox, i, orders[i]) BY DEF TraderInv, Entered
      <3>2. \A i \in DOMAIN orders' : i \in DOMAIN orders /\ orders'[i] = orders[i] /\ NoNews(outbox, outbox', i)
        BY <2>1, <3>1, <1>2, <1>5
      <3> QED BY <3>2, <1>1, <1>5, EnteredKept DEF TraderInv
    <2>2. CASE ~HasRisk(f)
      <3>1. \A j \in 1 .. Len(in) : Accepted(in[j]) => Placed(in[j], B[j][1]) BY <2>2, <1>3, <1>4
      <3>2. \A x \in {f} : \E j \in 1 .. Len(in) : x = in[j] BY <1>4
      <3>3. orders' = Inserted({f}) BY <2>2, <1>2
      <3>4. mode' = mode /\ Sent' = Sent /\ outbox' = outbox \o W BY <1>1
      <3>5. Written(W, B, in) BY <1>3
      <3>6. Enters(B, in, {f}) BY <3>1, <3>2 DEF Enters
      <3> QED BY <3>3, <3>4, <3>5, <3>6, InsertedEntered
    <2> QED BY <2>1, <2>2
  <1>7. inputs' \in Seq(Sent) BY <1>2 DEF TraderInv, Waiting
  <1>8. ASSUME NEW j \in 1 .. Len(inputs')
        PROVE  /\ Silent(outbox', inputs'[j].id)
               /\ \A k \in 1 .. Len(inbox) : Ahead(k) /\ k # tpos + 1 => inbox[k].id # inputs'[j].id
               /\ \A l \in 1 .. Len(inputs') : inputs'[l].id = inputs'[j].id => l = j
    <2>1. /\ Silent(outbox, inputs[j].id)
          /\ \A k \in 1 .. Len(inbox) : Ahead(k) => inbox[k].id # inputs[j].id
          /\ \A l \in 1 .. Len(inputs) : inputs[l].id = inputs[j].id => l = j
      BY <1>2 DEF TraderInv, Waiting
    <2>2. inputs[j].id # f.id BY <2>1, <1>1
    <2>3. Silent(outbox', inputs[j].id) BY <2>1, <2>2, <1>5, SaysKept
    <2> QED BY <2>1, <2>3, <1>2
  <1>9. \A k \in 1 .. Len(inbox) : Ahead(k) /\ k # tpos + 1 => Silent(outbox', inbox[k].id)
    BY <1>1, <1>5, SaysKept
  <1> QED BY <1>1, <1>6, <1>7, <1>8, <1>9, HandledTrader

\* an order that waits for the end of its batch
LEMMA HandleQueued ==
  ASSUME SentInv, LogInv(outbox, Sent), AddsUp(outbox, Sent, torn), TraderInv, HandleFrame,
         NEW f, f = inbox[tpos + 1], f.type = "OrderInput", ~HasRisk(f), batch
  PROVE  TraderInv'
  <1>1. /\ HasFrame /\ td = "ready" /\ tpos' = tpos + 1 /\ outbox' = outbox \o Answer(f)
        /\ UNCHANGED <<inbox, mode, linked, recovered, td, ready, lost, torn, missed>>
        /\ Sent' = Sent /\ f \in Sent /\ Ahead(tpos + 1) /\ tpos + 1 \in 1 .. Len(inbox)
        /\ \A k \in 1 .. Len(inbox) : Ahead(k) /\ k # tpos + 1 => inbox[k].id # f.id
        /\ \A k \in 1 .. Len(inbox) : Ahead(k) => Silent(outbox, inbox[k].id)
    BY Handling
  <1>2. inputs' = Append(inputs, f) /\ orders' = orders BY DEF HandleFrame
  <1>3. Answer(f) = <<>> BY DEF Answer
  <1>4. outbox' = outbox /\ outbox \in Seq(Reports) BY <1>1, <1>3, NothingFits DEF LogInv
  <1>5. Longer(outbox, outbox) /\ \A i : NoNews(outbox, outbox, i) BY <1>4, NothingNew
  <1>6. Entered'
    <2>1. \A i \in DOMAIN orders' : i \in DOMAIN orders /\ orders'[i] = orders[i] /\ NoNews(outbox, outbox', i)
      BY <1>2, <1>4, <1>5
    <2> QED BY <2>1, <1>1, <1>4, <1>5, EnteredKept DEF TraderInv
  <1> DEFINE n == Len(inputs)
  <1>7. inputs \in Seq(Sent) BY DEF TraderInv, Waiting
  <1>8. /\ inputs' \in Seq(Sent) /\ inputs'[n + 1] = f /\ \A j \in 1 .. n : inputs'[j] = inputs[j]
        /\ \A j \in 1 .. Len(inputs') : j \in 1 .. n \/ j = n + 1
    BY <1>1, <1>2, <1>7
  <1>9. ASSUME NEW j \in 1 .. n
        PROVE  /\ Silent(outbox, inputs[j].id)
               /\ \A k \in 1 .. Len(inbox) : Ahead(k) => inbox[k].id # inputs[j].id
               /\ \A l \in 1 .. n : inputs[l].id = inputs[j].id => l = j
    BY DEF TraderInv, Waiting
  <1>10. \A j \in 1 .. n : inputs[j].id # f.id BY <1>1, <1>9
  <1> HIDE DEF n
  <1>11. ASSUME NEW j \in 1 .. Len(inputs')
         PROVE  /\ Silent(outbox', inputs'[j].id)
                /\ \A k \in 1 .. Len(inbox) : Ahead(k) /\ k # tpos + 1 => inbox[k].id # inputs'[j].id
                /\ \A l \in 1 .. Len(inputs') : inputs'[l].id = inputs'[j].id => l = j
    <2>1. CASE j \in 1 .. n
      <3>1. inputs'[j] = inputs[j] BY <2>1, <1>8
      <3>2. \A l \in 1 .. Len(inputs') : inputs'[l].id = inputs[j].id => l = j BY <2>1, <1>8, <1>9, <1>10
      <3> QED BY <2>1, <3>1, <3>2, <1>4, <1>9
    <2>2. CASE j = n + 1
      <3>1. inputs'[j] = f BY <2>2, <1>8
      <3>2. \A l \in 1 .. Len(inputs') : inputs'[l].id = f.id => l = j BY <2>2, <1>8, <1>10
      <3>3. Silent(outbox, f.id) BY <1>1
      <3> QED BY <3>1, <3>2, <3>3, <1>1, <1>4
    <2> QED BY <2>1, <2>2, <1>8
  <1>12. \A k \in 1 .. Len(inbox) : Ahead(k) /\ k # tpos + 1 => Silent(outbox', inbox[k].id) BY <1>1, <1>4
  <1> QED BY <1>1, <1>6, <1>8, <1>11, <1>12, HandledTrader

\* the end of a batch
LEMMA HandleBatch ==
  ASSUME SentInv, LogInv(outbox, Sent), AddsUp(outbox, Sent, torn), TraderInv, HandleFrame,
         NEW f, f = inbox[tpos + 1], f.type = "BatchOrderEnd"
  PROVE  TraderInv'
  <1> DEFINE W == Answer(f)
             B == InputBlocks
  <1>1. /\ HasFrame /\ td = "ready" /\ tpos' = tpos + 1 /\ outbox' = outbox \o W
        /\ UNCHANGED <<inbox, mode, linked, recovered, td, ready, lost, torn, missed>>
        /\ Sent' = Sent
        /\ \A k \in 1 .. Len(inbox) : Ahead(k) => Silent(outbox, inbox[k].id)
    BY Handling
  <1>2. inputs' = <<>> /\ orders' = Inserted(ToSet(inputs)) BY DEF HandleFrame
  <1>3. /\ Written(W, B, inputs)
        /\ \A k \in 1 .. Len(inputs) : Accepted(inputs[k]) => Placed(inputs[k], B[k][1])
    BY AnswerBatch
  <1> HIDE DEF W, B
  <1>4. inputs \in Seq(Sent) BY DEF TraderInv, Waiting
  <1>5. \A x \in ToSet(inputs) : \E j \in 1 .. Len(inputs) : x = inputs[j] BY <1>4 DEF ToSet
  <1>6. Enters(B, inputs, ToSet(inputs)) BY <1>3, <1>5 DEF Enters
  <1>7. Entered'
    <2>1. mode' = mode /\ Sent' = Sent /\ outbox' = outbox \o W BY <1>1
    <2>2. orders' = Inserted(ToSet(inputs)) /\ Written(W, B, inputs) BY <1>2, <1>3
    <2> QED BY <2>1, <2>2, <1>6, InsertedEntered
  <1>8. Longer(outbox, outbox') /\ \A i : (\A j \in 1 .. Len(inputs) : inputs[j].id # i) => NoNews(outbox, outbox', i)
    BY <1>1, <1>3, WrittenNews
  <1>9. ASSUME NEW k \in 1 .. Len(inbox), Ahead(k) PROVE Silent(outbox', inbox[k].id)
    <2>1. \A j \in 1 .. Len(inputs) : inputs[j].id # inbox[k].id BY <1>9 DEF TraderInv, Waiting
    <2>2. NoNews(outbox, outbox', inbox[k].id) BY <2>1, <1>8
    <2> QED BY <2>2, <1>1, <1>8, <1>9, SaysKept
  <1>10. inputs' \in Seq(Sent) /\ \A j \in 1 .. Len(inputs') : FALSE BY <1>2
  <1> QED BY <1>1, <1>7, <1>9, <1>10, HandledTrader

LEMMA CancelIs ==
  ASSUME SentInv, LogInv(outbox, Sent), AddsUp(outbox, Sent, torn), TraderInv, NEW i, Lives
  PROVE  /\ Fits(cancel_order(i))
         /\ \A j : j # i \/ Silent(outbox, j) => NoNews(outbox, outbox \o cancel_order(i), j)
  <1>1. CASE i \in DOMAIN orders /\ orders[i].left # 0
    <2> DEFINE g == [orders[i] EXCEPT !.status =
                       IF orders[i].left = orders[i].volume THEN "Cancelled" ELSE "PartialFilledNotActive"]
    <2>1. Fits(<<g>>) /\ \A j : j # i => NoNews(outbox, outbox \o <<g>>, j) BY <1>1, AnswerCancel
    <2>2. cancel_order(i) = <<g>> BY <1>1 DEF cancel_order
    <2> HIDE DEF g
    <2>3. ~Silent(outbox, i) BY <1>1 DEF TraderInv, Entered, Says, Silent
    <2> QED BY <2>1, <2>2, <2>3
  <1>2. CASE ~(i \in DOMAIN orders /\ orders[i].left # 0)
    <2>1. cancel_order(i) = <<>> BY <1>2 DEF cancel_order
    <2>2. Fits(<<>>) /\ outbox \o <<>> = outbox /\ outbox \in Seq(Reports) BY NothingFits DEF LogInv
    <2>3. \A j : NoNews(outbox, outbox, j) BY <2>2, NothingNew
    <2> QED BY <2>1, <2>2, <2>3
  <1> QED BY <1>1, <1>2

\* cancels and marks
LEMMA HandleRest ==
  ASSUME SentInv, LogInv(outbox, Sent), AddsUp(outbox, Sent, torn), TraderInv, HandleFrame,
         NEW f, f = inbox[tpos + 1], f.type \notin {"OrderInput", "BatchOrderEnd"}
  PROVE  TraderInv'
  <1>1. /\ HasFrame /\ td = "ready" /\ tpos' = tpos + 1 /\ outbox' = outbox \o Answer(f)
        /\ UNCHANGED <<inbox, mode, linked, recovered, td, ready, lost, torn, missed>>
        /\ Sent' = Sent /\ tpos + 1 \in 1 .. Len(inbox)
        /\ \A k \in 1 .. Len(inbox) : Ahead(k) => Silent(outbox, inbox[k].id)
    BY Handling
  <1>2. /\ inputs' = inputs
        /\ orders' = IF f.type = "OrderAction" THEN [i \in DOMAIN orders \ {f.id} |-> orders[i]] ELSE orders
    BY DEF HandleFrame
  <1>3. outbox \in Seq(Reports) BY DEF LogInv
  <1>4. /\ Longer(outbox, outbox')
        /\ \A j : Silent(outbox, j) \/ f.type # "OrderAction" \/ j # f.id => NoNews(outbox, outbox', j)
    <2>1. CASE f.type = "OrderAction"
      <3>1. Lives BY <2>1, Handling
      <3>2. Answer(f) = cancel_order(f.id) BY <2>1 DEF Answer
      <3>3. /\ Fits(cancel_order(f.id))
            /\ \A j : j # f.id \/ Silent(outbox, j) => NoNews(outbox, outbox \o cancel_order(f.id), j)
        BY <3>1, CancelIs
      <3>4. Longer(outbox, outbox \o cancel_order(f.id)) BY <3>3 DEF Fits
      <3> QED BY <2>1, <3>2, <3>3, <3>4, <1>1
    <2>2. CASE f.type # "OrderAction"
      <3>1. Answer(f) = <<>> BY <2>2 DEF Answer
      <3>2. outbox' = outbox BY <3>1, <1>1, <1>3, NothingFits
      <3> QED BY <3>2, <1>3, NothingNew
    <2> QED BY <2>1, <2>2
  <1>5. Entered'
    <2>1. ASSUME NEW i \in DOMAIN orders'
          PROVE  i \in DOMAIN orders /\ orders'[i] = orders[i] /\ NoNews(outbox, outbox', i)
      BY <2>1, <1>2, <1>4
    <2> QED BY <2>1, <1>1, <1>4, EnteredKept DEF TraderInv
  <1>6. inputs' \in Seq(Sent) BY <1>2 DEF TraderInv, Waiting
  <1>7. ASSUME NEW j \in 1 .. Len(inputs')
        PROVE  /\ Silent(outbox', inputs'[j].id)
               /\ \A k \in 1 .. Len(inbox) : Ahead(k) /\ k # tpos + 1 => inbox[k].id # inputs'[j].id
               /\ \A l \in 1 .. Len(inputs') : inputs'[l].id = inputs'[j].id => l = j
    <2>1. /\ Silent(outbox, inputs[j].id)
          /\ \A k \in 1 .. Len(inbox) : Ahead(k) => inbox[k].id # inputs[j].id
          /\ \A l \in 1 .. Len(inputs) : inputs[l].id = inputs[j].id => l = j
      BY <1>2 DEF TraderInv, Waiting
    <2>2. Silent(outbox', inputs[j].id) BY <2>1, <1>4, SaysKept
    <2> QED BY <2>1, <2>2, <1>2
  <1>8. \A k \in 1 .. Len(inbox) : Ahead(k) /\ k # tpos + 1 => Silent(outbox', inbox[k].id)
    BY <1>1, <1>4, SaysKept
  <1> QED BY <1>1, <1>5, <1>6, <1>7, <1>8, HandledTrader

LEMMA HandleTrader ==
  ASSUME TradingInv, HandleFrame
  PROVE  TraderInv'
  <1>1. SentInv /\ LogInv(outbox, Sent) /\ AddsUp(outbox, Sent, torn) /\ TraderInv BY DEF TradingInv
  <1> DEFINE f == inbox[tpos + 1]
  <1>2. f = inbox[tpos + 1] OBVIOUS
  <1> HIDE DEF f
  <1>3. CASE f.type = "OrderInput" /\ (HasRisk(f) \/ ~batch) BY <1>1, <1>2, <1>3, HandleInput
  <1>4. CASE f.type = "OrderInput" /\ ~HasRisk(f) /\ batch BY <1>1, <1>2, <1>4, HandleQueued
  <1>5. CASE f.type = "BatchOrderEnd" BY <1>1, <1>2, <1>5, HandleBatch
  <1>6. CASE f.type \notin {"OrderInput", "BatchOrderEnd"} BY <1>1, <1>2, <1>6, HandleRest
  <1> QED BY <1>3, <1>4, <1>5, <1>6

\* what a handler writes may be added to the journal
LEMMA AnswerFits ==
  ASSUME SentInv, LogInv(outbox, Sent), AddsUp(outbox, Sent, torn), TraderInv, HasFrame, td = "ready",
         NEW f, f = inbox[tpos + 1]
  PROVE  Fits(Answer(f))
  <1>1. outbox \in Seq(Reports) BY DEF LogInv
  <1>2. tpos + 1 \in 1 .. Len(inbox) BY NextFrame
  <1>3. CASE f.type = "OrderInput" /\ (HasRisk(f) \/ ~batch)
    <2>1. Written(Answer(f), <<Answer(f)>>, <<f>>) BY <1>3, AnswerInput
    <2> QED BY <2>1, <1>1, WrittenFits
  <1>4. CASE f.type = "BatchOrderEnd"
    <2>1. Written(Answer(f), InputBlocks, inputs) BY <1>4, AnswerBatch
    <2> QED BY <2>1, <1>1, WrittenFits
  <1>5. CASE f.type = "OrderAction"
    <2>1. Lives BY <1>2, <1>5 DEF TraderInv, Cancels
    <2>2. Answer(f) = cancel_order(f.id) BY <1>5 DEF Answer
    <2> QED BY <2>1, <2>2, CancelIs
  <1>6. CASE (f.type = "OrderInput" /\ ~HasRisk(f) /\ batch) \/ f.type \notin {"OrderInput", "BatchOrderEnd", "OrderAction"}
    <2>1. Answer(f) = <<>> BY <1>6 DEF Answer
    <2> QED BY <2>1, NothingFits
  <1> QED BY <1>3, <1>4, <1>5, <1>6

LEMMA WritingFits ==
  ASSUME SentInv, LogInv(outbox, Sent), AddsUp(outbox, Sent, torn), TraderInv
  PROVE  Fits(Writing)
  <1>1. CASE td = "ready" /\ HasFrame
    <2> DEFINE f == inbox[tpos + 1]
    <2>1. Writing = Answer(f) BY <1>1 DEF Writing
    <2>2. f = inbox[tpos + 1] OBVIOUS
    <2> HIDE DEF f
    <2>3. Fits(Answer(f)) BY <2>2, <1>1, AnswerFits
    <2> QED BY <2>1, <2>3
  <1>2. CASE ~(td = "ready" /\ HasFrame) /\ td = "boot" /\ linked
    <2>1. Writing = RecoverFrames BY <1>2 DEF Writing
    <2>2. Written(RecoverFrames, [k \in 1 .. Len(RecoverFrames) |-> <<RecoverFrames[k]>>], Unanswered) BY RecoverWritten
    <2>3. outbox \in Seq(Reports) BY DEF LogInv
    <2>4. Fits(RecoverFrames) BY <2>2, <2>3, WrittenFits
    <2> QED BY <2>1, <2>4
  <1>3. CASE ~(td = "ready" /\ HasFrame) /\ ~(td = "boot" /\ linked)
    <2>1. Writing = <<>> BY <1>3 DEF Writing
    <2> QED BY <2>1, NothingFits
  <1> QED BY <1>1, <1>2, <1>3

LEMMA CrashTrader ==
  ASSUME TradingInv, Crash
  PROVE  TraderInv'
  <1>1. SentInv /\ LogInv(outbox, Sent) /\ AddsUp(outbox, Sent, torn) /\ TraderInv BY DEF TradingInv
  <1>2. PICK n \in 0 .. Max({0, Len(Writing) - 1}) : torn' = torn \cup CutIds(Writing, n) BY DEF Crash, CutIds
  <1>3. Fits(Writing) /\ outbox \in Seq(Reports) BY <1>1, WritingFits DEF LogInv
  <1>4. CutIds(Writing, n) \subseteq Ids
    <2> DEFINE W == Writing
    <2>1. n \in 0 .. Max({0, Len(W) - 1}) /\ Fits(W) BY <1>2, <1>3
    <2> HIDE DEF W
    <2>2. CutIds(W, n) \subseteq Ids BY <2>1, <1>1, <1>3, CutGood
    <2> QED BY <2>2 DEF W
  <1>5. /\ inbox' = inbox /\ mode' = mode /\ orders' = << >> /\ inputs' = << >> /\ tpos' = 0 /\ linked' = FALSE
        /\ td' = "down" /\ lost' = TRUE /\ ready' = ready /\ missed' = missed /\ recovered' = << >>
    BY DEF Crash, NoOrders
  <1>6. Lifecycle' BY <1>5 DEF Lifecycle
  <1>7. Len(inbox) \in Nat
    <2>1. inbox \in Seq(Commands) BY <1>1 DEF SentInv
    <2> QED BY <2>1
  <1>8. /\ tpos' \in 0 .. Len(inbox) /\ td' \in {"down", "boot", "ready"} /\ lost' \in BOOLEAN /\ linked' \in BOOLEAN
        /\ ready' \in {"no", "due", "yes"} /\ torn' \subseteq Ids /\ missed' \subseteq Ids
        /\ \A i \in DOMAIN recovered' : recovered'[i] \in OrderType
    <2>1. torn \subseteq Ids /\ missed \subseteq Ids /\ ready \in {"no", "due", "yes"} BY <1>1 DEF TraderInv
    <2>2. torn' \subseteq Ids BY <2>1, <1>2, <1>4
    <2>3. 0 \in 0 .. Len(inbox) BY <1>7
    <2>4. \A i \in DOMAIN recovered' : recovered'[i] \in OrderType
      <3>1. recovered' = << >> BY <1>5
      <3> QED BY <3>1
    <2>5. tpos' \in 0 .. Len(inbox) BY <2>3, <1>5
    <2>6. missed' \subseteq Ids /\ ready' \in {"no", "due", "yes"} BY <2>1, <1>5
    <2>7. td' \in {"down", "boot", "ready"} /\ lost' \in BOOLEAN /\ linked' \in BOOLEAN BY <1>5
    <2> QED BY <2>2, <2>4, <2>5, <2>6, <2>7
  <1> QED BY <1>1, <1>5, <1>6, <1>8, EmptyTrader

----------------------------------------------------------------------------
(***************************************************************************)
(* The trader's journal and its trader: every action.                      *)
(***************************************************************************)

LEMMA LogPrimed ==
  ASSUME NEW L, NEW S, NEW X, LogInv(L, S), AddsUp(L, S, X), outbox' = L, Sent' = S, torn' = X, mode' = mode
  PROVE  LogInv(outbox, Sent)' /\ AddsUp(outbox, Sent, torn)'
  <1>1. /\ L \in Seq(Reports) /\ Matching(L, S) /\ Sound(L) /\ Ordered(L) /\ Ended(L) /\ Bounded(L, S)
    BY DEF LogInv
  <1>2. Matching(outbox, Sent)'
    <2>1. Matching(outbox', Sent') BY <1>1
    <2> QED BY <2>1 DEF Matching
  <1>3. Sound(outbox)' BY <1>1, LivesKept DEF Sound
  <1>4. Ordered(outbox)' BY <1>1 DEF Ordered, IsOrder
  <1>5. Ended(outbox)' BY <1>1 DEF Ended
  <1>6. \A i : Sold(outbox, i)' = Sold(L, i) BY DEF Sold
  <1>7. Bounded(outbox, Sent)' BY <1>1, <1>6 DEF Bounded, IsOrder
  <1>8. AddsUp(outbox, Sent, torn)' BY <1>6 DEF AddsUp, IsOrder, RefusedAt
  <1>9. outbox' \in Seq(Reports)' BY <1>1 DEF Reports, OrderType, TradeRecs
  <1> QED BY <1>2, <1>3, <1>4, <1>5, <1>7, <1>8, <1>9 DEF LogInv

\* what one step does to the trader's journal
LogStep ==
  /\ LogInv(outbox, Sent)' /\ AddsUp(outbox, Sent, torn)' /\ Longer(outbox, outbox')

LEMMA LogSame ==
  ASSUME LogInv(outbox, Sent), AddsUp(outbox, Sent, torn), UNCHANGED <<outbox, mode, torn>>, Sent' = Sent
  PROVE  LogStep
  <1>1. outbox \in Seq(Reports) BY DEF LogInv
  <1>2. Longer(outbox, outbox') BY <1>1, NothingNew
  <1>3. LogInv(outbox, Sent)' /\ AddsUp(outbox, Sent, torn)' BY LogPrimed
  <1> QED BY <1>2, <1>3 DEF LogStep

LEMMA LogWritten ==
  ASSUME NEW W, Fits(W), outbox' = outbox \o W, UNCHANGED <<mode, torn>>, Sent' = Sent
  PROVE  LogStep
  <1> DEFINE M == outbox \o W
  <1>1. LogInv(M, Sent) /\ AddsUp(M, Sent, torn) /\ Longer(outbox, M) BY DEF Fits
  <1>2. outbox' = M OBVIOUS
  <1> HIDE DEF M
  <1>3. LogInv(outbox, Sent)' /\ AddsUp(outbox, Sent, torn)' BY <1>1, <1>2, LogPrimed
  <1> QED BY <1>1, <1>2, <1>3 DEF LogStep

LEMMA StartLog ==
  ASSUME TradingInv, Start
  PROVE  LogStep
  <1>1. SentInv /\ LogInv(outbox, Sent) /\ AddsUp(outbox, Sent, torn) BY DEF TradingInv
  <1>2. /\ UNCHANGED <<inbox, mode, torn>> /\ outbox' = IF linked THEN outbox \o RecoverFrames ELSE outbox
    BY DEF Start, history
  <1>3. Sent' = Sent BY <1>1, <1>2, SentSame
  <1>4. CASE linked
    <2>1. Written(RecoverFrames, [k \in 1 .. Len(RecoverFrames) |-> <<RecoverFrames[k]>>], Unanswered)
      BY <1>1, RecoverWritten
    <2>2. outbox \in Seq(Reports) BY <1>1 DEF LogInv
    <2>3. Fits(RecoverFrames) BY <2>1, <2>2, WrittenFits
    <2> QED BY <2>3, <1>2, <1>3, <1>4, LogWritten
  <1>5. CASE ~linked BY <1>1, <1>2, <1>3, <1>5, LogSame
  <1> QED BY <1>4, <1>5

LEMMA HandleLog ==
  ASSUME TradingInv, HandleFrame
  PROVE  LogStep
  <1>1. SentInv /\ LogInv(outbox, Sent) /\ AddsUp(outbox, Sent, torn) /\ TraderInv BY DEF TradingInv
  <1> DEFINE f == inbox[tpos + 1]
  <1>2. f = inbox[tpos + 1] OBVIOUS
  <1> HIDE DEF f
  <1>3. /\ HasFrame /\ td = "ready" /\ outbox' = outbox \o Answer(f) /\ UNCHANGED <<mode, torn>> /\ Sent' = Sent
    BY <1>1, <1>2, Handling
  <1>4. Fits(Answer(f)) BY <1>1, <1>2, <1>3, AnswerFits
  <1> QED BY <1>3, <1>4, LogWritten

LEMMA CrashLog ==
  ASSUME TradingInv, Crash
  PROVE  LogStep
  <1>1. SentInv /\ LogInv(outbox, Sent) /\ AddsUp(outbox, Sent, torn) /\ TraderInv BY DEF TradingInv
  <1>2. PICK n \in 0 .. Max({0, Len(Writing) - 1}) :
               outbox' = outbox \o SubSeq(Writing, 1, n) /\ torn' = torn \cup CutIds(Writing, n)
    BY DEF Crash, CutIds
  <1>3. Fits(Writing) /\ outbox \in Seq(Reports) BY <1>1, WritingFits DEF LogInv
  <1>4. UNCHANGED <<inbox, mode>> BY DEF Crash
  <1>5. Sent' = Sent BY <1>1, <1>4, SentSame
  <1> DEFINE W == Writing
             M == outbox \o SubSeq(W, 1, n)
             X == torn \cup CutIds(W, n)
  <1>6. n \in 0 .. Max({0, Len(W) - 1}) /\ Fits(W) /\ outbox' = M /\ torn' = X BY <1>2, <1>3
  <1> HIDE DEF W
  <1>7. LogInv(M, Sent) /\ AddsUp(M, Sent, X) /\ Longer(outbox, M) BY <1>1, <1>3, <1>6, CutGood
  <1> HIDE DEF M, X
  <1>8. LogInv(outbox, Sent)' /\ AddsUp(outbox, Sent, torn)' BY <1>4, <1>5, <1>6, <1>7, LogPrimed
  <1> QED BY <1>6, <1>7, <1>8 DEF LogStep

LEMMA ReadIs ==
  ASSUME BookInv, outbox \in Seq(Reports)
  PROVE  /\ Read \in Seq(Reports) /\ Len(Read) = spos /\ spos \in Nat /\ spos <= Len(outbox) /\ Len(outbox) \in Nat
         /\ \A k \in 1 .. Len(Read) : k \in 1 .. Len(outbox) /\ Read[k] = outbox[k]
  <1>1. spos \in 0 .. Len(outbox) /\ Len(outbox) \in Nat BY DEF BookInv
  <1>2. spos \in Nat /\ spos <= Len(outbox) BY <1>1
  <1>3. \A k \in 1 .. spos : k \in 1 .. Len(outbox) BY <1>1
  <1>4. SubSeq(outbox, 1, spos) \in Seq(Reports) /\ Len(SubSeq(outbox, 1, spos)) = spos
    BY <1>2
  <1>5. \A k \in 1 .. spos : SubSeq(outbox, 1, spos)[k] = outbox[k] BY <1>2
  <1> QED BY <1>1, <1>2, <1>3, <1>4, <1>5 DEF Read

\* a step of the strategy that writes no order
LEMMA MarkStep ==
  ASSUME TradingInv, NEW f \in Commands, Write(f), Kept, f.type # "OrderInput", f.type = "OrderAction" => Lives
  PROVE  SentInv' /\ Sent' = Sent /\ LogStep /\ TraderInv'
  <1>1. SentInv /\ LogInv(outbox, Sent) /\ AddsUp(outbox, Sent, torn) /\ TraderInv BY DEF TradingInv
  <1>2. Sends(f) BY <1>1, Sending
  <1>3. SentInv' /\ Sent' = Sent BY <1>1, <1>2, SentMark
  <1>4. UNCHANGED <<outbox, mode, torn>> BY DEF Kept, memory, history
  <1>5. LogStep BY <1>1, <1>3, <1>4, LogSame
  <1>6. Sent \subseteq Sent' BY <1>3
  <1>7. TraderInv' BY <1>1, <1>2, <1>6, SendTrader
  <1> QED BY <1>3, <1>5, <1>7

LEMMA MarkSent ==
  ASSUME TradingInv, InsertBlockMessage \/ BatchBegin \/ BatchEnd
  PROVE  SentInv' /\ Sent' = Sent /\ LogStep /\ TraderInv'
  <1>1. \A t \in {"BlockMessage", "BatchOrderBegin", "BatchOrderEnd"} :
          Mark(t) \in Commands /\ Mark(t).type # "OrderInput" /\ Mark(t).type # "OrderAction"
    BY DEF Mark, Commands
  <1>2. Kept BY DEF Kept, InsertBlockMessage, BatchBegin, BatchEnd
  <1>3. CASE InsertBlockMessage
    <2>1. Write(Mark("BlockMessage")) BY <1>3 DEF InsertBlockMessage
    <2> QED BY <2>1, <1>1, <1>2, MarkStep
  <1>4. CASE BatchBegin
    <2>1. Write(Mark("BatchOrderBegin")) BY <1>4 DEF BatchBegin
    <2> QED BY <2>1, <1>1, <1>2, MarkStep
  <1>5. CASE BatchEnd
    <2>1. Write(Mark("BatchOrderEnd")) BY <1>5 DEF BatchEnd
    <2> QED BY <2>1, <1>1, <1>2, MarkStep
  <1> QED BY <1>3, <1>4, <1>5

\* what the strategy believes open may still be cancelled
LEMMA CancelSent ==
  ASSUME TradingInv, CancelOrder, ~EagerCancel
  PROVE  SentInv' /\ Sent' = Sent /\ LogStep /\ TraderInv'
  <1>1. Kept BY DEF Kept, CancelOrder
  <1>2. PICK x \in Sent : /\ x.id \in DOMAIN book.orders /\ ~is_final_status(book.orders[x.id].status)
                          /\ Write(OrderAction(x.id))
    BY DEF CancelOrder
  <1>3. InputSet(Sent) /\ LogInv(outbox, Sent) BY SentSet DEF TradingInv
  <1>4. outbox \in Seq(Reports) /\ Sound(outbox) BY <1>3 DEF LogInv
  <1>5. x.id \in Ids BY <1>3, InputType
  <1> DEFINE f == OrderAction(x.id)
  <1>6. f \in Commands /\ f.type = "OrderAction" /\ f.type # "OrderInput" BY <1>5 DEF OrderAction, Commands
  <1>7. Write(f) BY <1>2
  <1> HIDE DEF f
  <1>8. Lives
    <2>1. PICK k \in 1 .. Len(Read) : IsOrder(Read, k, x.id) /\ book.orders[x.id] = Read[k]
      BY <1>2 DEF TradingInv, BookInv, BookIs, Keeps
    <2>2. k \in 1 .. Len(outbox) /\ Read[k] = outbox[k] BY <1>4, ReadIs DEF TradingInv
    <2> QED BY <2>1, <2>2, <1>2, <1>4 DEF Sound, IsOrder
  <1> QED BY <1>1, <1>6, <1>7, <1>8, MarkStep

\* the order a request becomes
LEMMA RequestType ==
  ASSUME SentInv, Cardinality(Sent) < MaxOrders, NEW r \in Requests,
         NEW f, f = OrderInput(Cardinality(Sent) + 1, r)
  PROVE  f \in InputRecs /\ f \in Commands /\ f.id = Cardinality(Sent) + 1
  <1>1. Cardinality(Sent) \in Nat BY FS_CardinalityType DEF SentInv
  <1>2. Cardinality(Sent) + 1 \in Ids BY <1>1, TradingAssumption DEF Ids
  <1>3. r.side \in {"Buy", "Sell"} /\ r.price \in Nat /\ r.volume \in Nat \ {0} /\ r.block \in BOOLEAN
    BY TradingAssumption
  <1> DEFINE c == Cardinality(Sent) + 1
  <1>4. c \in Ids /\ f = OrderInput(c, r) BY <1>2
  <1> HIDE DEF c
  <1>5. f \in InputRecs /\ f.id = c BY <1>3, <1>4 DEF OrderInput, InputRecs
  <1> QED BY <1>5 DEF Commands, c

LEMMA InsertSent ==
  ASSUME TradingInv, InsertOrder, NEW f \in InputRecs, f \in Commands, f.id = Cardinality(Sent) + 1, Write(f)
  PROVE  SentInv' /\ Sent' = Sent \cup {f} /\ LogStep /\ TraderInv'
  <1>1. SentInv /\ LogInv(outbox, Sent) /\ AddsUp(outbox, Sent, torn) /\ TraderInv BY DEF TradingInv
  <1>2. Sends(f) BY <1>1, Sending
  <1>3. Cardinality(Sent) < MaxOrders /\ ready = "yes" /\ Kept BY DEF InsertOrder, Kept
  <1>4. /\ SentInv' /\ Sent' = Sent \cup {f} /\ f \notin Sent /\ Cardinality(Sent) \in Nat
        /\ \A x \in Sent : x.id \in 1 .. Cardinality(Sent)
    BY <1>1, <1>2, <1>3, SentOrder
  <1>5. UNCHANGED <<outbox, mode, torn>> BY <1>3 DEF Kept, memory, history
  <1>6. \A x \in Sent : x.id # f.id
    <2> DEFINE c == Cardinality(Sent)
    <2>1. f.id = c + 1 /\ c \in Nat /\ \A x \in Sent : x.id \in 1 .. c BY <1>4
    <2> HIDE DEF c
    <2> QED BY <2>1
  <1>7. f.id \notin {x.id : x \in Sent} BY <1>6
  <1> DEFINE T == Sent \cup {f}
  <1>8. LogInv(outbox, T) /\ AddsUp(outbox, T, torn) /\ Silent(outbox, f.id) BY <1>1, <1>7, LogMore
  <1>9. Sent' = T BY <1>4
  <1> HIDE DEF T
  <1>10. LogInv(outbox, Sent)' /\ AddsUp(outbox, Sent, torn)' BY <1>5, <1>8, <1>9, LogPrimed
  <1>11. Longer(outbox, outbox') BY <1>1, <1>5, NothingNew DEF LogInv
  <1>12. LogStep BY <1>10, <1>11 DEF LogStep
  <1>13. Sent \subseteq Sent' BY <1>4
  <1>14. f.type # "OrderAction" BY DEF InputRecs
  <1>15. TraderInv' BY <1>1, <1>2, <1>3, <1>6, <1>8, <1>13, <1>14, SendTrader
  <1> QED BY <1>4, <1>12, <1>15

----------------------------------------------------------------------------
(***************************************************************************)
(* The book: sums over the orders sent.                                    *)
(***************************************************************************)

Numbered(S) == InputSet(S) /\ IsFiniteSet(S) /\ {x.id : x \in S} = 1 .. Cardinality(S)

LEMMA SentNumbered ==
  ASSUME SentInv
  PROVE  Numbered(Sent)
  BY SentSet DEF Numbered, SentInv

LEMMA InputOfIs ==
  ASSUME NEW S, Numbered(S)
  PROVE  /\ Cardinality(S) \in Nat
         /\ \A i \in 1 .. Cardinality(S) : InputOf(S, i) \in S /\ InputOf(S, i).id = i
         /\ \A x \in S : x.id \in 1 .. Cardinality(S) /\ InputOf(S, x.id) = x
  <1> DEFINE c == Cardinality(S)
  <1>1. c \in Nat BY FS_CardinalityType DEF Numbered
  <1>2. {x.id : x \in S} = 1 .. c /\ \A x, y \in S : x.id = y.id => x = y BY DEF Numbered, InputSet
  <1> HIDE DEF c
  <1>3. \A i \in 1 .. c : \E x \in S : x.id = i BY <1>2
  <1>4. \A i \in 1 .. c : InputOf(S, i) \in S /\ InputOf(S, i).id = i BY <1>3 DEF InputOf
  <1>5. \A x \in S : x.id \in 1 .. c BY <1>2
  <1>6. \A x \in S : InputOf(S, x.id) = x BY <1>2, <1>4, <1>5
  <1> QED BY <1>1, <1>4, <1>5, <1>6 DEF c

LEMMA Product ==
  ASSUME NEW a \in Nat, NEW b \in Nat
  PROVE  a * b \in Nat
  OBVIOUS

LEMMA Difference ==
  ASSUME NEW a \in Nat, NEW b \in Int, NEW c \in Int
  PROVE  a * (b - c) = a * b - a * c /\ a * (b + c) = a * b + a * c /\ a * b \in Int /\ a * c \in Int /\ c * a = a * c
  OBVIOUS

\* what an order comes to is a number, and what is frozen for it is never negative
LEMMA AmountTypes ==
  ASSUME NEW S, InputSet(S), NEW log, LogInv(log, S), NEW x \in S
  PROVE  /\ FrozenCash(x, log) \in Nat /\ FrozenVolume(x, log) \in Nat /\ Spent(x, log) \in Int
         /\ Total(Rel(log, x.id)) \in Nat /\ Total(Sold(log, x.id)) \in Nat
         /\ x.price \in Nat /\ x.volume \in Nat
  <1>1. log \in Seq(Reports) BY DEF LogInv
  <1> DEFINE r == Total(Rel(log, x.id))
             s == Total(Sold(log, x.id))
  <1>2. r \in Nat /\ s \in Nat BY <1>1, RelNat, SoldNat
  <1>3. x.price \in Nat /\ x.volume \in Nat /\ x.side \in {"Buy", "Sell"} BY InputType
  <1>4. r <= x.volume BY RelBound
  <1>5. FrozenCash(x, log) = IF x.side = "Buy" THEN x.price * (x.volume - r) ELSE 0 BY DEF FrozenCash
  <1>6. FrozenVolume(x, log) = IF x.side = "Sell" THEN x.volume - r ELSE 0 BY DEF FrozenVolume
  <1>7. Spent(x, log) = IF x.side = "Buy" THEN x.price * (x.volume - r + s) ELSE 0 - x.price * s BY DEF Spent
  <1> HIDE DEF r, s
  <1>8. x.volume - r \in Nat BY <1>2, <1>3, <1>4
  <1>9. x.price * (x.volume - r) \in Nat BY <1>3, <1>8, Product
  <1>10. x.price * (x.volume - r + s) \in Int /\ 0 - x.price * s \in Int
    <2>1. x.volume - r + s \in Nat BY <1>2, <1>8
    <2>2. x.price * (x.volume - r + s) \in Nat BY <2>1, <1>3, Product
    <2>3. x.price * s \in Nat BY <1>2, <1>3, Product
    <2> QED BY <2>2, <2>3
  <1> QED BY <1>2, <1>3, <1>5, <1>6, <1>7, <1>8, <1>9, <1>10 DEF r, s

\* the sums are over sequences of integers, those of what is frozen of naturals
LEMMA SumTypes ==
  ASSUME NEW S, Numbered(S), NEW log, LogInv(log, S)
  PROVE  /\ Cashes(S, log) \in Seq(Int) /\ Len(Cashes(S, log)) = Cardinality(S) /\ Total(Cashes(S, log)) \in Nat
         /\ Volumes(S, log) \in Seq(Int) /\ Len(Volumes(S, log)) = Cardinality(S) /\ Total(Volumes(S, log)) \in Nat
         /\ Spents(S, log) \in Seq(Int) /\ Len(Spents(S, log)) = Cardinality(S) /\ Total(Spents(S, log)) \in Int
  <1> DEFINE c == Cardinality(S)
  <1>1. c \in Nat /\ \A i \in 1 .. c : InputOf(S, i) \in S BY InputOfIs
  <1>2. InputSet(S) BY DEF Numbered
  <1>3. \A i \in 1 .. c : /\ FrozenCash(InputOf(S, i), log) \in Nat
                          /\ FrozenVolume(InputOf(S, i), log) \in Nat
                          /\ Spent(InputOf(S, i), log) \in Int
    BY <1>1, <1>2, AmountTypes
  <1>4. /\ Cashes(S, log) = [i \in 1 .. c |-> FrozenCash(InputOf(S, i), log)]
        /\ Volumes(S, log) = [i \in 1 .. c |-> FrozenVolume(InputOf(S, i), log)]
        /\ Spents(S, log) = [i \in 1 .. c |-> Spent(InputOf(S, i), log)]
    BY DEF Cashes, Volumes, Spents
  <1> HIDE DEF c
  <1> DEFINE u == Cashes(S, log)
             v == Volumes(S, log)
             w == Spents(S, log)
  <1>5. /\ u \in [1 .. c -> Nat] /\ v \in [1 .. c -> Nat] /\ w \in [1 .. c -> Int] BY <1>3, <1>4
  <1> HIDE DEF u, v, w
  <1>6. /\ u \in Seq(Int) /\ Len(u) = c /\ v \in Seq(Int) /\ Len(v) = c /\ w \in Seq(Int) /\ Len(w) = c
    BY <1>1, <1>5
  <1>10. \A k \in 1 .. c : u[k] >= 0 /\ v[k] >= 0
    <2>1. ASSUME NEW k \in 1 .. c PROVE u[k] \in Nat /\ v[k] \in Nat BY <1>5
    <2> QED BY <2>1
  <1>7. \A k \in 1 .. Len(u) : u[k] >= 0 BY <1>6, <1>10
  <1>8. \A k \in 1 .. Len(v) : v[k] >= 0 BY <1>6, <1>10
  <1>9. Total(u) \in Nat /\ Total(v) \in Nat /\ Total(w) \in Int BY <1>6, <1>7, <1>8, TotalNat, TotalInt
  <1> QED BY <1>6, <1>9 DEF u, v, w, c

----------------------------------------------------------------------------
\* an order is sent: one more number
LEMMA OneMoreOrder ==
  ASSUME NEW S, Numbered(S), NEW f \in InputRecs, f.id = Cardinality(S) + 1, Numbered(S \cup {f}),
         Cardinality(S \cup {f}) = Cardinality(S) + 1
  PROVE  /\ \A i \in 1 .. Cardinality(S) : InputOf(S \cup {f}, i) = InputOf(S, i)
         /\ InputOf(S \cup {f}, Cardinality(S) + 1) = f
  <1> DEFINE T == S \cup {f}
  <1>1. \A x \in T : InputOf(T, x.id) = x BY InputOfIs
  <1>2. f \in T /\ S \subseteq T OBVIOUS
  <1> HIDE DEF T
  <1>3. \A i \in 1 .. Cardinality(S) : InputOf(S, i) \in T /\ InputOf(S, i).id = i BY <1>2, InputOfIs
  <1>4. \A i \in 1 .. Cardinality(S) : InputOf(T, i) = InputOf(S, i) BY <1>1, <1>3
  <1>5. InputOf(T, f.id) = f BY <1>1, <1>2
  <1> QED BY <1>4, <1>5 DEF T

LEMMA AppendIs ==
  ASSUME NEW c \in Nat, NEW u \in Seq(Int), Len(u) = c, NEW x \in Int, NEW w, w \in [1 .. c + 1 -> Int],
         w[c + 1] = x, \A i \in 1 .. c : w[i] = u[i]
  PROVE  Total(w) = Total(u) + x
  <1> DEFINE v == Append(u, x)
  <1>1. v \in Seq(Int) /\ Len(v) = c + 1 /\ v[c + 1] = x /\ \A i \in 1 .. c : v[i] = u[i] OBVIOUS
  <1>2. Total(v) = Total(u) + x BY TotalAppend
  <1> HIDE DEF v
  <1>3. w \in Seq(Int) /\ Len(w) = c + 1 OBVIOUS
  <1>4. \A i \in 1 .. c + 1 : i \in 1 .. c \/ i = c + 1 OBVIOUS
  <1>5. \A i \in 1 .. c + 1 : w[i] = v[i] BY <1>1, <1>4
  <1>6. w = v BY <1>1, <1>3, <1>5, SameSeq
  <1> QED BY <1>2, <1>6

LEMMA NewOrderSums ==
  ASSUME NEW S, Numbered(S), NEW f \in InputRecs, f.id = Cardinality(S) + 1, Numbered(S \cup {f}),
         Cardinality(S \cup {f}) = Cardinality(S) + 1, NEW log, LogInv(log, S), \A k \in 1 .. Len(log) : log[k].id # f.id
  PROVE  /\ Total(Cashes(S \cup {f}, log)) = Total(Cashes(S, log)) + IF f.side = "Buy" THEN f.price * f.volume ELSE 0
         /\ Total(Volumes(S \cup {f}, log)) = Total(Volumes(S, log)) + IF f.side = "Sell" THEN f.volume ELSE 0
         /\ Total(Spents(S \cup {f}, log)) = Total(Spents(S, log)) + IF f.side = "Buy" THEN f.price * f.volume ELSE 0
  <1> DEFINE T == S \cup {f}
             c == Cardinality(S)
  <1>1. log \in Seq(Reports) /\ c \in Nat BY InputOfIs DEF LogInv
  <1>2. Total(Rel(log, f.id)) = 0 /\ Total(Sold(log, f.id)) = 0 BY <1>1, RelNone
  <1>3. \A i \in 1 .. c : InputOf(T, i) = InputOf(S, i) BY OneMoreOrder
  <1>4. InputOf(T, c + 1) = f /\ Cardinality(T) = c + 1 BY OneMoreOrder
  <1>5. f.price \in Nat /\ f.volume \in Nat /\ f.side \in {"Buy", "Sell"} BY DEF InputRecs
  <1>6. /\ FrozenCash(f, log) = IF f.side = "Buy" THEN f.price * f.volume ELSE 0
        /\ FrozenVolume(f, log) = IF f.side = "Sell" THEN f.volume ELSE 0
        /\ Spent(f, log) = IF f.side = "Buy" THEN f.price * f.volume ELSE 0
    BY <1>2, <1>5 DEF FrozenCash, FrozenVolume, Spent
  <1>7. /\ FrozenCash(f, log) \in Int /\ FrozenVolume(f, log) \in Int /\ Spent(f, log) \in Int
    <2>1. f.price * f.volume \in Nat BY <1>5, Product
    <2> QED BY <2>1, <1>5, <1>6
  <1> HIDE DEF T, c
  <1>8. /\ Cashes(S, log) \in Seq(Int) /\ Len(Cashes(S, log)) = c
        /\ Volumes(S, log) \in Seq(Int) /\ Len(Volumes(S, log)) = c
        /\ Spents(S, log) \in Seq(Int) /\ Len(Spents(S, log)) = c
    BY SumTypes DEF c
  <1>9. /\ Cashes(S, log) = [i \in 1 .. c |-> FrozenCash(InputOf(S, i), log)]
        /\ Volumes(S, log) = [i \in 1 .. c |-> FrozenVolume(InputOf(S, i), log)]
        /\ Spents(S, log) = [i \in 1 .. c |-> Spent(InputOf(S, i), log)]
        /\ Cashes(T, log) = [i \in 1 .. c + 1 |-> FrozenCash(InputOf(T, i), log)]
        /\ Volumes(T, log) = [i \in 1 .. c + 1 |-> FrozenVolume(InputOf(T, i), log)]
        /\ Spents(T, log) = [i \in 1 .. c + 1 |-> Spent(InputOf(T, i), log)]
    BY <1>4 DEF Cashes, Volumes, Spents, c
  <1>10. \A i \in 1 .. c + 1 : i \in 1 .. c \/ i = c + 1 BY <1>1
  <1>11. \A i \in 1 .. c : i \in 1 .. c + 1 BY <1>1
  <1>12. c + 1 \in 1 .. c + 1 BY <1>1
  <1>13. /\ \A i \in 1 .. c : Cashes(T, log)[i] = Cashes(S, log)[i]
         /\ \A i \in 1 .. c : Volumes(T, log)[i] = Volumes(S, log)[i]
         /\ \A i \in 1 .. c : Spents(T, log)[i] = Spents(S, log)[i]
    BY <1>3, <1>9, <1>11
  <1>14. /\ Cashes(T, log)[c + 1] = FrozenCash(f, log)
         /\ Volumes(T, log)[c + 1] = FrozenVolume(f, log)
         /\ Spents(T, log)[c + 1] = Spent(f, log)
    BY <1>4, <1>9, <1>12
  <1>15. \A i \in 1 .. c : Cashes(S, log)[i] \in Int /\ Volumes(S, log)[i] \in Int /\ Spents(S, log)[i] \in Int
    BY <1>8
  <1>16. Cashes(T, log) \in [1 .. c + 1 -> Int]
    <2>1. \A i \in 1 .. c + 1 : Cashes(T, log)[i] \in Int BY <1>7, <1>10, <1>13, <1>14, <1>15
    <2> QED BY <2>1, <1>9
  <1>17. Volumes(T, log) \in [1 .. c + 1 -> Int]
    <2>1. \A i \in 1 .. c + 1 : Volumes(T, log)[i] \in Int BY <1>7, <1>10, <1>13, <1>14, <1>15
    <2> QED BY <2>1, <1>9
  <1>18. Spents(T, log) \in [1 .. c + 1 -> Int]
    <2>1. \A i \in 1 .. c + 1 : Spents(T, log)[i] \in Int BY <1>7, <1>10, <1>13, <1>14, <1>15
    <2> QED BY <2>1, <1>9
  <1>19. Total(Cashes(T, log)) = Total(Cashes(S, log)) + FrozenCash(f, log)
    BY <1>1, <1>7, <1>8, <1>13, <1>14, <1>16, AppendIs
  <1>20. Total(Volumes(T, log)) = Total(Volumes(S, log)) + FrozenVolume(f, log)
    BY <1>1, <1>7, <1>8, <1>13, <1>14, <1>17, AppendIs
  <1>21. Total(Spents(T, log)) = Total(Spents(S, log)) + Spent(f, log)
    BY <1>1, <1>7, <1>8, <1>13, <1>14, <1>18, AppendIs
  <1> QED BY <1>6, <1>19, <1>20, <1>21 DEF T

\* the book after an order was sent
LEMMA OrderBook ==
  ASSUME NEW S, Numbered(S), NEW f \in InputRecs, f.id = Cardinality(S) + 1, Numbered(S \cup {f}),
         Cardinality(S \cup {f}) = Cardinality(S) + 1, NEW log, LogInv(log, S), \A k \in 1 .. Len(log) : log[k].id # f.id,
         NEW b, BookIs(b, S, log)
  PROVE  BookIs(apply_order_input(b, f), S \cup {f}, log)
  <1> DEFINE T == S \cup {f}
             p == f.price * f.volume
             d == apply_order_input(b, f)
  <1>1. /\ Total(Cashes(T, log)) = Total(Cashes(S, log)) + IF f.side = "Buy" THEN p ELSE 0
        /\ Total(Volumes(T, log)) = Total(Volumes(S, log)) + IF f.side = "Sell" THEN f.volume ELSE 0
        /\ Total(Spents(T, log)) = Total(Spents(S, log)) + IF f.side = "Buy" THEN p ELSE 0
    BY NewOrderSums
  <1>2. Total(Cashes(S, log)) \in Nat /\ Total(Volumes(S, log)) \in Nat /\ Total(Spents(S, log)) \in Int BY SumTypes
  <1>3. f.side \in {"Buy", "Sell"} /\ f.price \in Nat /\ f.volume \in Nat BY DEF InputRecs
  <1>4. p \in Nat /\ f.volume * f.price = p BY <1>3, Product
  <1>5. d = IF f.side = "Buy"
            THEN [b EXCEPT !.frozen_cash = @ + f.volume * f.price, !.avail = @ - f.volume * f.price]
            ELSE [b EXCEPT !.frozen_total = @ + f.volume,
                           !.frozen_yesterday = IF b.yesterday - @ >= f.volume THEN @ + f.volume ELSE b.yesterday]
    BY DEF apply_order_input
  <1> HIDE DEF T, p, d
  <1>6. /\ DOMAIN b = BookFields /\ Keeps(b.orders, log)
        /\ b.frozen_cash = Total(Cashes(S, log)) /\ b.frozen_total = Total(Volumes(S, log))
        /\ b.avail = 0 - Total(Spents(S, log))
        /\ b.volume \in Nat /\ b.yesterday \in Nat /\ b.frozen_yesterday \in Nat
    BY DEF BookIs
  <1>7. CASE f.side = "Buy"
    <2>1. d = [b EXCEPT !.frozen_cash = b.frozen_cash + p, !.avail = b.avail - p] BY <1>4, <1>5, <1>7
    <2>2. /\ DOMAIN d = BookFields /\ d.orders = b.orders /\ d.volume = b.volume /\ d.yesterday = b.yesterday
          /\ d.frozen_yesterday = b.frozen_yesterday /\ d.frozen_total = b.frozen_total
          /\ d.frozen_cash = b.frozen_cash + p /\ d.avail = b.avail - p
      BY <2>1, <1>6 DEF BookFields
    <2>3. d.frozen_cash = Total(Cashes(T, log)) /\ d.frozen_total = Total(Volumes(T, log))
      BY <2>2, <1>1, <1>2, <1>3, <1>6, <1>7
    <2>4. d.avail = 0 - Total(Spents(T, log))
      BY <2>2, <1>1, <1>2, <1>4, <1>6, <1>7
    <2> QED BY <2>2, <2>3, <2>4, <1>6 DEF BookIs, T, d
  <1>8. CASE f.side = "Sell"
    <2> DEFINE y == IF b.yesterday - b.frozen_yesterday >= f.volume THEN b.frozen_yesterday + f.volume ELSE b.yesterday
    <2>1. d = [b EXCEPT !.frozen_total = b.frozen_total + f.volume, !.frozen_yesterday = y] BY <1>5, <1>8
    <2>5. y \in Nat BY <1>3, <1>6
    <2> HIDE DEF y
    <2>2. /\ DOMAIN d = BookFields /\ d.orders = b.orders /\ d.volume = b.volume /\ d.yesterday = b.yesterday
          /\ d.frozen_cash = b.frozen_cash /\ d.avail = b.avail
          /\ d.frozen_total = b.frozen_total + f.volume /\ d.frozen_yesterday = y
      BY <2>1, <1>6 DEF BookFields
    <2>3. d.frozen_cash = Total(Cashes(T, log)) /\ d.frozen_total = Total(Volumes(T, log))
      BY <2>2, <1>1, <1>2, <1>3, <1>6, <1>8
    <2>4. d.avail = 0 - Total(Spents(T, log))
      BY <2>2, <1>1, <1>2, <1>6, <1>8
    <2> QED BY <2>2, <2>3, <2>4, <2>5, <1>6 DEF BookIs, T, d
  <1> QED BY <1>3, <1>7, <1>8

----------------------------------------------------------------------------
\* one frame more is read: one number changes
LEMMA FrameTotals ==
  ASSUME NEW log \in Seq(Reports), NEW f \in Reports, NEW i
  PROVE  /\ Total(Rel(log \o <<f>>, i)) = Total(Rel(log, i)) + IF f.id = i THEN Released(f) ELSE 0
         /\ Total(Sold(log \o <<f>>, i)) = Total(Sold(log, i)) + IF f.type = "Trade" /\ f.id = i THEN f.volume ELSE 0
  <1> DEFINE u == <<f>>
             x == IF f.id = i THEN Released(f) ELSE 0
             y == IF f.type = "Trade" /\ f.id = i THEN f.volume ELSE 0
  <1>1. u \in Seq(Reports) /\ Len(u) = 1 /\ u[1] = f OBVIOUS
  <1>2. x \in Int /\ y \in Int BY ReportKinds
  <1>3. \A z \in Int : Total(<<z>>) = z
    <2> SUFFICES ASSUME NEW z \in Int PROVE Total(<<z>>) = z OBVIOUS
    <2>1. <<>> \in Seq(Int) /\ \A k \in 1 .. Len(<<>>) : FALSE OBVIOUS
    <2>2. Total(<<>>) = 0 BY <2>1, TotalZero
    <2>3. Total(Append(<<>>, z)) = Total(<<>>) + z BY <2>1, TotalAppend
    <2>4. Append(<<>>, z) = <<z>> OBVIOUS
    <2> QED BY <2>2, <2>3, <2>4
  <1>4. Rel(u, i) = <<x>>
    <2>1. Rel(u, i) = [k \in 1 .. 1 |-> IF u[k].id = i THEN Released(u[k]) ELSE 0] BY <1>1 DEF Rel
    <2>2. \A k \in 1 .. 1 : k = 1 OBVIOUS
    <2> HIDE DEF u
    <2>3. Rel(u, i) = [k \in 1 .. 1 |-> x] BY <2>1, <2>2, <1>1
    <2> HIDE DEF x
    <2>4. [k \in 1 .. 1 |-> x] = <<x>> OBVIOUS
    <2> QED BY <2>3, <2>4
  <1>5. Sold(u, i) = <<y>>
    <2>1. Sold(u, i) = [k \in 1 .. 1 |-> IF u[k].type = "Trade" /\ u[k].id = i THEN u[k].volume ELSE 0] BY <1>1 DEF Sold
    <2>2. \A k \in 1 .. 1 : k = 1 OBVIOUS
    <2> HIDE DEF u
    <2>3. Sold(u, i) = [k \in 1 .. 1 |-> y] BY <2>1, <2>2, <1>1
    <2> HIDE DEF y
    <2>4. [k \in 1 .. 1 |-> y] = <<y>> OBVIOUS
    <2> QED BY <2>3, <2>4
  <1> HIDE DEF u, x, y
  <1>6. Total(Rel(log \o u, i)) = Total(Rel(log, i)) + Total(Rel(u, i)) BY <1>1, RelConcat
  <1>7. Total(Sold(log \o u, i)) = Total(Sold(log, i)) + Total(Sold(u, i)) BY <1>1, SoldConcat
  <1>8. Total(Rel(u, i)) = x /\ Total(Sold(u, i)) = y BY <1>2, <1>3, <1>4, <1>5
  <1> QED BY <1>6, <1>7, <1>8 DEF u, x, y

LEMMA ChangedIs ==
  ASSUME NEW c \in Nat, NEW u \in Seq(Int), Len(u) = c, NEW w \in Seq(Int), Len(w) = c, NEW i \in 1 .. c,
         \A k \in 1 .. c : k # i => w[k] = u[k]
  PROVE  Total(w) = Total(u) - u[i] + w[i]
  <1> DEFINE v == [u EXCEPT ![i] = w[i]]
  <1>1. w[i] \in Int /\ i \in 1 .. Len(u) OBVIOUS
  <1>2. Total(v) = Total(u) - u[i] + w[i] BY <1>1, TotalExcept
  <1>3. v \in Seq(Int) /\ Len(v) = c /\ \A k \in 1 .. c : v[k] = w[k] BY <1>1
  <1> HIDE DEF v
  <1>4. v = w BY <1>3, SameSeq
  <1> QED BY <1>2, <1>4

LEMMA FrameAmounts ==
  ASSUME NEW S, InputSet(S), NEW f \in Reports, NEW log \in Seq(Reports), LogInv(log, S), NEW x \in S
  PROVE  LET N == log \o <<f>>
             r == Released(f)
             s == IF f.type = "Trade" THEN f.volume ELSE 0
         IN  /\ f.id # x.id => /\ FrozenCash(x, N) = FrozenCash(x, log)
                               /\ FrozenVolume(x, N) = FrozenVolume(x, log)
                               /\ Spent(x, N) = Spent(x, log)
             /\ f.id = x.id => /\ FrozenCash(x, N) = FrozenCash(x, log) - IF x.side = "Buy" THEN x.price * r ELSE 0
                               /\ FrozenVolume(x, N) = FrozenVolume(x, log) - IF x.side = "Sell" THEN r ELSE 0
                               /\ Spent(x, N) = Spent(x, log)
                                    + IF x.side = "Buy" THEN x.price * (s - r) ELSE 0 - x.price * s
  <1> DEFINE N == log \o <<f>>
             r == Released(f)
             s == IF f.type = "Trade" THEN f.volume ELSE 0
             R == Total(Rel(log, x.id))
             D == Total(Sold(log, x.id))
             v == x.volume
             p == x.price
  <1>1. /\ Total(Rel(N, x.id)) = R + IF f.id = x.id THEN r ELSE 0
        /\ Total(Sold(N, x.id)) = D + IF f.id = x.id THEN s ELSE 0
    BY FrameTotals
  <1>2. R \in Nat /\ D \in Nat /\ v \in Nat /\ p \in Nat /\ r \in Nat /\ s \in Nat /\ x.side \in {"Buy", "Sell"}
    BY AmountTypes, ReportKinds, InputType
  <1>3. /\ FrozenCash(x, log) = IF x.side = "Buy" THEN p * (v - R) ELSE 0
        /\ FrozenVolume(x, log) = IF x.side = "Sell" THEN v - R ELSE 0
        /\ Spent(x, log) = IF x.side = "Buy" THEN p * (v - R + D) ELSE 0 - p * D
        /\ FrozenCash(x, N) = IF x.side = "Buy" THEN p * (v - Total(Rel(N, x.id))) ELSE 0
        /\ FrozenVolume(x, N) = IF x.side = "Sell" THEN v - Total(Rel(N, x.id)) ELSE 0
        /\ Spent(x, N) = IF x.side = "Buy" THEN p * (v - Total(Rel(N, x.id)) + Total(Sold(N, x.id)))
                         ELSE 0 - p * Total(Sold(N, x.id))
    BY DEF FrozenCash, FrozenVolume, Spent
  <1> HIDE DEF N, r, s, R, D, v, p
  <1>4. ASSUME f.id # x.id
        PROVE  /\ FrozenCash(x, N) = FrozenCash(x, log)
               /\ FrozenVolume(x, N) = FrozenVolume(x, log)
               /\ Spent(x, N) = Spent(x, log)
    <2>1. Total(Rel(N, x.id)) = R /\ Total(Sold(N, x.id)) = D BY <1>1, <1>2, <1>4
    <2> QED BY <2>1, <1>3
  <1>5. ASSUME f.id = x.id
        PROVE  /\ FrozenCash(x, N) = FrozenCash(x, log) - IF x.side = "Buy" THEN p * r ELSE 0
               /\ FrozenVolume(x, N) = FrozenVolume(x, log) - IF x.side = "Sell" THEN r ELSE 0
               /\ Spent(x, N) = Spent(x, log) + IF x.side = "Buy" THEN p * (s - r) ELSE 0 - p * s
    <2>1. Total(Rel(N, x.id)) = R + r /\ Total(Sold(N, x.id)) = D + s BY <1>1, <1>5
    <2>2. v - (R + r) = (v - R) - r /\ v - (R + r) + (D + s) = (v - R + D) + (s - r)
      BY <1>2
    <2>3. /\ v - R \in Int /\ v - R + D \in Int /\ s - r \in Int BY <1>2
    <2>4. p * ((v - R) - r) = p * (v - R) - p * r BY <1>2, <2>3, Difference
    <2>5. p * ((v - R + D) + (s - r)) = p * (v - R + D) + p * (s - r) BY <1>2, <2>3, Difference
    <2>6. p * (D + s) = p * D + p * s /\ p * D \in Int /\ p * s \in Int BY <1>2, Difference
    <2>7. CASE x.side = "Buy"
      <3>1. FrozenCash(x, N) = p * (v - R) - p * r BY <2>1, <2>2, <2>4, <2>7, <1>3
      <3>2. FrozenVolume(x, N) = 0 /\ FrozenVolume(x, log) = 0 BY <2>7, <1>3
      <3>3. Spent(x, N) = p * (v - R + D) + p * (s - r) BY <2>1, <2>2, <2>5, <2>7, <1>3
      <3> QED BY <3>1, <3>2, <3>3, <2>7, <1>3
    <2>8. CASE x.side = "Sell"
      <3>1. FrozenCash(x, N) = 0 /\ FrozenCash(x, log) = 0 BY <2>8, <1>3
      <3>2. FrozenVolume(x, N) = (v - R) - r /\ FrozenVolume(x, log) = v - R BY <2>1, <2>2, <2>8, <1>3
      <3>3. Spent(x, N) = 0 - (p * D + p * s) /\ Spent(x, log) = 0 - p * D BY <2>1, <2>6, <2>8, <1>3
      <3> QED BY <3>1, <3>2, <3>3, <2>6, <2>8
    <2> QED BY <2>7, <2>8, <1>2
  <1> QED BY <1>4, <1>5 DEF N, r, s, p

LEMMA Cancelling ==
  ASSUME NEW a \in Int, NEW b \in Int, NEW c \in Int
  PROVE  a - b + (b - c) = a - c /\ a - b + (b + c) = a + c
  OBVIOUS

LEMMA FrameSums ==
  ASSUME NEW S, Numbered(S), NEW f \in Reports, NEW log \in Seq(Reports), LogInv(log, S), LogInv(log \o <<f>>, S),
         NEW x \in S, f.id = x.id
  PROVE  LET N == log \o <<f>>
             r == Released(f)
             s == IF f.type = "Trade" THEN f.volume ELSE 0
         IN  /\ Total(Cashes(S, N)) = Total(Cashes(S, log)) - IF x.side = "Buy" THEN x.price * r ELSE 0
             /\ Total(Volumes(S, N)) = Total(Volumes(S, log)) - IF x.side = "Sell" THEN r ELSE 0
             /\ Total(Spents(S, N)) = Total(Spents(S, log)) + IF x.side = "Buy" THEN x.price * (s - r) ELSE 0 - x.price * s
  <1> DEFINE N == log \o <<f>>
             r == Released(f)
             s == IF f.type = "Trade" THEN f.volume ELSE 0
             c == Cardinality(S)
             i == x.id
  <1>1. /\ c \in Nat /\ \A k \in 1 .. c : InputOf(S, k) \in S /\ InputOf(S, k).id = k
        /\ i \in 1 .. c /\ InputOf(S, i) = x
    BY InputOfIs
  <1>2. InputSet(S) BY DEF Numbered
  <1>3. r \in Nat /\ s \in Nat /\ x.price \in Nat BY ReportKinds, InputType, <1>2
  <1>4. \A y \in S : y.id # i => /\ FrozenCash(y, N) = FrozenCash(y, log)
                                 /\ FrozenVolume(y, N) = FrozenVolume(y, log)
                                 /\ Spent(y, N) = Spent(y, log)
    BY <1>2, FrameAmounts
  <1>5. /\ FrozenCash(x, N) = FrozenCash(x, log) - IF x.side = "Buy" THEN x.price * r ELSE 0
        /\ FrozenVolume(x, N) = FrozenVolume(x, log) - IF x.side = "Sell" THEN r ELSE 0
        /\ Spent(x, N) = Spent(x, log) + IF x.side = "Buy" THEN x.price * (s - r) ELSE 0 - x.price * s
    BY <1>2, FrameAmounts
  <1>6. LogInv(N, S) OBVIOUS
  <1> HIDE DEF N, r, s, c, i
  <1>7. \A L \in {log, N} :
           /\ Cashes(S, L) \in Seq(Int) /\ Len(Cashes(S, L)) = c
           /\ Volumes(S, L) \in Seq(Int) /\ Len(Volumes(S, L)) = c
           /\ Spents(S, L) \in Seq(Int) /\ Len(Spents(S, L)) = c
           /\ Total(Cashes(S, L)) \in Int /\ Total(Volumes(S, L)) \in Int /\ Total(Spents(S, L)) \in Int
    <2>1. ASSUME NEW L, LogInv(L, S)
          PROVE  /\ Cashes(S, L) \in Seq(Int) /\ Len(Cashes(S, L)) = c
                 /\ Volumes(S, L) \in Seq(Int) /\ Len(Volumes(S, L)) = c
                 /\ Spents(S, L) \in Seq(Int) /\ Len(Spents(S, L)) = c
                 /\ Total(Cashes(S, L)) \in Int /\ Total(Volumes(S, L)) \in Int /\ Total(Spents(S, L)) \in Int
      BY <2>1, SumTypes DEF c
    <2> QED BY <2>1, <1>6
  <1>8. \A L, k : k \in 1 .. c => /\ Cashes(S, L)[k] = FrozenCash(InputOf(S, k), L)
                                  /\ Volumes(S, L)[k] = FrozenVolume(InputOf(S, k), L)
                                  /\ Spents(S, L)[k] = Spent(InputOf(S, k), L)
    BY DEF Cashes, Volumes, Spents, c
  <1>9. ASSUME NEW k \in 1 .. c, k # i
        PROVE  /\ Cashes(S, N)[k] = Cashes(S, log)[k]
               /\ Volumes(S, N)[k] = Volumes(S, log)[k]
               /\ Spents(S, N)[k] = Spents(S, log)[k]
    <2>1. InputOf(S, k) \in S /\ InputOf(S, k).id # i BY <1>1, <1>9
    <2> QED BY <2>1, <1>4, <1>8
  <1>10. Total(Cashes(S, N)) = Total(Cashes(S, log)) - Cashes(S, log)[i] + Cashes(S, N)[i]
    BY <1>1, <1>7, <1>9, ChangedIs
  <1>11. Total(Volumes(S, N)) = Total(Volumes(S, log)) - Volumes(S, log)[i] + Volumes(S, N)[i]
    BY <1>1, <1>7, <1>9, ChangedIs
  <1>12. Total(Spents(S, N)) = Total(Spents(S, log)) - Spents(S, log)[i] + Spents(S, N)[i]
    BY <1>1, <1>7, <1>9, ChangedIs
  <1>13. \A L : /\ Cashes(S, L)[i] = FrozenCash(x, L)
                /\ Volumes(S, L)[i] = FrozenVolume(x, L)
                /\ Spents(S, L)[i] = Spent(x, L)
    BY <1>1, <1>8
  <1>14. FrozenCash(x, log) \in Int /\ FrozenVolume(x, log) \in Int /\ Spent(x, log) \in Int
    BY <1>2, AmountTypes
  <1> DEFINE a == IF x.side = "Buy" THEN x.price * r ELSE 0
             v == IF x.side = "Sell" THEN r ELSE 0
             e == IF x.side = "Buy" THEN x.price * (s - r) ELSE 0 - x.price * s
  <1>15. a \in Int /\ v \in Int /\ e \in Int
    <2>1. s - r \in Int BY <1>3
    <2>2. x.price * r \in Int /\ x.price * s \in Int /\ x.price * (s - r) \in Int BY <2>1, <1>3, Difference
    <2> QED BY <2>2, <1>3
  <1>16. FrozenCash(x, N) = FrozenCash(x, log) - a /\ FrozenVolume(x, N) = FrozenVolume(x, log) - v
         /\ Spent(x, N) = Spent(x, log) + e
    BY <1>5
  <1> HIDE DEF a, v, e
  <1>17. /\ Total(Cashes(S, N)) = Total(Cashes(S, log)) - a
         /\ Total(Volumes(S, N)) = Total(Volumes(S, log)) - v
         /\ Total(Spents(S, N)) = Total(Spents(S, log)) + e
    <2>1. Total(Cashes(S, log)) \in Int /\ Total(Volumes(S, log)) \in Int /\ Total(Spents(S, log)) \in Int BY <1>7
    <2>2. Total(Cashes(S, N)) = Total(Cashes(S, log)) - FrozenCash(x, log) + (FrozenCash(x, log) - a)
      BY <1>10, <1>13, <1>16
    <2>3. Total(Volumes(S, N)) = Total(Volumes(S, log)) - FrozenVolume(x, log) + (FrozenVolume(x, log) - v)
      BY <1>11, <1>13, <1>16
    <2>4. Total(Spents(S, N)) = Total(Spents(S, log)) - Spent(x, log) + (Spent(x, log) + e)
      BY <1>12, <1>13, <1>16
    <2>5. Total(Cashes(S, N)) = Total(Cashes(S, log)) - a BY <2>1, <2>2, <1>14, <1>15, Cancelling
    <2>6. Total(Volumes(S, N)) = Total(Volumes(S, log)) - v BY <2>1, <2>3, <1>14, <1>15, Cancelling
    <2>7. Total(Spents(S, N)) = Total(Spents(S, log)) + e BY <2>1, <2>4, <1>14, <1>15, Cancelling
    <2> QED BY <2>5, <2>6, <2>7
  <1> QED BY <1>17 DEF N, r, s, a, v, e

\* the orders the book knows, after a frame was read
LEMMA KeepsOrder ==
  ASSUME NEW log \in Seq(Reports), NEW f \in OrderType, NEW known, Keeps(known, log)
  PROVE  Keeps(Put(known, f.id, f), log \o <<f>>)
  <1> DEFINE N == log \o <<f>>
             n == Len(log) + 1
             new == Put(known, f.id, f)
  <1>1. /\ N \in Seq(Reports) /\ Len(log) \in Nat /\ Len(N) = n /\ N[n] = f /\ \A k \in 1 .. Len(log) : N[k] = log[k]
    BY DEF Reports
  <1>2. f.id \in Ids /\ f.type = "Order" BY DEF OrderType
  <1>3. \A k \in 1 .. Len(N) : k \in 1 .. Len(log) \/ k = n BY <1>1
  <1>4. n \in 1 .. Len(N) /\ \A k \in 1 .. Len(log) : k \in 1 .. Len(N) BY <1>1
  <1>5. DOMAIN known = {i \in Ids : \E k \in 1 .. Len(log) : IsOrder(log, k, i)}
        /\ \A i \in DOMAIN known : \E k \in 1 .. Len(log) : IsOrder(log, k, i) /\ known[i] = log[k]
    BY DEF Keeps
  <1>6. DOMAIN new = DOMAIN known \cup {f.id} /\ \A i \in DOMAIN new : new[i] = IF i = f.id THEN f ELSE known[i]
    BY DEF Put
  <1> HIDE DEF N, n, new
  <1>7. ASSUME NEW i PROVE (\E k \in 1 .. Len(N) : IsOrder(N, k, i)) <=> (i = f.id \/ \E k \in 1 .. Len(log) : IsOrder(log, k, i))
    <2>1. \A k \in 1 .. Len(log) : IsOrder(N, k, i) <=> IsOrder(log, k, i) BY <1>1 DEF IsOrder
    <2>2. IsOrder(N, n, i) <=> i = f.id BY <1>1, <1>2 DEF IsOrder
    <2>3. ASSUME NEW k \in 1 .. Len(N), IsOrder(N, k, i) PROVE i = f.id \/ \E j \in 1 .. Len(log) : IsOrder(log, j, i)
      BY <2>1, <2>2, <2>3, <1>3
    <2>4. i = f.id => \E k \in 1 .. Len(N) : IsOrder(N, k, i) BY <2>2, <1>4
    <2>5. (\E k \in 1 .. Len(log) : IsOrder(log, k, i)) => \E k \in 1 .. Len(N) : IsOrder(N, k, i) BY <2>1, <1>4
    <2> QED BY <2>3, <2>4, <2>5
  <1>8. DOMAIN new = {i \in Ids : \E k \in 1 .. Len(N) : IsOrder(N, k, i)} BY <1>2, <1>5, <1>6, <1>7
  <1>9. ASSUME NEW i \in DOMAIN new PROVE \E k \in 1 .. Len(N) : IsOrder(N, k, i) /\ new[i] = N[k]
    <2>1. CASE i = f.id
      <3>1. IsOrder(N, n, i) /\ new[i] = N[n] BY <2>1, <1>1, <1>2, <1>6 DEF IsOrder
      <3> QED BY <3>1, <1>4
    <2>2. CASE i # f.id
      <3>1. i \in DOMAIN known /\ new[i] = known[i] BY <2>2, <1>6, <1>9
      <3>2. PICK k \in 1 .. Len(log) : IsOrder(log, k, i) /\ known[i] = log[k] BY <3>1, <1>5
      <3>3. k \in 1 .. Len(N) /\ N[k] = log[k] BY <1>1, <1>4
      <3> QED BY <3>1, <3>2, <3>3 DEF IsOrder
    <2> QED BY <2>1, <2>2
  <1>10. Keeps(new, N) BY <1>8, <1>9 DEF Keeps
  <1> QED BY <1>10 DEF N, new

LEMMA KeepsTrade ==
  ASSUME NEW log \in Seq(Reports), NEW f \in Reports, f.type = "Trade", NEW known, Keeps(known, log)
  PROVE  Keeps(known, log \o <<f>>)
  <1> DEFINE N == log \o <<f>>
             n == Len(log) + 1
  <1>1. /\ N \in Seq(Reports) /\ Len(log) \in Nat /\ Len(N) = n /\ N[n] = f /\ \A k \in 1 .. Len(log) : N[k] = log[k]
    OBVIOUS
  <1>3. \A k \in 1 .. Len(N) : k \in 1 .. Len(log) \/ k = n BY <1>1
  <1>4. \A k \in 1 .. Len(log) : k \in 1 .. Len(N) BY <1>1
  <1> HIDE DEF N, n
  <1>5. ASSUME NEW i PROVE (\E k \in 1 .. Len(N) : IsOrder(N, k, i)) <=> \E k \in 1 .. Len(log) : IsOrder(log, k, i)
    <2>1. \A k \in 1 .. Len(log) : IsOrder(N, k, i) <=> IsOrder(log, k, i) BY <1>1 DEF IsOrder
    <2>2. ~IsOrder(N, n, i) BY <1>1 DEF IsOrder
    <2> QED BY <2>1, <2>2, <1>3, <1>4
  <1>6. DOMAIN known = {i \in Ids : \E k \in 1 .. Len(N) : IsOrder(N, k, i)} BY <1>5 DEF Keeps
  <1>7. ASSUME NEW i \in DOMAIN known PROVE \E k \in 1 .. Len(N) : IsOrder(N, k, i) /\ known[i] = N[k]
    <2>1. PICK k \in 1 .. Len(log) : IsOrder(log, k, i) /\ known[i] = log[k] BY <1>7 DEF Keeps
    <2>2. k \in 1 .. Len(N) /\ N[k] = log[k] BY <1>1, <1>4
    <2> QED BY <2>1, <2>2 DEF IsOrder
  <1>8. Keeps(known, N) BY <1>6, <1>7 DEF Keeps
  <1> QED BY <1>8 DEF N

LEMMA AtLeastZeroIs ==
  ASSUME NEW a \in Int
  PROVE  AtLeastZero(a) \in Nat /\ (a >= 0 => AtLeastZero(a) = a)
  <1>1. Max({a, 0}) = IF a >= 0 THEN a ELSE 0 BY MaxOfTwo
  <1> QED BY <1>1 DEF AtLeastZero

\* a report is applied
LEMMA ReportBook ==
  ASSUME NEW S, Numbered(S), NEW f \in OrderType, NEW log \in Seq(Reports), LogInv(log, S), LogInv(log \o <<f>>, S),
         NEW x \in S, f.id = x.id, f.side = x.side, f.price = x.price, NEW b, BookIs(b, S, log)
  PROVE  BookIs(apply_order(b, f), S, log \o <<f>>)
  <1> DEFINE N == log \o <<f>>
             r == Released(f)
             d == apply_order(b, f)
             new == Put(b.orders, f.id, f)
             known == [b EXCEPT !.orders = Put(b.orders, f.id, f)]
             m == x.price * f.left
             fs == b.frozen_total
             fy == b.frozen_yesterday
  <1>1. /\ DOMAIN b = BookFields /\ Keeps(b.orders, log)
        /\ b.frozen_cash = Total(Cashes(S, log)) /\ b.frozen_total = Total(Volumes(S, log))
        /\ b.avail = 0 - Total(Spents(S, log))
        /\ b.volume \in Nat /\ b.yesterday \in Nat /\ b.frozen_yesterday \in Nat
    BY DEF BookIs
  <1>2. f.type = "Order" /\ f.left \in Nat /\ f \in Reports BY DEF OrderType, Reports
  <1>3. InputSet(S) /\ x.price \in Nat /\ x.side \in {"Buy", "Sell"} BY InputType DEF Numbered
  <1>4. r = IF is_final_status(f.status) THEN f.left ELSE 0 BY <1>2 DEF Released
  <1>5. /\ Total(Cashes(S, N)) = Total(Cashes(S, log)) - IF x.side = "Buy" THEN x.price * r ELSE 0
        /\ Total(Volumes(S, N)) = Total(Volumes(S, log)) - IF x.side = "Sell" THEN r ELSE 0
        /\ Total(Spents(S, N)) = Total(Spents(S, log)) + IF x.side = "Buy" THEN x.price * (0 - r) ELSE 0 - x.price * 0
    BY <1>2, FrameSums
  <1>6. /\ Total(Cashes(S, log)) \in Nat /\ Total(Volumes(S, log)) \in Nat /\ Total(Spents(S, log)) \in Int
        /\ Total(Volumes(S, N)) \in Nat
    BY SumTypes
  <1>7. Keeps(new, N) BY <1>1, KeepsOrder
  <1>8. new[f.id] = f /\ f.id \in DOMAIN new BY DEF Put
  <1>9. known.orders = new /\ DOMAIN known = BookFields /\ known.frozen_cash = b.frozen_cash /\ known.avail = b.avail
        /\ known.volume = b.volume /\ known.yesterday = b.yesterday /\ known.frozen_total = fs
        /\ known.frozen_yesterday = fy
    BY <1>1 DEF BookFields
  <1>10. d = IF ~is_final_status(f.status) THEN known
             ELSE IF f.side = "Buy"
             THEN [known EXCEPT !.frozen_cash = @ - f.left * get_frozen_price(known, f.id),
                                !.avail = @ + f.left * get_frozen_price(known, f.id)]
             ELSE [known EXCEPT !.frozen_total = AtLeastZero(@ - f.left),
                                !.frozen_yesterday = AtLeastZero(@ - f.left)]
    BY DEF apply_order
  <1> HIDE DEF N, r, d, new, known
  <1>11. get_frozen_price(known, f.id) = x.price BY <1>8, <1>9 DEF get_frozen_price
  <1>12. f.left * get_frozen_price(known, f.id) = m /\ m \in Nat /\ x.price * 0 = 0 /\ x.price * (0 - f.left) = 0 - m
    <2>1. f.left * x.price = x.price * f.left /\ x.price * f.left \in Nat BY <1>2, <1>3, Product, Difference
    <2>2. x.price * (0 - f.left) = x.price * 0 - x.price * f.left BY <1>2, <1>3, Difference
    <2>3. x.price * 0 = 0 BY <1>3
    <2> QED BY <2>1, <2>2, <2>3, <1>11
  <1> HIDE DEF m, fs, fy
  <1>13. fs = b.frozen_total /\ fy = b.frozen_yesterday BY DEF fs, fy
  <1>14. CASE ~is_final_status(f.status)
    <2>1. d = known /\ r = 0 BY <1>4, <1>10, <1>14
    <2>2. Total(Cashes(S, N)) = Total(Cashes(S, log)) /\ Total(Volumes(S, N)) = Total(Volumes(S, log))
      BY <2>1, <1>5, <1>6, <1>12
    <2>3. Total(Spents(S, N)) = Total(Spents(S, log))
      <3>1. 0 - 0 = 0 OBVIOUS
      <3> QED BY <3>1, <2>1, <1>5, <1>6, <1>12
    <2> QED BY <2>1, <2>2, <2>3, <1>1, <1>7, <1>9, <1>13 DEF BookIs, N, d
  <1>15. CASE is_final_status(f.status) /\ x.side = "Buy"
    <2>1. d = [known EXCEPT !.frozen_cash = known.frozen_cash - m, !.avail = known.avail + m]
      BY <1>10, <1>12, <1>15
    <2>2. /\ DOMAIN d = BookFields /\ d.orders = new /\ d.volume = b.volume /\ d.yesterday = b.yesterday
          /\ d.frozen_yesterday = fy /\ d.frozen_total = fs
          /\ d.frozen_cash = b.frozen_cash - m /\ d.avail = b.avail + m
      BY <2>1, <1>9 DEF BookFields
    <2>3. r = f.left BY <1>4, <1>15
    <2>4. d.frozen_cash = Total(Cashes(S, N)) /\ d.frozen_total = Total(Volumes(S, N))
      <3>1. Total(Cashes(S, N)) = Total(Cashes(S, log)) - m BY <2>3, <1>5, <1>15 DEF m
      <3>2. Total(Volumes(S, N)) = Total(Volumes(S, log)) BY <1>5, <1>6, <1>15
      <3> QED BY <3>1, <3>2, <2>2, <1>1, <1>13
    <2>5. d.avail = 0 - Total(Spents(S, N))
      <3>1. Total(Spents(S, N)) = Total(Spents(S, log)) + (0 - m) BY <2>3, <1>5, <1>12, <1>15
      <3> QED BY <3>1, <2>2, <1>1, <1>6, <1>12
    <2> QED BY <2>2, <2>4, <2>5, <1>1, <1>7, <1>13 DEF BookIs, N, d
  <1>16. CASE is_final_status(f.status) /\ x.side = "Sell"
    <2>1. d = [known EXCEPT !.frozen_total = AtLeastZero(known.frozen_total - f.left),
                            !.frozen_yesterday = AtLeastZero(known.frozen_yesterday - f.left)]
      BY <1>10, <1>16
    <2>2. /\ DOMAIN d = BookFields /\ d.orders = new /\ d.volume = b.volume /\ d.yesterday = b.yesterday
          /\ d.frozen_cash = b.frozen_cash /\ d.avail = b.avail
          /\ d.frozen_total = AtLeastZero(fs - f.left) /\ d.frozen_yesterday = AtLeastZero(fy - f.left)
      BY <2>1, <1>9 DEF BookFields
    <2>3. r = f.left BY <1>4, <1>16
    <2>4. Total(Volumes(S, N)) = fs - f.left BY <2>3, <1>1, <1>5, <1>13, <1>16
    <2>5. fs \in Nat /\ fy \in Nat /\ fs - f.left \in Int /\ fy - f.left \in Int /\ fs - f.left >= 0
      <3>1. fs \in Nat /\ fy \in Nat BY <1>1, <1>6, <1>13
      <3>2. fs - f.left \in Nat BY <2>4, <1>6
      <3> QED BY <3>1, <3>2, <1>2
    <2>6. d.frozen_total = Total(Volumes(S, N)) /\ d.frozen_yesterday \in Nat BY <2>2, <2>4, <2>5, AtLeastZeroIs
    <2>7. d.frozen_cash = Total(Cashes(S, N))
      <3>1. Total(Cashes(S, N)) = Total(Cashes(S, log)) BY <1>5, <1>6, <1>16
      <3> QED BY <3>1, <2>2, <1>1
    <2>8. d.avail = 0 - Total(Spents(S, N))
      <3>1. Total(Spents(S, N)) = Total(Spents(S, log)) + (0 - 0) BY <1>5, <1>12, <1>16
      <3> QED BY <3>1, <2>2, <1>1, <1>6
    <2> QED BY <2>2, <2>6, <2>7, <2>8, <1>1, <1>7 DEF BookIs, N, d
  <1> QED BY <1>3, <1>14, <1>15, <1>16

\* a trade is applied
LEMMA TradeBook ==
  ASSUME NEW S, Numbered(S), NEW f \in Reports, f.type = "Trade", NEW log \in Seq(Reports), LogInv(log, S),
         LogInv(log \o <<f>>, S), NEW x \in S, f.id = x.id, f.side = x.side, f.price = x.price,
         NEW b, BookIs(b, S, log), f.id \in DOMAIN b.orders, b.orders[f.id].price = x.price
  PROVE  BookIs(apply_trade(b, f), S, log \o <<f>>)
  <1> DEFINE N == log \o <<f>>
             r == f.volume
             d == apply_trade(b, f)
             m == x.price * f.volume
             fs == b.frozen_total
             fy == b.frozen_yesterday
  <1>1. /\ DOMAIN b = BookFields /\ Keeps(b.orders, log)
        /\ b.frozen_cash = Total(Cashes(S, log)) /\ b.frozen_total = Total(Volumes(S, log))
        /\ b.avail = 0 - Total(Spents(S, log))
        /\ b.volume \in Nat /\ b.yesterday \in Nat /\ b.frozen_yesterday \in Nat
    BY DEF BookIs
  <1>2. r \in Nat BY ReportKinds
  <1>3. InputSet(S) /\ x.price \in Nat /\ x.side \in {"Buy", "Sell"} BY InputType DEF Numbered
  <1>4. Released(f) = r BY DEF Released
  <1>5. /\ Total(Cashes(S, N)) = Total(Cashes(S, log)) - IF x.side = "Buy" THEN x.price * r ELSE 0
        /\ Total(Volumes(S, N)) = Total(Volumes(S, log)) - IF x.side = "Sell" THEN r ELSE 0
        /\ Total(Spents(S, N)) = Total(Spents(S, log)) + IF x.side = "Buy" THEN x.price * (r - r) ELSE 0 - x.price * r
    BY <1>4, FrameSums
  <1>6. /\ Total(Cashes(S, log)) \in Nat /\ Total(Volumes(S, log)) \in Nat /\ Total(Spents(S, log)) \in Int
        /\ Total(Volumes(S, N)) \in Nat
    BY SumTypes
  <1>7. Keeps(b.orders, N) BY <1>1, KeepsTrade
  <1>8. get_frozen_price(b, f.id) * f.volume = m /\ f.price * f.volume = m BY DEF get_frozen_price
  <1>9. d = IF f.side = "Buy"
            THEN [b EXCEPT !.frozen_cash = @ - get_frozen_price(b, f.id) * f.volume,
                           !.avail = @ + get_frozen_price(b, f.id) * f.volume - f.price * f.volume,
                           !.volume = @ + f.volume]
            ELSE [b EXCEPT !.frozen_total = AtLeastZero(@ - f.volume),
                           !.frozen_yesterday = AtLeastZero(@ - f.volume),
                           !.yesterday = AtLeastZero(@ - f.volume),
                           !.volume = AtLeastZero(@ - f.volume),
                           !.avail = @ + f.price * f.volume]
    BY DEF apply_trade, apply_buy, apply_sell
  <1>10. m \in Nat /\ x.price * r = m /\ x.price * (r - r) = 0
    <2>1. x.price * r \in Nat BY <1>2, <1>3, Product
    <2>2. r - r = 0 BY <1>2
    <2>3. x.price * 0 = 0 BY <1>3
    <2> QED BY <2>1, <2>2, <2>3
  <1>11. fs = b.frozen_total /\ fy = b.frozen_yesterday /\ f.volume = r OBVIOUS
  <1> HIDE DEF N, r, d, m, fs, fy
  <1>12. CASE x.side = "Buy"
    <2>1. d = [b EXCEPT !.frozen_cash = b.frozen_cash - m, !.avail = b.avail + m - m, !.volume = b.volume + r]
      BY <1>8, <1>9, <1>11, <1>12
    <2>2. /\ DOMAIN d = BookFields /\ d.orders = b.orders /\ d.volume = b.volume + r /\ d.yesterday = b.yesterday
          /\ d.frozen_yesterday = b.frozen_yesterday /\ d.frozen_total = b.frozen_total
          /\ d.frozen_cash = b.frozen_cash - m /\ d.avail = b.avail + m - m
      BY <2>1, <1>1 DEF BookFields
    <2>3. d.frozen_cash = Total(Cashes(S, N)) /\ d.frozen_total = Total(Volumes(S, N))
      <3>1. Total(Cashes(S, N)) = Total(Cashes(S, log)) - m BY <1>5, <1>10, <1>12
      <3>2. Total(Volumes(S, N)) = Total(Volumes(S, log)) BY <1>5, <1>6, <1>12
      <3> QED BY <3>1, <3>2, <2>2, <1>1
    <2>4. d.avail = 0 - Total(Spents(S, N))
      <3>1. Total(Spents(S, N)) = Total(Spents(S, log)) + 0 BY <1>5, <1>10, <1>12
      <3> QED BY <3>1, <2>2, <1>1, <1>6, <1>10
    <2>5. d.volume \in Nat BY <2>2, <1>1, <1>2
    <2> QED BY <2>2, <2>3, <2>4, <2>5, <1>1, <1>7 DEF BookIs, N, d
  <1>13. CASE x.side = "Sell"
    <2>1. d = [b EXCEPT !.frozen_total = AtLeastZero(fs - r), !.frozen_yesterday = AtLeastZero(fy - r),
                        !.yesterday = AtLeastZero(b.yesterday - r), !.volume = AtLeastZero(b.volume - r),
                        !.avail = b.avail + m]
      BY <1>8, <1>9, <1>11, <1>13
    <2>2. /\ DOMAIN d = BookFields /\ d.orders = b.orders /\ d.volume = AtLeastZero(b.volume - r)
          /\ d.yesterday = AtLeastZero(b.yesterday - r) /\ d.frozen_cash = b.frozen_cash
          /\ d.frozen_yesterday = AtLeastZero(fy - r) /\ d.frozen_total = AtLeastZero(fs - r) /\ d.avail = b.avail + m
      BY <2>1, <1>1 DEF BookFields
    <2>3. Total(Volumes(S, N)) = fs - r BY <1>1, <1>5, <1>11, <1>13
    <2>4. /\ fs - r \in Int /\ fy - r \in Int /\ fs - r >= 0 /\ b.volume - r \in Int /\ b.yesterday - r \in Int
      <3>1. fs \in Nat /\ fy \in Nat BY <1>1, <1>6, <1>11
      <3>2. fs - r \in Nat BY <2>3, <1>6
      <3> QED BY <3>1, <3>2, <1>1, <1>2
    <2>5. /\ d.frozen_total = Total(Volumes(S, N)) /\ d.frozen_yesterday \in Nat /\ d.volume \in Nat /\ d.yesterday \in Nat
      BY <2>2, <2>3, <2>4, AtLeastZeroIs
    <2>6. d.frozen_cash = Total(Cashes(S, N))
      <3>1. Total(Cashes(S, N)) = Total(Cashes(S, log)) BY <1>5, <1>6, <1>13
      <3> QED BY <3>1, <2>2, <1>1
    <2>7. d.avail = 0 - Total(Spents(S, N))
      <3>1. Total(Spents(S, N)) = Total(Spents(S, log)) + (0 - m) BY <1>5, <1>10, <1>13
      <3> QED BY <3>1, <2>2, <1>1, <1>6, <1>10
    <2> QED BY <2>2, <2>5, <2>6, <2>7, <1>7 DEF BookIs, N, d
  <1> QED BY <1>3, <1>12, <1>13

----------------------------------------------------------------------------
(***************************************************************************)
(* The book: every action.                                                 *)
(***************************************************************************)

LEMMA FrameBook ==
  ASSUME NEW S, Numbered(S), NEW f \in Reports, NEW log \in Seq(Reports), LogInv(log \o <<f>>, S),
         NEW b, BookIs(b, S, log)
  PROVE  BookIs(IF f.type = "Order" THEN apply_order(b, f) ELSE apply_trade(b, f), S, log \o <<f>>)
  <1> DEFINE N == log \o <<f>>
             n == Len(log) + 1
  <1>1. /\ N \in Seq(Reports) /\ Len(log) \in Nat /\ Len(N) = n /\ N[n] = f /\ n \in 1 .. Len(N)
        /\ \A k \in 1 .. Len(log) : N[k] = log[k] /\ k \in 1 .. Len(N)
    OBVIOUS
  <1>2. InputSet(S) /\ <<f>> \in Seq(Reports) BY DEF Numbered
  <1>3. LogInv(log, S) BY <1>2, PrefixInv
  <1>4. Matching(N, S) /\ Ordered(N) BY DEF LogInv
  <1>5. \A i \in 1 .. n - 1 : i \in 1 .. Len(log) BY <1>1
  <1> HIDE DEF N, n
  <1>6. PICK x \in S : f.id = x.id /\ f.side = x.side /\ f.price = x.price BY <1>1, <1>4 DEF Matching
  <1>8. CASE f.type = "Order"
    <2>1. f \in OrderType BY <1>8, ReportKinds
    <2>2. BookIs(apply_order(b, f), S, log \o <<f>>) BY <2>1, <1>3, <1>6, ReportBook
    <2> QED BY <2>2, <1>8
  <1>9. CASE f.type = "Trade"
    <2>1. PICK j \in 1 .. n - 1 : IsOrder(N, j, f.id) BY <1>1, <1>4, <1>9 DEF Ordered
    <2>2. j \in 1 .. Len(log) /\ IsOrder(log, j, f.id) BY <2>1, <1>1, <1>5 DEF IsOrder
    <2>3. f.id \in Ids BY ReportKinds
    <2>4. f.id \in DOMAIN b.orders BY <2>2, <2>3 DEF BookIs, Keeps
    <2>5. PICK k \in 1 .. Len(log) : IsOrder(log, k, f.id) /\ b.orders[f.id] = log[k] BY <2>4 DEF BookIs, Keeps
    <2>6. Matching(log, S) BY <1>3 DEF LogInv
    <2>7. PICK y \in S : log[k].id = y.id /\ log[k].price = y.price BY <2>6 DEF Matching
    <2>8. y.id = x.id BY <2>5, <2>7, <1>6 DEF IsOrder
    <2>9. y = x BY <2>8, <1>2 DEF InputSet
    <2>10. b.orders[f.id].price = x.price BY <2>5, <2>7, <2>9
    <2>11. BookIs(apply_trade(b, f), S, log \o <<f>>) BY <2>4, <2>10, <1>3, <1>6, <1>9, TradeBook
    <2> QED BY <2>11, <1>9
  <1> QED BY <1>8, <1>9, ReportKinds

\* the book is a matter of what has been read
LEMMA BookPrimed ==
  ASSUME NEW S, NEW log, NEW b, BookIs(b, S, log), book' = b, Sent' = S, Read' = log
  PROVE  BookIs(book, Sent, Read)'
  <1>1. BookIs(book', Sent', Read') OBVIOUS
  <1> QED BY <1>1 DEF BookIs, Cashes, Volumes, Spents, FrozenCash, FrozenVolume, Spent, InputOf, Keeps, Rel, Sold, IsOrder

\* a sequence is its first n elements and the others
LEMMA CutAt ==
  ASSUME NEW L \in Seq(Reports), NEW n \in Nat, n <= Len(L)
  PROVE  /\ SubSeq(L, 1, n) \in Seq(Reports) /\ SubSeq(L, n + 1, Len(L)) \in Seq(Reports)
         /\ SubSeq(L, 1, n) \o SubSeq(L, n + 1, Len(L)) = L
  <1> DEFINE P == SubSeq(L, 1, n)
             R == SubSeq(L, n + 1, Len(L))
             M == P \o R
  <1>1. Len(L) \in Nat OBVIOUS
  <1>2. P \in Seq(Reports) /\ Len(P) = n /\ \A k \in 1 .. n : P[k] = L[k] BY <1>1
  <1>3. R \in Seq(Reports) /\ Len(R) = Len(L) - n /\ \A k \in 1 .. Len(R) : R[k] = L[n + k]
    <2> DEFINE c == Len(L)
               m == n + 1
    <2>1. c \in Nat /\ m \in Nat /\ m >= 1 /\ m <= c + 1 BY <1>1
    <2>2. c - m + 1 = c - n /\ c - n \in Nat /\ \A k \in 1 .. c - n : m + k - 1 = n + k /\ n + k \in 1 .. c BY <1>1
    <2>5. R = SubSeq(L, m, c) OBVIOUS
    <2> HIDE DEF R, m, c
    <2>4. SubSeq(L, m, c) = [k \in 1 .. c - m + 1 |-> L[m + k - 1]] BY <2>1
    <2>6. R = [k \in 1 .. c - n |-> L[n + k]] BY <2>2, <2>4, <2>5
    <2>7. \A k \in 1 .. c - n : L[n + k] \in Reports BY <2>2 DEF c
    <2>8. R \in Seq(Reports) /\ Len(R) = c - n
      <3> DEFINE l == c - n
      <3>1. l \in Nat /\ R \in [1 .. l -> Reports] BY <2>2, <2>6, <2>7
      <3> HIDE DEF l
      <3>2. R \in Seq(Reports) /\ Len(R) = l BY <3>1
      <3> QED BY <3>2 DEF l
    <2> QED BY <2>6, <2>8 DEF c
  <1> HIDE DEF P, R
  <1>4. /\ M \in Seq(Reports) /\ Len(M) = Len(P) + Len(R)
        /\ \A k \in 1 .. Len(P) : M[k] = P[k]
        /\ \A k \in 1 .. Len(R) : M[Len(P) + k] = R[k]
    <2>1. P \in Seq(Reports) /\ R \in Seq(Reports) BY <1>2, <1>3
    <2>2. Joined(Reports, P, R, M) BY <2>1, ConcatAt
    <2> HIDE DEF M
    <2> QED BY <2>1, <2>2 DEF Joined
  <1> HIDE DEF M
  <1>5. Len(M) = Len(L) BY <1>1, <1>2, <1>3, <1>4
  <1>6. ASSUME NEW k \in 1 .. Len(L) PROVE M[k] = L[k]
    <2>1. CASE k \in 1 .. n BY <2>1, <1>2, <1>4
    <2>2. CASE k \notin 1 .. n
      <3> DEFINE j == k - n
      <3>1. j \in 1 .. Len(R) /\ k = n + j BY <2>2, <1>1, <1>3
      <3> HIDE DEF j
      <3>2. M[Len(P) + j] = R[j] BY <3>1, <1>4
      <3>3. R[j] = L[n + j] /\ Len(P) = n BY <3>1, <1>2, <1>3
      <3> QED BY <3>1, <3>2, <3>3
    <2> QED BY <2>1, <2>2
  <1>7. M = L BY <1>1, <1>4, <1>5, <1>6, SameSeq
  <1> QED BY <1>2, <1>3, <1>7 DEF M, P, R

\* nothing is read
LEMMA BookKept ==
  ASSUME BookInv, outbox \in Seq(Reports), Longer(outbox, outbox'), spos' = spos, book' = book, Sent' = Sent
  PROVE  BookInv'
  <1>1. Len(outbox) \in Nat /\ Len(outbox') \in Nat /\ Len(outbox) <= Len(outbox')
    <2>1. outbox \in Seq(Reports) /\ outbox' \in Seq(Reports) BY DEF Longer
    <2>2. Len(outbox) \in Nat BY <2>1
    <2>3. Len(outbox') \in Nat BY <2>1
    <2> QED BY <2>2, <2>3 DEF Longer
  <1>2. spos \in 0 .. Len(outbox) BY DEF BookInv
  <1>3. spos' \in 0 .. Len(outbox') BY <1>1, <1>2
  <1>4. Read' = Read
    <2> DEFINE L == outbox
               M == outbox'
               n == spos
    <2>1. L \in Seq(Reports) /\ M \in Seq(Reports) /\ n \in 0 .. Len(L) /\ Len(L) \in Nat /\ Len(L) <= Len(M)
      BY <1>1, <1>2 DEF Longer
    <2>2. \A k \in 1 .. Len(L) : M[k] = L[k] BY DEF Longer
    <2>3. Read = SubSeq(L, 1, n) /\ Read' = SubSeq(M, 1, n) BY DEF Read
    <2> HIDE DEF L, M, n
    <2>4. n \in Nat /\ n <= Len(L) BY <2>1
    <2>5. SubSeq(L, 1, n) \in Seq(Reports) /\ Len(SubSeq(L, 1, n)) = n /\ \A k \in 1 .. n : SubSeq(L, 1, n)[k] = L[k]
      BY <2>1, <2>4
    <2>6. n <= Len(M)
      <3>1. Len(M) \in Nat BY <2>1
      <3> QED BY <3>1, <2>1, <2>4
    <2>7. SubSeq(M, 1, n) \in Seq(Reports) /\ Len(SubSeq(M, 1, n)) = n /\ \A k \in 1 .. n : SubSeq(M, 1, n)[k] = M[k]
      BY <2>1, <2>4, <2>6
    <2>8. \A k \in 1 .. n : k \in 1 .. Len(L) BY <2>1, <2>4
    <2> DEFINE P == SubSeq(L, 1, n)
               Q == SubSeq(M, 1, n)
    <2>9. P \in Seq(Reports) /\ Q \in Seq(Reports) /\ Len(P) = n /\ Len(Q) = n /\ \A k \in 1 .. n : P[k] = Q[k]
      BY <2>2, <2>5, <2>7, <2>8
    <2> HIDE DEF P, Q
    <2>10. P = Q BY <2>9, SameSeq
    <2> QED BY <2>3, <2>10 DEF P, Q
  <1>5. BookIs(book, Sent, Read) BY DEF BookInv
  <1>6. BookIs(book, Sent, Read)' BY <1>4, <1>5, BookPrimed
  <1> QED BY <1>3, <1>6 DEF BookInv

LEMMA ReadBook ==
  ASSUME TradingInv, ReadFrame
  PROVE  BookInv'
  <1>1. BookInv /\ SentInv /\ LogInv(outbox, Sent) BY DEF TradingInv
  <1>2. outbox \in Seq(Reports) /\ Numbered(Sent) BY <1>1, SentNumbered DEF LogInv
  <1> DEFINE f == outbox[spos + 1]
             L == outbox
             n == spos
             P == SubSeq(L, 1, n)
             Q == SubSeq(L, 1, n + 1)
             R == SubSeq(L, n + 2, Len(L))
             N == P \o <<f>>
             b == IF f.type = "Order" THEN apply_order(book, f) ELSE apply_trade(book, f)
  <1>3. /\ spos < Len(outbox) /\ spos' = spos + 1 /\ UNCHANGED <<inbox, outbox>> /\ book' = b
    BY DEF ReadFrame, wire
  <1>4. Sent' = Sent BY <1>1, <1>3, SentSame
  <1>5. n \in Nat /\ Len(L) \in Nat /\ n + 1 <= Len(L) /\ n + 1 \in 1 .. Len(L) /\ L \in Seq(Reports)
    BY <1>1, <1>2, <1>3 DEF BookInv
  <1>6. Read = P /\ Read' = Q BY <1>3 DEF Read
  <1>7. f = L[n + 1] /\ f \in Reports BY <1>5
  <1>8. BookIs(book, Sent, P) BY <1>1, <1>6 DEF BookInv
  <1> HIDE DEF b, f, L, n
  <1>9. P \in Seq(Reports) /\ Len(P) = n /\ \A k \in 1 .. n : P[k] = L[k] BY <1>5
  <1>10. Q \in Seq(Reports) /\ Len(Q) = n + 1 /\ \A k \in 1 .. n + 1 : Q[k] = L[k] BY <1>5
  <1>11. R \in Seq(Reports) BY <1>5
  <1> HIDE DEF P, Q, R
  <1>12. N \in Seq(Reports) /\ Len(N) = n + 1 /\ N[n + 1] = f /\ \A k \in 1 .. n : N[k] = P[k] BY <1>5, <1>7, <1>9
  <1>13. N = Q
    <2>1. \A k \in 1 .. n + 1 : k \in 1 .. n \/ k = n + 1 BY <1>5
    <2> HIDE DEF N
    <2>2. \A k \in 1 .. n + 1 : N[k] = Q[k] BY <2>1, <1>7, <1>9, <1>10, <1>12
    <2> QED BY <2>2, <1>5, <1>10, <1>12, SameSeq
  <1>14. Q \o R = L
    <2> DEFINE m == n + 1
    <2>1. m \in Nat /\ m <= Len(L) /\ m + 1 = n + 2 /\ m = n + 1 BY <1>5
    <2> HIDE DEF m
    <2>2. SubSeq(L, 1, m) \o SubSeq(L, m + 1, Len(L)) = L BY <2>1, <1>5, CutAt
    <2> QED BY <2>1, <2>2 DEF Q, R
  <1>15. LogInv(Q, Sent)
    <2>1. LogInv(Q \o R, Sent) BY <1>1, <1>14 DEF L
    <2>2. InputSet(Sent) BY <1>2 DEF Numbered
    <2> QED BY <2>1, <2>2, <1>10, <1>11, PrefixInv
  <1>16. BookIs(b, Sent, N)
    <2>1. LogInv(N, Sent) BY <1>13, <1>15
    <2>2. BookIs(IF f.type = "Order" THEN apply_order(book, f) ELSE apply_trade(book, f), Sent, P \o <<f>>)
      BY <2>1, <1>2, <1>7, <1>8, <1>9, FrameBook
    <2> QED BY <2>2 DEF b
  <1>17. BookIs(book, Sent, Read)'
    <2>1. BookIs(b, Sent, Q) BY <1>13, <1>16
    <2> QED BY <2>1, <1>3, <1>4, <1>6, BookPrimed
  <1>18. spos' \in 0 .. Len(outbox') BY <1>3, <1>5 DEF L, n
  <1> QED BY <1>17, <1>18 DEF BookInv

\* what has been read is a log too
LEMMA ReadInv ==
  ASSUME BookInv, LogInv(outbox, Sent), Numbered(Sent)
  PROVE  LogInv(Read, Sent)
  <1> DEFINE R == SubSeq(outbox, spos + 1, Len(outbox))
  <1>1. outbox \in Seq(Reports) BY DEF LogInv
  <1>2. spos \in Nat /\ spos <= Len(outbox) /\ Read \in Seq(Reports) BY <1>1, ReadIs
  <1>3. R \in Seq(Reports) /\ Read \o R = outbox BY <1>1, <1>2, CutAt DEF Read
  <1> HIDE DEF R
  <1>4. LogInv(Read \o R, Sent) /\ InputSet(Sent) BY <1>3 DEF Numbered
  <1> QED BY <1>2, <1>3, <1>4, PrefixInv

LEMMA InsertBook ==
  ASSUME TradingInv, InsertOrder, NEW f \in InputRecs, f.id = Cardinality(Sent) + 1, SentInv', Sent' = Sent \cup {f},
         book' = apply_order_input(book, f)
  PROVE  BookInv'
  <1>1. BookInv /\ SentInv /\ LogInv(outbox, Sent) BY DEF TradingInv
  <1>2. outbox \in Seq(Reports) /\ Numbered(Sent) BY <1>1, SentNumbered DEF LogInv
  <1>3. UNCHANGED <<outbox, spos>> BY DEF InsertOrder
  <1>4. Read' = Read BY <1>3 DEF Read
  <1> DEFINE S == Sent
             T == Sent \cup {f}
             log == Read
  <1>6. f.id \notin {x.id : x \in S} /\ IsFiniteSet(S)
    <2>1. {x.id : x \in S} = 1 .. Cardinality(S) /\ IsFiniteSet(S) BY <1>2 DEF Numbered
    <2>2. Cardinality(S) \in Nat BY <2>1, FS_CardinalityType
    <2> DEFINE c == Cardinality(S)
    <2>3. c + 1 \notin 1 .. c BY <2>2
    <2> QED BY <2>1, <2>3
  <1>5. Numbered(T)
    <2>1. IsFiniteSet(T) /\ {x.id : x \in T} = 1 .. Cardinality(T)
      <3>1. IsFiniteSet(Sent') /\ {x.id : x \in Sent'} = 1 .. Cardinality(Sent') BY DEF SentInv
      <3>2. Sent' = T OBVIOUS
      <3> HIDE DEF T
      <3> QED BY <3>1, <3>2
    <2>2. InputSet(Sent) BY <1>2 DEF Numbered
    <2>3. InputSet(T) BY <2>2, <1>6 DEF InputSet
    <2> QED BY <2>1, <2>3 DEF Numbered
  <1>7. Cardinality(T) = Cardinality(S) + 1
    <2>1. f \notin S BY <1>6
    <2> QED BY <2>1, <1>6, FS_AddElement
  <1>8. /\ log \in Seq(Reports) /\ \A k \in 1 .. Len(log) : k \in 1 .. Len(outbox) /\ log[k] = outbox[k]
    BY <1>1, <1>2, ReadIs
  <1>9. LogInv(log, S) BY <1>1, <1>2, ReadInv
  <1>10. \A k \in 1 .. Len(log) : log[k].id # f.id
    <2>1. \A k \in 1 .. Len(outbox) : \E x \in Sent : outbox[k].id = x.id BY <1>1 DEF LogInv, Matching
    <2> QED BY <2>1, <1>6, <1>8
  <1>11. BookIs(book, S, log) BY <1>1 DEF BookInv
  <1>12. f.id = Cardinality(S) + 1 /\ Numbered(S) BY <1>2
  <1> HIDE DEF S, log, T
  <1>13. BookIs(apply_order_input(book, f), S \cup {f}, log)
    <2>1. Numbered(S \cup {f}) /\ Cardinality(S \cup {f}) = Cardinality(S) + 1 BY <1>5, <1>7 DEF S, T
    <2> QED BY <2>1, <1>9, <1>10, <1>11, <1>12, OrderBook
  <1>14. BookIs(book, Sent, Read)'
    <2>1. Sent' = S \cup {f} /\ Read' = log BY <1>4 DEF S, log
    <2> QED BY <2>1, <1>13, BookPrimed
  <1>15. spos' \in 0 .. Len(outbox') BY <1>1, <1>3 DEF BookInv
  <1> QED BY <1>14, <1>15 DEF BookInv

----------------------------------------------------------------------------
(***************************************************************************)
(* The invariant holds at the start, and every step keeps it.              *)
(***************************************************************************)

LEMMA InitInv ==
  ASSUME Init
  PROVE  TradingInv
  <1>1. /\ inbox = << >> /\ outbox = << >> /\ td = "down" /\ mode \in MatchModes /\ linked = FALSE /\ tpos = 0
        /\ recovered = << >> /\ orders = << >> /\ inputs = << >> /\ lost = FALSE /\ ready = "no" /\ spos = 0
        /\ torn = {} /\ missed = {}
        /\ book = [avail |-> 0, frozen_cash |-> 0, volume |-> Holding, yesterday |-> Holding,
                   frozen_total |-> 0, frozen_yesterday |-> 0, orders |-> << >>]
    BY DEF Init, NoOrders
  <1>2. Sent = {}
    <2>1. DOMAIN inbox = {} BY <1>1
    <2> QED BY <2>1 DEF Sent
  <1>3. IsFiniteSet(Sent) /\ Cardinality(Sent) = 0 BY <1>2, FS_EmptySet
  <1>4. SentInv
    <2>1. inbox \in Seq(Commands) /\ \A k \in 1 .. Len(inbox) : FALSE BY <1>1
    <2>2. {x.id : x \in Sent} = 1 .. Cardinality(Sent) BY <1>2, <1>3
    <2>3. Cardinality(Sent) <= MaxOrders BY <1>3, TradingAssumption
    <2> QED BY <2>1, <2>2, <2>3, <1>3 DEF SentInv
  <1>5. outbox \in Seq(Reports) /\ Len(outbox) = 0 /\ \A k \in 1 .. Len(outbox) : FALSE BY <1>1
  <1>6. LogInv(outbox, Sent) /\ AddsUp(outbox, Sent, torn)
    <2>1. Matching(outbox, Sent) /\ Sound(outbox) BY <1>5 DEF Matching, Sound
    <2>2. Ordered(outbox) BY <1>5 DEF Ordered
    <2>3. Ended(outbox) BY <1>5 DEF Ended
    <2>4. Bounded(outbox, Sent) BY <1>2 DEF Bounded
    <2>5. AddsUp(outbox, Sent, torn) BY <1>2 DEF AddsUp
    <2> QED BY <2>1, <2>2, <2>3, <2>4, <2>5, <1>5 DEF LogInv
  <1>7. TraderInv
    <2>1. Lifecycle BY <1>1 DEF Lifecycle
    <2>2. Entered
      <3>1. DOMAIN orders = {} BY <1>1
      <3> QED BY <3>1 DEF Entered
    <2>3. Waiting
      <3>1. inputs \in Seq(Sent) /\ \A j \in 1 .. Len(inputs) : FALSE BY <1>1
      <3>2. ~linked BY <1>1
      <3> QED BY <3>1, <3>2 DEF Waiting
    <2>4. Cancels
      <3>1. \A k \in 1 .. Len(inbox) : FALSE BY <1>1
      <3> QED BY <3>1 DEF Cancels
    <2>5. tpos \in 0 .. Len(inbox) BY <1>1
    <2>6. \A i \in DOMAIN recovered : recovered[i] \in OrderType
      <3>1. DOMAIN recovered = {} BY <1>1
      <3> QED BY <3>1
    <2>7. /\ td \in {"down", "boot", "ready"} /\ mode \in MatchModes /\ linked \in BOOLEAN /\ lost \in BOOLEAN
          /\ ready \in {"no", "due", "yes"} /\ torn \subseteq Ids /\ missed \subseteq Ids
      BY <1>1
    <2> QED BY <2>1, <2>2, <2>3, <2>4, <2>5, <2>6, <2>7 DEF TraderInv
  <1>8. BookInv
    <2>1. spos \in 0 .. Len(outbox) BY <1>1, <1>5
    <2>2. Read = << >> BY <1>1 DEF Read
    <2>3. LogInv(Read, Sent) /\ Len(Read) = 0 BY <2>2, <1>1, <1>6
    <2>4. /\ Cashes(Sent, Read) \in Seq(Int) /\ Len(Cashes(Sent, Read)) = 0
          /\ Volumes(Sent, Read) \in Seq(Int) /\ Len(Volumes(Sent, Read)) = 0
          /\ Spents(Sent, Read) \in Seq(Int) /\ Len(Spents(Sent, Read)) = 0
      BY <2>3, <1>3, <1>4, SentNumbered, SumTypes
    <2>5. Total(Cashes(Sent, Read)) = 0 /\ Total(Volumes(Sent, Read)) = 0 /\ Total(Spents(Sent, Read)) = 0
      <3>1. \A s \in Seq(Int) : Len(s) = 0 => Total(s) = 0
        <4> SUFFICES ASSUME NEW s \in Seq(Int), Len(s) = 0 PROVE Total(s) = 0 OBVIOUS
        <4>1. \A k \in 1 .. Len(s) : s[k] = 0 OBVIOUS
        <4> QED BY <4>1, TotalZero
      <3> QED BY <3>1, <2>4
    <2>6. Keeps(book.orders, Read)
      <3>1. book.orders = << >> BY <1>1
      <3>2. DOMAIN book.orders = {} BY <3>1
      <3>3. \A k \in 1 .. Len(Read) : FALSE BY <2>3
      <3> QED BY <3>2, <3>3 DEF Keeps
    <2>7. /\ DOMAIN book = BookFields /\ book.frozen_cash = 0 /\ book.frozen_total = 0 /\ book.avail = 0
          /\ book.volume = Holding /\ book.yesterday = Holding /\ book.frozen_yesterday = 0
      BY <1>1 DEF BookFields
    <2>8. Holding \in Nat /\ 0 \in Nat /\ 0 - 0 = 0 BY TradingAssumption
    <2>9. BookIs(book, Sent, Read) BY <2>5, <2>6, <2>7, <2>8 DEF BookIs
    <2> QED BY <2>1, <2>9 DEF BookInv
  <1> QED BY <1>4, <1>6, <1>7, <1>8 DEF TradingInv

LEMMA InsertOrderInv ==
  ASSUME TradingInv, InsertOrder
  PROVE  TradingInv'
  <1>1. Cardinality(Sent) < MaxOrders /\ SentInv BY DEF InsertOrder, TradingInv
  <1>2. PICK r \in Requests : /\ Write(OrderInput(Cardinality(Sent) + 1, r))
                              /\ book' = apply_order_input(book, OrderInput(Cardinality(Sent) + 1, r))
    BY DEF InsertOrder
  <1> DEFINE f == OrderInput(Cardinality(Sent) + 1, r)
  <1>3. f = OrderInput(Cardinality(Sent) + 1, r) /\ Write(f) /\ book' = apply_order_input(book, f) BY <1>2
  <1> HIDE DEF f
  <1>4. f \in InputRecs /\ f \in Commands /\ f.id = Cardinality(Sent) + 1 BY <1>1, <1>3, RequestType
  <1>5. SentInv' /\ Sent' = Sent \cup {f} /\ LogStep /\ TraderInv' BY <1>3, <1>4, InsertSent
  <1>6. BookInv' BY <1>3, <1>4, <1>5, InsertBook
  <1> QED BY <1>5, <1>6 DEF TradingInv, LogStep

LEMMA CommandInv ==
  ASSUME TradingInv, InsertBlockMessage \/ BatchBegin \/ BatchEnd \/ CancelOrder, ~EagerCancel
  PROVE  TradingInv'
  <1>1. SentInv' /\ Sent' = Sent /\ LogStep /\ TraderInv' BY MarkSent, CancelSent
  <1>2. UNCHANGED <<spos, book>> BY DEF InsertBlockMessage, BatchBegin, BatchEnd, CancelOrder, strategy
  <1>3. BookInv /\ outbox \in Seq(Reports) BY DEF TradingInv, LogInv
  <1>4. Longer(outbox, outbox') BY <1>1 DEF LogStep
  <1>5. BookInv' BY <1>1, <1>2, <1>3, <1>4, BookKept
  <1> QED BY <1>1, <1>5 DEF TradingInv, LogStep

LEMMA OtherInv ==
  ASSUME TradingInv, ReadFrame \/ SeeReady \/ SeeGone \/ Boot \/ Link \/ SkipFrame \/ Start \/ HandleFrame \/ Crash
  PROVE  TradingInv'
  <1>1. SentInv /\ LogInv(outbox, Sent) /\ AddsUp(outbox, Sent, torn) /\ BookInv /\ outbox \in Seq(Reports)
    BY DEF TradingInv, LogInv
  <1>2. inbox' = inbox BY DEF ReadFrame, SeeReady, SeeGone, Boot, Link, SkipFrame, Start, HandleFrame, Crash, wire
  <1>3. SentInv' /\ Sent' = Sent BY <1>1, <1>2, SentSame
  <1>4. TraderInv'
    BY ReadTrader, SeeReadyTrader, SeeGoneTrader, BootTrader, LinkTrader, SkipTrader, StartTrader, HandleTrader,
       CrashTrader
  <1>5. LogStep
    <2>1. CASE ReadFrame \/ SeeReady \/ SeeGone \/ Boot \/ Link \/ SkipFrame
      <3>1. UNCHANGED <<outbox, mode, torn>>
        BY <2>1 DEF ReadFrame, SeeReady, SeeGone, Boot, Link, SkipFrame, wire, memory, history
      <3> QED BY <3>1, <1>1, <1>3, LogSame
    <2> QED BY <2>1, StartLog, HandleLog, CrashLog
  <1>6. BookInv'
    <2>1. CASE ~ReadFrame
      <3>1. UNCHANGED <<spos, book>>
        BY <2>1 DEF SeeReady, SeeGone, Boot, Link, SkipFrame, Start, HandleFrame, Crash, strategy
      <3>2. Longer(outbox, outbox') BY <1>5 DEF LogStep
      <3> QED BY <3>1, <3>2, <1>1, <1>3, BookKept
    <2> QED BY <2>1, ReadBook
  <1> QED BY <1>3, <1>4, <1>5, <1>6 DEF TradingInv, LogStep

LEMMA StutterInv ==
  ASSUME TradingInv, UNCHANGED vars
  PROVE  TradingInv'
  <1>1. /\ UNCHANGED <<inbox, outbox, mode, linked, recovered, orders, inputs, tpos, td, ready, lost, torn, missed>>
        /\ UNCHANGED <<spos, book>>
    BY DEF vars, wire, memory, strategy, history
  <1>2. SentInv /\ LogInv(outbox, Sent) /\ AddsUp(outbox, Sent, torn) /\ BookInv /\ outbox \in Seq(Reports) /\ TraderInv
    BY DEF TradingInv, LogInv
  <1>3. SentInv' /\ Sent' = Sent BY <1>1, <1>2, SentSame
  <1>4. Lifecycle' BY <1>1, <1>2 DEF TraderInv, Lifecycle
  <1>5. tpos' \in tpos .. Len(inbox) BY <1>1, <1>2 DEF TraderInv
  <1>6. TraderInv' BY <1>1, <1>2, <1>4, <1>5, QuietTrader DEF TraderInv
  <1>7. LogStep BY <1>1, <1>2, <1>3, LogSame
  <1>8. Longer(outbox, outbox') BY <1>7 DEF LogStep
  <1>9. BookInv' BY <1>1, <1>2, <1>3, <1>8, BookKept
  <1> QED BY <1>3, <1>6, <1>7, <1>9 DEF TradingInv, LogStep

LEMMA TradingNext ==
  ASSUME TradingInv, [Next]_vars, ~EagerCancel
  PROVE  TradingInv'
  BY InsertOrderInv, CommandInv, OtherInv, StutterInv DEF Next

LEMMA Inductive ==
  ASSUME ~EagerCancel
  PROVE  Spec => []TradingInv
  <1>1. Init => TradingInv BY InitInv
  <1>2. TradingInv /\ [Next]_vars => TradingInv' BY TradingNext
  <1> QED BY <1>1, <1>2, PTL DEF Spec

----------------------------------------------------------------------------
(***************************************************************************)
(* What follows from the invariant.                                        *)
(***************************************************************************)

LEMMA TypesHold ==
  ASSUME TradingInv
  PROVE  TypeOK
  <1>1. SentInv /\ LogInv(outbox, Sent) /\ TraderInv /\ BookInv /\ outbox \in Seq(Reports) BY DEF TradingInv, LogInv
  <1>2. \A k \in DOMAIN outbox :
          outbox[k] \in OrderType \cup [type : {"Trade"}, id : Ids, side : {"Buy", "Sell"}, price : Nat,
                                        volume : Nat \ {0}]
    <2>1. \A k \in DOMAIN outbox : outbox[k] \in Reports BY <1>1
    <2> QED BY <2>1 DEF Reports, TradeRecs
  <1>3. \A k \in DOMAIN inbox : inbox[k].type \in {"OrderInput", "OrderAction", "BlockMessage",
                                                   "BatchOrderBegin", "BatchOrderEnd"}
    <2>1. inbox \in Seq(Commands) BY <1>1 DEF SentInv
    <2>2. DOMAIN inbox = 1 .. Len(inbox) BY <2>1
    <2> QED BY <2>2, <1>1, CommandKinds
  <1>4. /\ td \in {"down", "boot", "ready"} /\ mode \in MatchModes /\ tpos \in 0 .. Len(inbox)
        /\ \A i \in DOMAIN recovered : recovered[i] \in OrderType
        /\ ready \in {"no", "due", "yes"} /\ torn \subseteq Ids /\ missed \subseteq Ids
    BY <1>1 DEF TraderInv
  <1>5. ASSUME NEW i \in DOMAIN orders PROVE orders[i] \in OrderType
    <2>1. PICK k \in 1 .. Len(outbox) : IsOrder(outbox, k, i) BY <1>1 DEF TraderInv, Entered, Says
    <2>2. outbox[k] = orders[i] BY <2>1, <1>1 DEF TraderInv, Entered, Says
    <2>3. outbox[k] \in Reports BY <1>1
    <2> QED BY <2>1, <2>2, <2>3, ReportKinds DEF IsOrder
  <1>6. Numbered(Sent) BY <1>1, SentNumbered
  <1>7. LogInv(Read, Sent) BY <1>1, <1>6, ReadInv
  <1>8. /\ Total(Cashes(Sent, Read)) \in Nat /\ Total(Volumes(Sent, Read)) \in Nat /\ Total(Spents(Sent, Read)) \in Int
    BY <1>6, <1>7, SumTypes
  <1>9. /\ book.frozen_cash = Total(Cashes(Sent, Read)) /\ book.frozen_total = Total(Volumes(Sent, Read))
        /\ book.avail = 0 - Total(Spents(Sent, Read))
        /\ book.volume \in Nat /\ book.yesterday \in Nat /\ book.frozen_yesterday \in Nat /\ spos \in 0 .. Len(outbox)
    BY <1>1 DEF BookInv, BookIs
  <1>10. book.avail \in Int /\ book.frozen_cash \in Nat /\ book.frozen_total \in Nat BY <1>8, <1>9
  <1>11. {book.volume, book.yesterday, book.frozen_total, book.frozen_yesterday} \subseteq Nat BY <1>9, <1>10
  <1> QED BY <1>2, <1>3, <1>4, <1>5, <1>9, <1>10, <1>11 DEF TypeOK

LEMMA FinalsHold ==
  ASSUME TradingInv
  PROVE  FinalStays
  <1>1. Ended(outbox) /\ outbox \in Seq(Reports) BY DEF TradingInv, LogInv
  <1>2. DOMAIN outbox = 1 .. Len(outbox) BY <1>1
  <1> QED BY <1>1, <1>2 DEF FinalStays, Ended

\* the latest report of an order
LEMMA ReportedIs ==
  ASSUME outbox \in Seq(Reports), NEW i, i \in DOMAIN LatestOrders(outbox)
  PROVE  \E m \in 1 .. Len(outbox) : /\ IsOrder(outbox, m, i) /\ LatestOrders(outbox)[i] = outbox[m]
                                     /\ \A k \in 1 .. Len(outbox) : IsOrder(outbox, k, i) => k <= m
  <1>1. PICK m \in Reporting(outbox, i) : /\ LatestOrders(outbox)[i] = outbox[m]
                                          /\ \A k \in Reporting(outbox, i) : k <= m
    BY LatestIs
  <1>2. m \in 1 .. Len(outbox) /\ IsOrder(outbox, m, i) BY DEF Reporting
  <1>3. \A k \in 1 .. Len(outbox) : IsOrder(outbox, k, i) => k <= m BY <1>1 DEF Reporting
  <1> QED BY <1>1, <1>2, <1>3

LEMMA TradedIs ==
  ASSUME NEW i
  PROVE  Traded(i) = Total(Sold(outbox, i))
  BY DEF Traded, Sold

LEMMA VolumesAdd ==
  ASSUME outbox \in Seq(Reports), AddsUp(outbox, Sent, torn), NEW x \in Sent, x.id \in DOMAIN LatestOrders(outbox),
         x.id \notin torn, ~Refused(x)
  PROVE  Traded(x.id) + LatestOrders(outbox)[x.id].left = x.volume
  <1>1. PICK m \in 1 .. Len(outbox) : IsOrder(outbox, m, x.id) /\ LatestOrders(outbox)[x.id] = outbox[m]
    BY ReportedIs
  <1>2. ~RefusedAt(outbox[m], x) BY <1>1 DEF Refused, RefusedAt
  <1>3. Total(Sold(outbox, x.id)) + outbox[m].left = x.volume BY <1>1, <1>2 DEF AddsUp
  <1> QED BY <1>1, <1>3, TradedIs

LEMMA TradesHold ==
  ASSUME TradingInv
  PROVE  TradesAddUp
  <1>1. outbox \in Seq(Reports) /\ AddsUp(outbox, Sent, torn) BY DEF TradingInv, LogInv
  <1> QED BY <1>1, VolumesAdd DEF TradesAddUp

\* what is not released of an order is what is open of it
LEMMA OpenIs ==
  ASSUME SentInv, LogInv(outbox, Sent), AddsUp(outbox, Sent, torn), NEW x \in Sent, x.id \notin torn, ~Refused(x)
  PROVE  Open(x) = x.volume - Total(Rel(outbox, x.id))
  <1> DEFINE i == x.id
             O == LatestOrders(outbox)
             r == Total(Rel(outbox, i))
             s == Total(Sold(outbox, i))
  <1>1. outbox \in Seq(Reports) /\ Ended(outbox) /\ Ordered(outbox) BY DEF LogInv
  <1>2. InputSet(Sent) BY SentSet
  <1>3. x.volume \in Nat BY <1>2, InputType
  <1>4. r \in Nat /\ s \in Nat BY <1>1, RelNat, SoldNat
  <1>5. CASE i \notin DOMAIN O
    <2>1. Silent(outbox, i) BY <1>1, <1>5, SilentIs
    <2>2. r = 0 BY <2>1, <1>1, SilentNothing
    <2>3. Open(x) = x.volume BY <1>5 DEF Open
    <2> QED BY <2>2, <2>3, <1>3
  <1>6. CASE i \in DOMAIN O
    <2>1. PICK m \in 1 .. Len(outbox) : /\ IsOrder(outbox, m, i) /\ O[i] = outbox[m]
                                        /\ \A k \in 1 .. Len(outbox) : IsOrder(outbox, k, i) => k <= m
      BY <1>1, <1>6, ReportedIs
    <2>2. s + outbox[m].left = x.volume
      <3>1. Traded(i) + O[i].left = x.volume BY <1>1, <1>6, VolumesAdd
      <3> QED BY <3>1, <2>1, TradedIs
    <2>3. ASSUME NEW k \in 1 .. Len(outbox), IsOrder(outbox, k, i), k # m PROVE ~is_final_status(outbox[k].status)
      <3>1. k < m BY <2>1, <2>3
      <3> QED BY <3>1, <2>1, <2>3, <1>1 DEF Ended, IsOrder
    <2>4. Open(x) = IF is_final_status(outbox[m].status) THEN 0 ELSE outbox[m].left BY <2>1, <1>6 DEF Open
    <2>5. outbox[m].left \in Nat BY <2>1, <1>1, ReportKinds DEF IsOrder, OrderType
    <2> HIDE DEF i, O, r, s
    <2>6. CASE is_final_status(outbox[m].status)
      <3>1. r = s + outbox[m].left BY <2>1, <2>3, <2>6, <1>1, RelEnded DEF r, s
      <3> QED BY <3>1, <2>2, <2>4, <2>5, <2>6, <1>3, <1>4 DEF r, i
    <2>7. CASE ~is_final_status(outbox[m].status)
      <3>1. \A k \in 1 .. Len(outbox) : IsOrder(outbox, k, i) => ~is_final_status(outbox[k].status) BY <2>3, <2>7
      <3>2. r = s BY <3>1, <1>1, RelOpen DEF r, s
      <3>3. outbox[m].left = x.volume - r BY <3>2, <2>2, <2>5, <1>3, <1>4
      <3> QED BY <3>3, <2>4, <2>7 DEF r, i
    <2> QED BY <2>6, <2>7
  <1> QED BY <1>5, <1>6

LEMMA CrossSums ==
  ASSUME NEW a \in Int, NEW b \in Int, NEW c \in Int, NEW d \in Int
  PROVE  (a + b) + (c + d) = (a + c) + (b + d)
  OBVIOUS

LEMMA SettledSums ==
  ASSUME NEW a \in Int, NEW b \in Int, NEW c \in Int, NEW d \in Int, a + b = c + d
  PROVE  0 - a = b - c - d
  OBVIOUS

LEMMA Entries ==
  ASSUME NEW s \in Seq(Int)
  PROVE  \A k \in 1 .. Len(s) : s[k] \in Int
  OBVIOUS

LEMMA TotalPlus ==
  ASSUME NEW s \in Seq(Int), NEW t \in Seq(Int), NEW u \in Seq(Int), Len(t) = Len(s), Len(u) = Len(s),
         \A k \in 1 .. Len(s) : u[k] = s[k] + t[k]
  PROVE  Total(u) = Total(s) + Total(t)
  <1> DEFINE n == Len(s)
  <1>1. n \in Nat OBVIOUS
  <1>2. PICK f : Sums(f, s) BY SumsExist
  <1>3. PICK g : Sums(g, t) BY SumsExist
  <1> DEFINE h == [k \in 0 .. n |-> f[k] + g[k]]
  <1>4. /\ f \in [0 .. n -> Int] /\ f[0] = 0 /\ \A k \in 1 .. n : f[k] = f[k - 1] + s[k]
    BY <1>2 DEF Sums
  <1>5. /\ g \in [0 .. n -> Int] /\ g[0] = 0 /\ \A k \in 1 .. n : g[k] = g[k - 1] + t[k]
    BY <1>3 DEF Sums
  <1>6. \A k \in 1 .. n : s[k] \in Int /\ t[k] \in Int /\ k \in 0 .. n /\ k - 1 \in 0 .. n
    <2>1. (\A k \in 1 .. Len(s) : s[k] \in Int) /\ \A k \in 1 .. Len(t) : t[k] \in Int BY Entries
    <2>2. \A k \in 1 .. n : s[k] \in Int /\ t[k] \in Int BY <2>1
    <2> HIDE DEF n
    <2> QED BY <1>1, <2>2
  <1>7. \A k \in 0 .. n : f[k] \in Int /\ g[k] \in Int BY <1>4, <1>5
  <1>8. h \in [0 .. n -> Int] /\ \A k \in 0 .. n : h[k] = f[k] + g[k] BY <1>7
  <1>9. h[0] = 0
    <2>1. 0 \in 0 .. n BY <1>1
    <2> QED BY <2>1, <1>4, <1>5, <1>8
  <1> HIDE DEF h
  <1>10. ASSUME NEW k \in 1 .. n PROVE h[k] = h[k - 1] + u[k]
    <2>1. h[k] = f[k] + g[k] /\ h[k - 1] = f[k - 1] + g[k - 1] BY <1>6, <1>8
    <2>2. f[k] = f[k - 1] + s[k] /\ g[k] = g[k - 1] + t[k] /\ u[k] = s[k] + t[k] BY <1>4, <1>5
    <2>3. f[k - 1] \in Int /\ g[k - 1] \in Int /\ s[k] \in Int /\ t[k] \in Int BY <1>6, <1>7
    <2> DEFINE a == f[k - 1]
               b == s[k]
               c == g[k - 1]
               d == t[k]
    <2>4. a \in Int /\ b \in Int /\ c \in Int /\ d \in Int BY <2>3
    <2> HIDE DEF a, b, c, d
    <2>5. (a + b) + (c + d) = (a + c) + (b + d) BY <2>4, CrossSums
    <2> QED BY <2>1, <2>2, <2>5 DEF a, b, c, d
  <1>11. Sums(h, u) BY <1>8, <1>9, <1>10 DEF Sums
  <1>12. n \in 0 .. n BY <1>1
  <1>13. Total(u) = h[n] /\ Total(s) = f[n] /\ Total(t) = g[n] BY <1>2, <1>3, <1>11, TotalIs
  <1> QED BY <1>8, <1>12, <1>13

LEMMA BooksHold ==
  ASSUME TradingInv
  PROVE  BookMatches
  <1>1. /\ SentInv /\ LogInv(outbox, Sent) /\ AddsUp(outbox, Sent, torn) /\ BookInv /\ outbox \in Seq(Reports)
        /\ Numbered(Sent) /\ InputSet(Sent)
    BY SentNumbered, SentSet DEF TradingInv, LogInv
  <1> DEFINE c == Cardinality(Sent)
             open == [i \in 1 .. c |-> Open(Input(i))]
             cash == [i \in 1 .. c |-> Input(i).price * open[i]]
             paid == [i \in 1 .. c |-> Input(i).price * Traded(i)]
             A == [i \in 1 .. c |-> IF Input(i).side = "Buy" THEN cash[i] ELSE 0]
             V == [i \in 1 .. c |-> IF Input(i).side = "Sell" THEN open[i] ELSE 0]
             B == [i \in 1 .. c |-> IF Input(i).side = "Buy" THEN paid[i] ELSE 0]
             P == [i \in 1 .. c |-> IF Input(i).side = "Sell" THEN paid[i] ELSE 0]
             W == Spents(Sent, outbox)
             U == [i \in 1 .. c |-> W[i] + P[i]]
  <1> SUFFICES ASSUME spos = Len(outbox), \A x \in Sent : x.id \notin torn /\ ~Refused(x)
               PROVE  /\ book.frozen_cash = Total(A) /\ book.frozen_total = Total(V)
                      /\ book.avail = Total(P) - Total(B) - Total(A)
    BY DEF BookMatches, SumOver
  <1>2. Read = outbox
    <2>1. Read \in Seq(Reports) /\ Len(Read) = Len(outbox) /\ \A k \in 1 .. Len(Read) : Read[k] = outbox[k]
      BY <1>1, ReadIs
    <2> QED BY <2>1, <1>1, SameSeq
  <1>3. /\ book.frozen_cash = Total(Cashes(Sent, outbox)) /\ book.frozen_total = Total(Volumes(Sent, outbox))
        /\ book.avail = 0 - Total(W)
    BY <1>1, <1>2 DEF BookInv, BookIs
  <1>4. c \in Nat /\ \A i \in 1 .. c : Input(i) \in Sent /\ Input(i).id = i /\ Input(i) = InputOf(Sent, i)
    BY <1>1, InputOfIs DEF Input, InputOf
  <1>5. ASSUME NEW i \in 1 .. c
        PROVE  LET x == Input(i)
                   r == Total(Rel(outbox, i))
                   s == Total(Sold(outbox, i))
               IN  /\ open[i] = x.volume - r /\ cash[i] = x.price * (x.volume - r) /\ paid[i] = x.price * s
                   /\ x.volume - r \in Nat /\ s \in Nat /\ x.price \in Nat /\ x.side \in {"Buy", "Sell"}
                   /\ x.volume - r \in Int /\ s \in Int
                   /\ x.price * (x.volume - r + s) = x.price * (x.volume - r) + x.price * s
                   /\ x.price * (x.volume - r) \in Int /\ x.price * s \in Int
    <2> DEFINE x == Input(i)
               r == Total(Rel(outbox, i))
               s == Total(Sold(outbox, i))
    <2>1. x \in Sent /\ x.id = i BY <1>4
    <2>2. Open(x) = x.volume - r BY <2>1, <1>1, OpenIs
    <2>3. Traded(i) = s BY TradedIs
    <2>4. r \in Nat /\ s \in Nat /\ r <= x.volume
      <3>1. Total(Rel(outbox, x.id)) <= x.volume BY <2>1, <1>1, RelBound
      <3>2. r \in Nat /\ s \in Nat BY <1>1, RelNat, SoldNat
      <3> QED BY <3>1, <3>2, <2>1
    <2>5. x.price \in Nat /\ x.volume \in Nat /\ x.side \in {"Buy", "Sell"} BY <2>1, <1>1, InputType
    <2>6. open[i] = x.volume - r BY <2>2
    <2>7. cash[i] = x.price * open[i] OBVIOUS
    <2>8. paid[i] = x.price * s BY <2>3
    <2> HIDE DEF x, r, s, open, cash, paid
    <2>9. x.volume - r \in Nat BY <2>4, <2>5
    <2>10. x.volume - r \in Int /\ s \in Int BY <2>4, <2>9
    <2>11. /\ x.price * (x.volume - r + s) = x.price * (x.volume - r) + x.price * s
           /\ x.price * (x.volume - r) \in Int /\ x.price * s \in Int
      BY <2>5, <2>10, Difference
    <2>12. cash[i] = x.price * (x.volume - r) BY <2>6, <2>7
    <2> QED BY <2>4, <2>5, <2>6, <2>8, <2>9, <2>10, <2>11, <2>12 DEF x, r, s
  <1>6. ASSUME NEW i \in 1 .. c
        PROVE  /\ A[i] = FrozenCash(Input(i), outbox) /\ V[i] = FrozenVolume(Input(i), outbox)
               /\ W[i] = Spent(Input(i), outbox)
               /\ W[i] + P[i] = B[i] + A[i]
               /\ A[i] \in Int /\ B[i] \in Int /\ P[i] \in Int /\ W[i] \in Int
    <2> DEFINE x == Input(i)
               r == Total(Rel(outbox, i))
               s == Total(Sold(outbox, i))
    <2>1. /\ open[i] = x.volume - r /\ cash[i] = x.price * (x.volume - r) /\ paid[i] = x.price * s
          /\ x.volume - r \in Nat /\ s \in Nat /\ x.price \in Nat /\ x.side \in {"Buy", "Sell"}
          /\ x.price * (x.volume - r + s) = x.price * (x.volume - r) + x.price * s
          /\ x.price * (x.volume - r) \in Int /\ x.price * s \in Int
      BY <1>5
    <2>2. x.id = i BY <1>4
    <2>3. W[i] = Spent(x, outbox) BY <1>4 DEF Spents
    <2> HIDE DEF open, cash, paid, W
    <2>4. /\ A[i] = IF x.side = "Buy" THEN cash[i] ELSE 0
          /\ V[i] = IF x.side = "Sell" THEN open[i] ELSE 0
          /\ B[i] = IF x.side = "Buy" THEN paid[i] ELSE 0
          /\ P[i] = IF x.side = "Sell" THEN paid[i] ELSE 0
      OBVIOUS
    <2>5. /\ FrozenCash(x, outbox) = IF x.side = "Buy" THEN x.price * (x.volume - r) ELSE 0
          /\ FrozenVolume(x, outbox) = IF x.side = "Sell" THEN x.volume - r ELSE 0
          /\ Spent(x, outbox) = IF x.side = "Buy" THEN x.price * (x.volume - r + s) ELSE 0 - x.price * s
      BY <2>2 DEF FrozenCash, FrozenVolume, Spent
    <2> HIDE DEF A, V, B, P, x, r, s
    <2>6. A[i] = FrozenCash(x, outbox) /\ V[i] = FrozenVolume(x, outbox) BY <2>1, <2>4, <2>5
    <2> DEFINE y == x.price * (x.volume - r)
               z == x.price * s
    <2>7. /\ y \in Int /\ z \in Int
          /\ A[i] = (IF x.side = "Buy" THEN y ELSE 0) /\ B[i] = (IF x.side = "Buy" THEN z ELSE 0)
          /\ P[i] = (IF x.side = "Sell" THEN z ELSE 0) /\ W[i] = IF x.side = "Buy" THEN y + z ELSE 0 - z
      BY <2>1, <2>3, <2>4, <2>5
    <2> HIDE DEF y, z
    <2>8. W[i] + P[i] = B[i] + A[i] /\ A[i] \in Int /\ B[i] \in Int /\ P[i] \in Int /\ W[i] \in Int
      <3>1. CASE x.side = "Buy"
        <4>1. A[i] = y /\ B[i] = z /\ P[i] = 0 /\ W[i] = y + z BY <3>1, <2>7
        <4> QED BY <4>1, <2>7
      <3>2. CASE x.side = "Sell"
        <4>1. A[i] = 0 /\ B[i] = 0 /\ P[i] = z /\ W[i] = 0 - z BY <3>2, <2>7
        <4> QED BY <4>1, <2>7
      <3> QED BY <2>1, <3>1, <3>2
    <2> QED BY <2>3, <2>6, <2>8 DEF x
  <1>7. LogInv(outbox, Sent) /\ W \in Seq(Int) /\ Len(W) = c BY <1>1, SumTypes
  <1>8. A = Cashes(Sent, outbox) /\ V = Volumes(Sent, outbox)
    <2>1. /\ Cashes(Sent, outbox) = [i \in 1 .. c |-> FrozenCash(InputOf(Sent, i), outbox)]
          /\ Volumes(Sent, outbox) = [i \in 1 .. c |-> FrozenVolume(InputOf(Sent, i), outbox)]
      BY DEF Cashes, Volumes
    <2>2. DOMAIN A = 1 .. c /\ DOMAIN V = 1 .. c /\ A = [i \in 1 .. c |-> A[i]] /\ V = [i \in 1 .. c |-> V[i]] OBVIOUS
    <2> HIDE DEF A, V, c
    <2> QED BY <2>1, <2>2, <1>4, <1>6
  <1>9. A \in [1 .. c -> Int] /\ B \in [1 .. c -> Int] /\ P \in [1 .. c -> Int]
    <2>1. A = [i \in 1 .. c |-> A[i]] /\ B = [i \in 1 .. c |-> B[i]] /\ P = [i \in 1 .. c |-> P[i]] OBVIOUS
    <2> HIDE DEF A, B, P, c
    <2> QED BY <2>1, <1>6
  <1>10. U \in [1 .. c -> Int] /\ \A i \in 1 .. c : U[i] = W[i] + P[i] /\ U[i] = B[i] + A[i]
    <2> HIDE DEF A, B, P, W, c
    <2>1. \A i \in 1 .. c : U[i] = W[i] + P[i] OBVIOUS
    <2>2. \A i \in 1 .. c : W[i] + P[i] \in Int BY <1>6
    <2> QED BY <2>1, <2>2, <1>6
  <1> HIDE DEF A, V, B, P, W, U, c
  <1>11. /\ A \in Seq(Int) /\ Len(A) = c /\ B \in Seq(Int) /\ Len(B) = c
         /\ P \in Seq(Int) /\ Len(P) = c /\ U \in Seq(Int) /\ Len(U) = c
    BY <1>4, <1>9, <1>10
  <1>12. Total(U) = Total(W) + Total(P)
    <2>1. \A k \in 1 .. Len(W) : U[k] = W[k] + P[k] BY <1>7, <1>10
    <2> QED BY <2>1, <1>7, <1>11, TotalPlus
  <1>13. Total(U) = Total(B) + Total(A)
    <2>1. \A k \in 1 .. Len(B) : U[k] = B[k] + A[k] BY <1>11, <1>10
    <2>2. Len(A) = Len(B) /\ Len(U) = Len(B) BY <1>11
    <2> QED BY <2>1, <2>2, <1>11, TotalPlus
  <1>14. Total(A) \in Int /\ Total(B) \in Int /\ Total(P) \in Int /\ Total(W) \in Int BY <1>7, <1>11, TotalInt
  <1>15. 0 - Total(W) = Total(P) - Total(B) - Total(A)
    <2>1. Total(W) + Total(P) = Total(B) + Total(A) BY <1>12, <1>13
    <2> QED BY <2>1, <1>14, SettledSums
  <1> QED BY <1>3, <1>8, <1>15

----------------------------------------------------------------------------
\* Whatever the strategy sends and however often the trader crashes, every variable keeps its type:
\* what the book holds frozen and what it released never goes below zero (apply_order_input,
\* apply_order, apply_trade).
THEOREM TradingTypes ==
  ASSUME ~EagerCancel
  PROVE  Spec => []TypeOK
  BY Inductive, TypesHold, PTL

\* Once an order was reported final nothing more is reported of it: insert_order_, cancel_order and
\* recover never report two ends of one order, with any number of crashes between them, as long as
\* the strategy cancels only orders it has heard of (OrderAction of RuntimeContext::cancel_order).
THEOREM FinalsStay ==
  ASSUME ~EagerCancel
  PROVE  Spec => []FinalStays
  BY Inductive, FinalsHold, PTL

\* In every match mode the trades of an order and its volume_left add up to its volume, also after
\* cancels and recoveries, but for orders cut short by a crash or refused for want of their block
\* (insert_order_, Split, cancel_order, recover).
THEOREM TradesSum ==
  ASSUME ~EagerCancel
  PROVE  Spec => []TradesAddUp
  BY Inductive, TradesHold, PTL

\* A strategy that has read everything has frozen in its book exactly what is open or unanswered,
\* and has paid and received exactly what was traded (apply_order_input, apply_order, apply_trade).
THEOREM BookAgrees ==
  ASSUME ~EagerCancel
  PROVE  Spec => []BookMatches
  BY Inductive, BooksHold, PTL
============================================================================
