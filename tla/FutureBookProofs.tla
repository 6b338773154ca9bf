-------------------------- MODULE FutureBookProofs --------------------------
(***************************************************************************)
(* Machine-checked proofs about FutureBook, for every set of orders,       *)
(* prices, holdings, fees and bounds.                                      *)
(***************************************************************************)
EXTENDS FutureBook, WellFoundedInduction, TLAPS

(***************************************************************************)
(* Recursion and sums.  Facts about recursive functions are proved from    *)
(* the least natural number at which they would fail.                      *)
(***************************************************************************)

LEMMA LeastNat ==
  ASSUME NEW T \in SUBSET Nat, T # {}
  PROVE  \E x \in T : \A y \in T : x <= y
  <1>1. IsWellFoundedOn(OpToRel(<, Nat), Nat) BY NatLessThanWellFounded
  <1>2. PICK x \in T : \A y \in T : ~(<<y, x>> \in OpToRel(<, Nat)) BY <1>1, WFMin
  <1>3. \A y \in T : ~(y < x) BY <1>2 DEF OpToRel
  <1>4. \A y \in T : x <= y BY <1>3
  <1> QED BY <1>4

\* some function on m .. n starts with b and goes on with F
Recursive(B, b, m, n, F) ==
  \E g \in [m .. n -> B] : \A k \in m .. n : g[k] = IF k = m THEN b ELSE F[k][g[k - 1]]

LEMMA Recursion ==
  ASSUME NEW B, NEW b \in B, NEW m \in Nat, NEW n \in Nat, NEW F \in [Nat -> [B -> B]]
  PROVE  Recursive(B, b, m, n, F)
  <1> USE DEF Recursive
  <1> DEFINE Good(j) == Recursive(B, b, m, j, F)
  <1> DEFINE T == {j \in Nat : ~Good(j)}
  <1>1. SUFFICES ASSUME T # {} PROVE FALSE OBVIOUS
  <1>2. PICK j \in T : \A i \in T : j <= i
    <2>1. T \in SUBSET Nat OBVIOUS
    <2> HIDE DEF T
    <2> QED BY <1>1, <2>1, LeastNat
  <1>3. j \in Nat /\ ~Good(j) OBVIOUS
  <1>4. CASE j < m
    <2>1. m .. j = {} BY <1>3, <1>4
    <2>2. [k \in {} |-> b] \in [{} -> B] OBVIOUS
    <2>3. Good(j) BY <2>1, <2>2
    <2> QED BY <2>3, <1>3
  <1>5. CASE j = m
    <2>1. m .. j = {m} BY <1>3, <1>5
    <2>2. [k \in {m} |-> b] \in [{m} -> B] OBVIOUS
    <2>3. \A k \in {m} : [i \in {m} |-> b][k] = IF k = m THEN b ELSE F[k][[i \in {m} |-> b][k - 1]] OBVIOUS
    <2>4. Good(j) BY <2>1, <2>2, <2>3
    <2> QED BY <2>4, <1>3
  <1>6. CASE j > m
    <2>1. j - 1 \in Nat /\ j - 1 \notin T BY <1>2, <1>3, <1>6
    <2>2. PICK g \in [m .. j - 1 -> B] : \A k \in m .. j - 1 : g[k] = IF k = m THEN b ELSE F[k][g[k - 1]]
      BY <2>1
    <2> DEFINE h == [k \in m .. j |-> IF k = j THEN F[j][g[j - 1]] ELSE g[k]]
    <2>3. j - 1 \in m .. j - 1 BY <1>3, <1>6
    <2>4. g[j - 1] \in B BY <2>2, <2>3
    <2>5. h \in [m .. j -> B]
      <3>1. \A k \in m .. j : k # j => k \in m .. j - 1 BY <1>3
      <3> QED BY <3>1, <2>4, <1>3
    <2>6. ASSUME NEW k \in m .. j PROVE h[k] = IF k = m THEN b ELSE F[k][h[k - 1]]
      <3>1. CASE k = j
        <4>1. h[j - 1] = g[j - 1] BY <2>3, <1>3
        <4>2. h[j] = F[j][g[j - 1]] BY <1>3, <1>6
        <4> QED BY <4>1, <4>2, <3>1, <1>6
      <3>2. CASE k # j
        <4>1. k \in m .. j - 1 BY <3>2, <1>3
        <4>2. h[k] = g[k] BY <3>2
        <4>3. g[k] = IF k = m THEN b ELSE F[k][g[k - 1]] BY <2>2, <4>1
        <4>4. k # m => h[k - 1] = g[k - 1] BY <4>1, <1>3
        <4> QED BY <4>2, <4>3, <4>4
      <3> QED BY <3>1, <3>2
    <2>7. Good(j)
      <3> HIDE DEF h
      <3> QED BY <2>5, <2>6
    <2> QED BY <2>7, <1>3
  <1> QED BY <1>3, <1>4, <1>5, <1>6

\* g holds the sums of the first elements of s
Sums(g, s) == /\ g \in [0 .. Len(s) -> Int]
              /\ g[0] = 0
              /\ \A k \in 1 .. Len(s) : g[k] = g[k - 1] + s[k]

LEMMA SumsExist ==
  ASSUME NEW s \in Seq(Int)
  PROVE  \E g : Sums(g, s)
  <1> DEFINE F == [k \in Nat |-> [x \in Int |-> IF k \in 1 .. Len(s) THEN x + s[k] ELSE x]]
  <1>1. Len(s) \in Nat OBVIOUS
  <1>2. F \in [Nat -> [Int -> Int]] OBVIOUS
  <1>3. PICK g \in [0 .. Len(s) -> Int] :
          \A k \in 0 .. Len(s) : g[k] = IF k = 0 THEN 0 ELSE F[k][g[k - 1]]
    <2> HIDE DEF F
    <2>1. 0 \in Int /\ 0 \in Nat OBVIOUS
    <2>2. Recursive(Int, 0, 0, Len(s), F) BY <1>1, <1>2, <2>1, Recursion, Zenon
    <2> QED BY <2>2 DEF Recursive
  <1>4. \A k \in 1 .. Len(s) : F[k][g[k - 1]] = g[k - 1] + s[k]
    <2> TAKE k \in 1 .. Len(s)
    <2>1. k - 1 \in 0 .. Len(s) /\ k \in Nat /\ s[k] \in Int OBVIOUS
    <2>2. g[k - 1] \in Int BY <2>1
    <2> QED BY <2>1, <2>2
  <1> HIDE DEF F
  <1>5. g[0] = 0 BY <1>1, <1>3, SMTT(30)
  <1>6. \A k \in 1 .. Len(s) : g[k] = g[k - 1] + s[k]
    <2> TAKE k \in 1 .. Len(s)
    <2>1. k \in 0 .. Len(s) /\ k # 0 BY <1>1
    <2>2. g[k] = F[k][g[k - 1]] BY <1>3, <2>1
    <2> QED BY <2>2, <1>4
  <1> QED BY <1>5, <1>6 DEF Sums

LEMMA SumsAgree ==
  ASSUME NEW s \in Seq(Int), NEW g, NEW f, Sums(g, s),
         \A k \in 0 .. Len(s) : f[k] = IF k = 0 THEN 0 ELSE f[k - 1] + s[k]
  PROVE  f[Len(s)] = g[Len(s)]
  <1> DEFINE D == {k \in 0 .. Len(s) : g[k] # f[k]}
  <1>1. D \in SUBSET Nat /\ Len(s) \in Nat OBVIOUS
  <1>2. SUFFICES ASSUME D # {} PROVE FALSE BY <1>1
  <1>3. PICK k \in D : \A i \in D : k <= i
    <2> HIDE DEF D
    <2> QED BY <1>1, <1>2, LeastNat
  <1>4. k # 0 BY <1>1 DEF Sums
  <1>5. k - 1 \in 0 .. Len(s) /\ k - 1 \notin D BY <1>1, <1>3, <1>4
  <1> QED BY <1>1, <1>4, <1>5 DEF Sums

LEMMA TotalIs ==
  ASSUME NEW s \in Seq(Int), NEW g, Sums(g, s)
  PROVE  Total(s) = g[Len(s)]
  <1> DEFINE P(f) == f = [k \in 0 .. Len(s) |-> IF k = 0 THEN 0 ELSE f[k - 1] + s[k]]
  <1>1. Len(s) \in Nat OBVIOUS
  <1>2. P(g)
    <2>1. \A k \in 0 .. Len(s) : g[k] = IF k = 0 THEN 0 ELSE g[k - 1] + s[k] BY <1>1 DEF Sums
    <2>2. g \in [0 .. Len(s) -> Int] BY DEF Sums
    <2> QED BY <2>1, <2>2
  <1>3. P(CHOOSE f : P(f))
    <2> HIDE DEF P
    <2> QED BY <1>2
  <1>4. Total(s) = (CHOOSE f : P(f))[Len(s)] BY DEF Total
  <1>5. \A f : P(f) => \A k \in 0 .. Len(s) : f[k] = IF k = 0 THEN 0 ELSE f[k - 1] + s[k] OBVIOUS
  <1> HIDE DEF P
  <1> QED BY <1>3, <1>4, <1>5, SumsAgree

LEMMA IntSeqOf ==
  ASSUME NEW n \in Nat, NEW f \in [1 .. n -> Int]
  PROVE  f \in Seq(Int) /\ Len(f) = n
  OBVIOUS

LEMMA ConcatOf ==
  ASSUME NEW S, NEW a \in Seq(S), NEW b \in Seq(S)
  PROVE  a \o b \in Seq(S) /\ Len(a \o b) = Len(a) + Len(b)
  OBVIOUS

Joined(S, a, b, t) ==
  /\ t \in Seq(S) /\ Len(t) = Len(a) + Len(b)
  /\ \A i \in 1 .. Len(a) : t[i] = a[i]
  /\ \A i \in 1 .. Len(b) : t[Len(a) + i] = b[i]

LEMMA ConcatAt ==
  ASSUME NEW S, NEW a \in Seq(S), NEW b \in Seq(S)
  PROVE  Joined(S, a, b, a \o b)
  BY DEF Joined

LEMMA SameSeq ==
  ASSUME NEW S, NEW a \in Seq(S), NEW b \in Seq(S), Len(a) = Len(b), \A i \in 1 .. Len(a) : a[i] = b[i]
  PROVE  a = b
  OBVIOUS

LEMMA ConcatAssoc ==
  ASSUME NEW S, NEW a \in Seq(S), NEW b \in Seq(S), NEW c \in Seq(S)
  PROVE  (a \o b) \o c = a \o (b \o c)
  <1> DEFINE ab == a \o b
             bc == b \o c
             t == ab \o c
             u == a \o bc
  <1>1. Len(a) \in Nat /\ Len(b) \in Nat /\ Len(c) \in Nat OBVIOUS
  <1>2. /\ ab \in Seq(S) /\ Len(ab) = Len(a) + Len(b)
        /\ \A i \in 1 .. Len(a) : ab[i] = a[i]
        /\ \A i \in 1 .. Len(b) : ab[Len(a) + i] = b[i]
    OBVIOUS
  <1>3. /\ bc \in Seq(S) /\ Len(bc) = Len(b) + Len(c)
        /\ \A i \in 1 .. Len(b) : bc[i] = b[i]
        /\ \A i \in 1 .. Len(c) : bc[Len(b) + i] = c[i]
    OBVIOUS
  <1> HIDE DEF ab, bc
  <1>4. /\ t \in Seq(S) /\ Len(t) = Len(ab) + Len(c)
        /\ \A i \in 1 .. Len(ab) : t[i] = ab[i]
        /\ \A i \in 1 .. Len(c) : t[Len(ab) + i] = c[i]
    <2>1. Joined(S, ab, c, t) BY <1>2, ConcatAt
    <2> HIDE DEF t
    <2> QED BY <2>1 DEF Joined
  <1>5. /\ u \in Seq(S) /\ Len(u) = Len(a) + Len(bc)
        /\ \A i \in 1 .. Len(a) : u[i] = a[i]
        /\ \A i \in 1 .. Len(bc) : u[Len(a) + i] = bc[i]
    <2>1. Joined(S, a, bc, u) BY <1>3, ConcatAt
    <2> HIDE DEF u
    <2> QED BY <2>1 DEF Joined
  <1> HIDE DEF t, u
  <1>6. ASSUME NEW i \in 1 .. Len(t) PROVE t[i] = u[i]
    <2>1. CASE i <= Len(a)
      <3>1. i \in 1 .. Len(a) /\ i \in 1 .. Len(ab) BY <2>1, <1>1, <1>2
      <3> QED BY <3>1, <1>2, <1>4, <1>5
    <2>2. CASE i > Len(a) /\ i <= Len(a) + Len(b)
      <3> DEFINE j == i - Len(a)
      <3>1. i \in 1 .. Len(ab) /\ j \in 1 .. Len(b) /\ j \in 1 .. Len(bc) /\ i = Len(a) + j
        BY <2>2, <1>1, <1>2, <1>3
      <3> HIDE DEF j
      <3>2. t[i] = ab[i] /\ ab[i] = b[j] BY <3>1, <1>2, <1>4
      <3>3. u[i] = bc[j] /\ bc[j] = b[j] BY <3>1, <1>3, <1>5
      <3> QED BY <3>2, <3>3
    <2>3. CASE i > Len(a) + Len(b)
      <3> DEFINE j == i - Len(ab)
                 k == Len(b) + j
      <3>1. j \in 1 .. Len(c) /\ i = Len(ab) + j BY <2>3, <1>1, <1>2, <1>4
      <3>4. k \in 1 .. Len(bc) /\ i = Len(a) + k
        <4> HIDE DEF j
        <4> QED BY <3>1, <1>1, <1>2, <1>3
      <3>2. bc[k] = c[j] BY <3>1, <1>3
      <3> HIDE DEF j, k
      <3>3. t[i] = c[j] BY <3>1, <1>4
      <3>5. u[i] = bc[k] BY <3>4, <1>5
      <3> QED BY <3>2, <3>3, <3>5
    <2> QED BY <2>1, <2>2, <2>3, <1>1
  <1>7. t = u BY <1>1, <1>2, <1>3, <1>4, <1>5, <1>6, SameSeq, SMTT(30)
  <1> QED BY <1>7 DEF t, u, ab, bc

LEMMA TotalInt ==
  ASSUME NEW s \in Seq(Int)
  PROVE  Total(s) \in Int
  <1>1. PICK g : Sums(g, s) BY SumsExist
  <1>2. g[Len(s)] \in Int BY <1>1 DEF Sums
  <1> QED BY <1>1, <1>2, TotalIs

LEMMA TotalEmpty == Total(<<>>) = 0
  <1>1. <<>> \in Seq(Int) /\ Len(<<>>) = 0 OBVIOUS
  <1>2. PICK g : Sums(g, <<>>) BY <1>1, SumsExist
  <1>3. g[0] = 0 BY <1>2 DEF Sums
  <1> QED BY <1>1, <1>2, <1>3, TotalIs

LEMMA TotalAppend ==
  ASSUME NEW s \in Seq(Int), NEW x \in Int
  PROVE  Total(Append(s, x)) = Total(s) + x
  <1>1. PICK g : Sums(g, s) BY SumsExist
  <1> DEFINE n == Len(s)
             h == [k \in 0 .. n + 1 |-> IF k = n + 1 THEN g[n] + x ELSE g[k]]
             t == Append(s, x)
  <1>2. n \in Nat /\ t \in Seq(Int) /\ Len(t) = n + 1 OBVIOUS
  <1>3. t[n + 1] = x /\ \A k \in 1 .. n : t[k] = s[k] OBVIOUS
  <1>4. g \in [0 .. n -> Int] /\ g[0] = 0 BY <1>1 DEF Sums
  <1>5. h \in [0 .. n + 1 -> Int]
    <2>1. g[n] \in Int BY <1>2, <1>4
    <2>2. \A k \in 0 .. n + 1 : k # n + 1 => k \in 0 .. n BY <1>2
    <2> QED BY <1>2, <1>4, <2>1, <2>2
  <1>6. h[0] = 0 BY <1>2, <1>4
  <1>7. ASSUME NEW k \in 1 .. n + 1 PROVE h[k] = h[k - 1] + t[k]
    <2>1. CASE k = n + 1
      <3>1. h[k] = g[n] + x /\ h[k - 1] = g[n] BY <2>1, <1>2
      <3> QED BY <3>1, <2>1, <1>3
    <2>2. CASE k # n + 1
      <3>1. k \in 1 .. n /\ k - 1 \in 0 .. n BY <2>2, <1>2
      <3>2. h[k] = g[k] /\ h[k - 1] = g[k - 1] BY <3>1, <1>2
      <3> QED BY <3>1, <3>2, <1>1, <1>3 DEF Sums
    <2> QED BY <2>1, <2>2
  <1>8. Sums(h, t) BY <1>2, <1>5, <1>6, <1>7 DEF Sums
  <1>9. h[n + 1] = g[n] + x BY <1>2
  <1> HIDE DEF h
  <1>a. Total(t) = h[Len(t)] BY <1>2, <1>8, TotalIs
  <1>b. Total(s) = g[Len(s)] BY <1>1, TotalIs
  <1> QED BY <1>2, <1>9, <1>a, <1>b

LEMMA TotalExcept ==
  ASSUME NEW s \in Seq(Int), NEW i \in 1 .. Len(s), NEW x \in Int
  PROVE  Total([s EXCEPT ![i] = x]) = Total(s) - s[i] + x
  <1>1. PICK g : Sums(g, s) BY SumsExist
  <1> DEFINE n == Len(s)
             h == [k \in 0 .. n |-> IF k < i THEN g[k] ELSE g[k] - s[i] + x]
             t == [s EXCEPT ![i] = x]
  <1>2. n \in Nat /\ t \in Seq(Int) /\ Len(t) = n /\ s[i] \in Int OBVIOUS
  <1>3. t[i] = x /\ \A k \in 1 .. n : k # i => t[k] = s[k] OBVIOUS
  <1>4. g \in [0 .. n -> Int] /\ g[0] = 0 BY <1>1 DEF Sums
  <1>5. h \in [0 .. n -> Int] BY <1>2, <1>4
  <1>6. h[0] = 0 BY <1>2, <1>4
  <1>7. ASSUME NEW k \in 1 .. n PROVE h[k] = h[k - 1] + t[k]
    <2>1. k \in 0 .. n /\ k - 1 \in 0 .. n /\ s[k] \in Int BY <1>2
    <2>2. g[k] = g[k - 1] + s[k] /\ g[k - 1] \in Int /\ g[k] \in Int BY <1>1, <1>4, <2>1 DEF Sums
    <2>3. CASE k < i
      <3>1. h[k] = g[k] /\ h[k - 1] = g[k - 1] BY <2>1, <2>3
      <3> QED BY <3>1, <2>2, <2>3, <1>3
    <2>4. CASE k = i
      <3>1. h[k] = g[k] - s[i] + x /\ h[k - 1] = g[k - 1] BY <2>1, <2>4
      <3> QED BY <3>1, <2>2, <2>4, <1>2, <1>3
    <2>5. CASE k > i
      <3>1. h[k] = g[k] - s[i] + x /\ h[k - 1] = g[k - 1] - s[i] + x BY <2>1, <2>5
      <3>2. t[k] = s[k] BY <2>5, <1>3
      <3>3. g[k] - s[i] + x = (g[k - 1] - s[i] + x) + s[k] BY <2>1, <2>2, <1>2, SMTT(30)
      <3> HIDE DEF h, t
      <3> QED BY <3>1, <3>2, <3>3
    <2> QED BY <2>3, <2>4, <2>5
  <1>8. Sums(h, t) BY <1>2, <1>5, <1>6, <1>7 DEF Sums
  <1>9. h[n] = g[n] - s[i] + x BY <1>2
  <1> HIDE DEF h
  <1>a. Total(t) = h[Len(t)] BY <1>2, <1>8, TotalIs
  <1>b. Total(s) = g[Len(s)] BY <1>1, TotalIs
  <1> QED BY <1>2, <1>9, <1>a, <1>b

LEMMA TotalTail ==
  ASSUME NEW s \in Seq(Int), s # <<>>
  PROVE  Total(s) = s[1] + Total(Tail(s))
  <1>1. PICK g : Sums(g, s) BY SumsExist
  <1> DEFINE n == Len(s)
             t == Tail(s)
             h == [k \in 0 .. n - 1 |-> g[k + 1] - s[1]]
  <1>2. n \in Nat /\ n > 0 /\ t \in Seq(Int) /\ Len(t) = n - 1 /\ s[1] \in Int OBVIOUS
  <1>3. \A k \in 1 .. n - 1 : t[k] = s[k + 1] OBVIOUS
  <1>4. g \in [0 .. n -> Int] /\ g[0] = 0 BY <1>1 DEF Sums
  <1>5. h \in [0 .. n - 1 -> Int]
    <2>1. \A k \in 0 .. n - 1 : k + 1 \in 0 .. n BY <1>2
    <2>2. \A k \in 0 .. n - 1 : g[k + 1] \in Int BY <1>4, <2>1
    <2> QED BY <1>2, <2>2
  <1>6. h[0] = 0
    <2>1. g[1] = g[0] + s[1] BY <1>1, <1>2 DEF Sums
    <2> QED BY <2>1, <1>2, <1>4
  <1>7. ASSUME NEW k \in 1 .. n - 1 PROVE h[k] = h[k - 1] + t[k]
    <2>1. k + 1 \in 1 .. n /\ k \in 0 .. n /\ s[k + 1] \in Int BY <1>2
    <2>2. g[k + 1] = g[(k + 1) - 1] + s[k + 1] BY <1>1, <2>1 DEF Sums
    <2>3. g[k + 1] = g[k] + s[k + 1] /\ g[k] \in Int BY <2>1, <2>2, <1>4
    <2>4. h[k] = g[k + 1] - s[1] BY <1>2
    <2>5. h[k - 1] = g[(k - 1) + 1] - s[1] BY <1>2
    <2>6. h[k - 1] = g[k] - s[1] BY <2>5, <1>2
    <2> QED BY <2>1, <2>3, <2>4, <2>6, <1>2, <1>3
  <1>8. Sums(h, t) BY <1>2, <1>5, <1>6, <1>7 DEF Sums
  <1>9. h[n - 1] = g[n] - s[1] /\ g[n] \in Int BY <1>2, <1>4, SMTT(30)
  <1> HIDE DEF h
  <1>a. Total(t) = h[Len(t)] BY <1>2, <1>8, TotalIs
  <1>b. Total(s) = g[Len(s)] BY <1>1, TotalIs
  <1> QED BY <1>2, <1>9, <1>a, <1>b

LEMMA TotalConcat ==
  ASSUME NEW s \in Seq(Int), NEW t \in Seq(Int)
  PROVE  Total(s \o t) = Total(s) + Total(t)
  <1>1. PICK g : Sums(g, s) BY SumsExist
  <1>2. PICK f : Sums(f, t) BY SumsExist
  <1> DEFINE n == Len(s)
             m == Len(t)
             u == s \o t
             h == [k \in 0 .. n + m |-> IF k <= n THEN g[k] ELSE g[n] + f[k - n]]
  <1>3. n \in Nat /\ m \in Nat /\ u \in Seq(Int) /\ Len(u) = n + m OBVIOUS
  <1>4. \A k \in 1 .. n + m : u[k] = IF k <= n THEN s[k] ELSE t[k - n] OBVIOUS
  <1>5. g \in [0 .. n -> Int] /\ g[0] = 0 BY <1>1 DEF Sums
  <1>6. f \in [0 .. m -> Int] /\ f[0] = 0 BY <1>2 DEF Sums
  <1>7. h \in [0 .. n + m -> Int]
    <2>1. ASSUME NEW k \in 0 .. n + m PROVE (IF k <= n THEN g[k] ELSE g[n] + f[k - n]) \in Int
      <3>1. n \in 0 .. n /\ g[n] \in Int BY <1>3, <1>5, SMTT(30)
      <3>2. CASE k <= n
        <4>1. k \in 0 .. n BY <3>2, <1>3
        <4> QED BY <4>1, <3>2, <1>5
      <3>3. CASE ~(k <= n)
        <4>1. k - n \in 0 .. m BY <3>3, <1>3
        <4>2. f[k - n] \in Int BY <4>1, <1>6
        <4> QED BY <4>2, <3>1, <3>3, SMTT(30)
      <3> QED BY <3>2, <3>3
    <2> QED BY <2>1
  <1>8. h[0] = 0 BY <1>3, <1>5
  <1>9. ASSUME NEW k \in 1 .. n + m PROVE h[k] = h[k - 1] + u[k]
    <2>1. k \in 0 .. n + m /\ k - 1 \in 0 .. n + m BY <1>3
    <2>2. CASE k <= n
      <3>1. k \in 1 .. n /\ h[k] = g[k] /\ h[k - 1] = g[k - 1] BY <2>1, <2>2, <1>3
      <3> QED BY <3>1, <2>2, <1>1, <1>4 DEF Sums
    <2>3. CASE k > n
      <3>1. k - n \in 1 .. m /\ (k - n) - 1 \in 0 .. m /\ k - n \in 0 .. m BY <2>3, <1>3
      <3>2. f[k - n] = f[(k - n) - 1] + t[k - n] BY <3>1, <1>2 DEF Sums
      <3>3. h[k] = g[n] + f[k - n] BY <2>1, <2>3, <1>3
      <3>4. h[k - 1] = g[n] + f[(k - n) - 1]
        <4>1. CASE k = n + 1
          <5>1. (k - n) - 1 = 0 /\ k - 1 = n BY <4>1, <1>3
          <5>2. h[k - 1] = g[n] BY <5>1, <2>1, <1>3
          <5>3. f[(k - n) - 1] = 0 BY <5>1, <1>6
          <5>4. g[n] \in Int BY <1>3, <1>5
          <5> QED BY <5>2, <5>3, <5>4
        <4>2. CASE k > n + 1
          <5>1. (k - 1) - n = (k - n) - 1 /\ ~(k - 1 <= n) BY <4>2, <1>3
          <5>2. h[k - 1] = g[n] + f[(k - 1) - n] BY <5>1, <2>1
          <5> QED BY <5>1, <5>2
        <4> QED BY <4>1, <4>2, <2>3, <1>3
      <3>5. g[n] \in Int /\ f[(k - n) - 1] \in Int /\ f[k - n] \in Int /\ t[k - n] \in Int
        <4>1. f[(k - n) - 1] \in Int /\ f[k - n] \in Int BY <3>1, <1>6
        <4>2. g[n] \in Int BY <1>3, <1>5
        <4>3. t[k - n] \in Int BY <3>1
        <4> QED BY <4>1, <4>2, <4>3
      <3>6. u[k] = t[k - n] BY <2>3, <1>3, <1>4
      <3> HIDE DEF h, u
      <3> QED BY <3>2, <3>3, <3>4, <3>5, <3>6
    <2> QED BY <2>2, <2>3, <1>3
  <1>10. Sums(h, u) BY <1>3, <1>7, <1>8, <1>9 DEF Sums
  <1>11. h[n + m] = g[n] + f[m]
    <2>1. CASE m = 0 BY <2>1, <1>3, <1>5, <1>6
    <2>2. CASE m # 0
      <3>1. ~(n + m <= n) /\ (n + m) - n = m /\ n + m \in 0 .. n + m BY <2>2, <1>3
      <3>2. h[n + m] = g[n] + f[(n + m) - n] BY <3>1
      <3> QED BY <3>1, <3>2
    <2> QED BY <2>1, <2>2
  <1> HIDE DEF h
  <1>a. Total(u) = h[Len(u)] BY <1>3, <1>10, TotalIs
  <1>b. Total(s) = g[Len(s)] /\ Total(t) = f[Len(t)] BY <1>1, <1>2, TotalIs
  <1> QED BY <1>3, <1>11, <1>a, <1>b

LEMMA TotalZero ==
  ASSUME NEW s \in Seq(Int), \A k \in 1 .. Len(s) : s[k] = 0
  PROVE  Total(s) = 0
  <1> DEFINE h == [k \in 0 .. Len(s) |-> 0]
  <1>1. Len(s) \in Nat OBVIOUS
  <1>2. Sums(h, s)
    <2>1. h \in [0 .. Len(s) -> Int] /\ h[0] = 0 BY <1>1
    <2>2. ASSUME NEW k \in 1 .. Len(s) PROVE h[k] = h[k - 1] + s[k]
      <3>1. k \in 0 .. Len(s) /\ k - 1 \in 0 .. Len(s) BY <1>1
      <3> QED BY <3>1
    <2> HIDE DEF h
    <2> QED BY <2>1, <2>2 DEF Sums
  <1>3. h[Len(s)] = 0 BY <1>1
  <1> HIDE DEF h
  <1> QED BY <1>2, <1>3, TotalIs

LEMMA TotalOnes ==
  ASSUME NEW s \in Seq(Int), \A k \in 1 .. Len(s) : s[k] = 1
  PROVE  Total(s) = Len(s)
  <1> DEFINE h == [k \in 0 .. Len(s) |-> k]
  <1>1. Len(s) \in Nat OBVIOUS
  <1>2. Sums(h, s)
    <2>1. h \in [0 .. Len(s) -> Int] /\ h[0] = 0 BY <1>1
    <2>2. ASSUME NEW k \in 1 .. Len(s) PROVE h[k] = h[k - 1] + s[k]
      <3>1. k \in 0 .. Len(s) /\ k - 1 \in 0 .. Len(s) BY <1>1
      <3>2. h[k] = k /\ h[k - 1] = k - 1 BY <3>1
      <3> QED BY <3>2
    <2> HIDE DEF h
    <2> QED BY <2>1, <2>2 DEF Sums
  <1>3. h[Len(s)] = Len(s) BY <1>1
  <1> HIDE DEF h
  <1> QED BY <1>2, <1>3, TotalIs

LEMMA TotalNat ==
  ASSUME NEW s \in Seq(Int), \A k \in 1 .. Len(s) : s[k] >= 0
  PROVE  Total(s) \in Nat
  <1>1. PICK g : Sums(g, s) BY SumsExist
  <1> DEFINE D == {k \in 0 .. Len(s) : g[k] < 0}
  <1>2. D \in SUBSET Nat /\ Len(s) \in Nat OBVIOUS
  <1>3. ASSUME D # {} PROVE FALSE
    <2>1. PICK k \in D : \A i \in D : k <= i
      <3> HIDE DEF D
      <3> QED BY <1>2, <1>3, LeastNat
    <2>2. k # 0 BY <1>1 DEF Sums
    <2>3. k \in 1 .. Len(s) /\ k - 1 \in 0 .. Len(s) /\ k - 1 \notin D BY <1>2, <2>1, <2>2
    <2>4. g[k] = g[k - 1] + s[k] /\ g[k] \in Int /\ g[k - 1] \in Int BY <1>1, <2>3 DEF Sums
    <2>5. s[k] \in Int /\ s[k] >= 0 /\ g[k - 1] >= 0 BY <2>3, <2>4
    <2> QED BY <2>4, <2>5
  <1>4. g[Len(s)] \in Int /\ g[Len(s)] >= 0
    <2>1. Len(s) \in 0 .. Len(s) /\ Len(s) \notin D BY <1>2, <1>3
    <2>2. g[Len(s)] \in Int BY <1>1, <2>1 DEF Sums
    <2> QED BY <2>1, <2>2
  <1> QED BY <1>1, <1>4, TotalIs

\* no element of a sum of natural numbers is greater than the sum
LEMMA TotalBound ==
  ASSUME NEW s \in Seq(Int), \A k \in 1 .. Len(s) : s[k] >= 0, NEW i \in 1 .. Len(s)
  PROVE  s[i] <= Total(s)
  <1> DEFINE t == [s EXCEPT ![i] = 0]
  <1>1. t \in Seq(Int) /\ Len(t) = Len(s) /\ \A k \in 1 .. Len(t) : t[k] >= 0 OBVIOUS
  <1>2. Total(t) = Total(s) - s[i] + 0 BY TotalExcept
  <1> HIDE DEF t
  <1>3. Total(t) \in Nat BY <1>1, TotalNat
  <1>4. s[i] \in Int /\ Total(s) \in Int BY TotalInt
  <1> QED BY <1>2, <1>3, <1>4

----------------------------------------------------------------------------
(***************************************************************************)
(* The methods of FutureAccountingMethod, one lemma for each: the book     *)
(* keeps its type and its cash, and what happens to the volumes and to     *)
(* what is frozen.                                                         *)
(***************************************************************************)

Books == [avail : Int, frozen_cash : Int, fee : Nat, known : SUBSET Int, pos : [Directions -> Positions]]

Balance(b) == b.avail + b.frozen_cash + Margins(b) + b.fee

Volumes(b) == [d \in Directions |-> b.pos[d].volume]

\* long minus short
Net(b) == b.pos["Long"].volume - b.pos["Short"].volume

LEMMA MaxOfTwo ==
  ASSUME NEW x \in Int, NEW y \in Int
  PROVE  Max({x, y}) = IF x >= y THEN x ELSE y
  <1>1. \E z \in {x, y} : \A w \in {x, y} : z >= w OBVIOUS
  <1>2. Max({x, y}) \in {x, y} /\ \A w \in {x, y} : Max({x, y}) >= w BY <1>1, Zenon DEF Max
  <1> QED BY <1>2

LEMMA MinOfTwo ==
  ASSUME NEW x \in Int, NEW y \in Int
  PROVE  Min({x, y}) = IF x <= y THEN x ELSE y
  <1>1. \E z \in {x, y} : \A w \in {x, y} : z <= w OBVIOUS
  <1>2. Min({x, y}) \in {x, y} /\ \A w \in {x, y} : Min({x, y}) <= w BY <1>1, Zenon DEF Min
  <1> QED BY <1>2

LEMMA OlderValue ==
  ASSUME NEW from \in Int, NEW volume \in Int
  PROVE  /\ Older(from, volume) \in Nat
         /\ Older(from, volume) = IF from >= volume THEN from - volume ELSE 0
  <1>1. from - volume \in Int /\ 0 \in Int OBVIOUS
  <1>2. Older(from, volume) = IF from - volume >= 0 THEN from - volume ELSE 0 BY <1>1, MaxOfTwo DEF Older
  <1> QED BY <1>2

LEMMA ProductNat ==
  ASSUME NEW x \in Nat, NEW y \in Nat
  PROVE  x * y \in Nat
  OBVIOUS

LEMMA RequestType ==
  ASSUME NEW in \in Requests
  PROVE  /\ in.side \in {"Buy", "Sell"} /\ in.offset \in Offsets
         /\ in.price \in Nat /\ in.volume \in Nat /\ in.price > 0 /\ in.volume > 0
  BY FutureAssumption

LEMMA OffsetType ==
  ASSUME NEW b, NEW in \in Requests
  PROVE  get_offset(b, in) \in Offsets
  BY RequestType DEF get_offset, Offsets

LEMMA DirectionType ==
  ASSUME NEW side, NEW offset
  PROVE  get_direction(side, offset) \in Directions
  BY DEF get_direction, Directions

LEMMA BookType ==
  ASSUME NEW b \in Books, NEW d \in Directions
  PROVE  /\ b.avail \in Int /\ b.frozen_cash \in Int /\ b.fee \in Nat /\ b.known \subseteq Int
         /\ b.pos \in [Directions -> Positions] /\ b.pos[d] \in Positions
         /\ b.pos[d].volume \in Int /\ b.pos[d].yesterday_volume \in Nat
         /\ b.pos[d].frozen_total \in Int /\ b.pos[d].frozen_yesterday \in Nat
         /\ b.pos[d].margin \in Int /\ b.pos[d].settlement_price \in Nat
  BY DEF Books, Positions

LEMMA FreezeEffect ==
  ASSUME NEW b \in Books, NEW cash \in Int
  PROVE  /\ Freeze(b, cash) \in Books
         /\ Balance(Freeze(b, cash)) = Balance(b)
         /\ Freeze(b, cash).frozen_cash = b.frozen_cash + cash
         /\ Freeze(b, cash).pos = b.pos /\ Freeze(b, cash).known = b.known
  <1>1. "Long" \in Directions /\ "Short" \in Directions BY DEF Directions
  <1>a. /\ b.avail - cash \in Int /\ b.frozen_cash + cash \in Int /\ b.fee \in Nat
        /\ b.known \in SUBSET Int /\ b.pos \in [Directions -> Positions]
    BY DEF Books
  <1>2. Freeze(b, cash) \in Books BY <1>a DEF Freeze, Books
  <1>3. /\ Freeze(b, cash).avail = b.avail - cash /\ Freeze(b, cash).frozen_cash = b.frozen_cash + cash
        /\ Freeze(b, cash).pos = b.pos /\ Freeze(b, cash).known = b.known /\ Freeze(b, cash).fee = b.fee
    BY DEF Freeze, Books
  <1>4. Balance(Freeze(b, cash)) = Balance(b) BY <1>1, <1>3, BookType DEF Balance, Margins
  <1> QED BY <1>2, <1>3, <1>4

LEMMA PayEffect ==
  ASSUME NEW b \in Books, NEW fee \in Nat
  PROVE  /\ Pay(b, fee) \in Books
         /\ Balance(Pay(b, fee)) = Balance(b)
         /\ Pay(b, fee).frozen_cash = b.frozen_cash
         /\ Pay(b, fee).pos = b.pos /\ Pay(b, fee).known = b.known
  <1>1. "Long" \in Directions /\ "Short" \in Directions BY DEF Directions
  <1>a. /\ b.avail - fee \in Int /\ b.frozen_cash \in Int /\ b.fee + fee \in Nat
        /\ b.known \in SUBSET Int /\ b.pos \in [Directions -> Positions]
    BY DEF Books
  <1>2. Pay(b, fee) \in Books BY <1>a DEF Pay, Books
  <1>3. /\ Pay(b, fee).avail = b.avail - fee /\ Pay(b, fee).frozen_cash = b.frozen_cash
        /\ Pay(b, fee).pos = b.pos /\ Pay(b, fee).known = b.known /\ Pay(b, fee).fee = b.fee + fee
    BY DEF Pay, Books
  <1>4. Balance(Pay(b, fee)) = Balance(b) BY <1>1, <1>3, BookType DEF Balance, Margins
  <1> QED BY <1>2, <1>3, <1>4

\* c is book b but for the position of direction d
SameBut(c, b, d) == /\ c.avail = b.avail /\ c.frozen_cash = b.frozen_cash /\ c.fee = b.fee
                    /\ c.known = b.known
                    /\ \A e \in Directions \ {d} : c.pos[e] = b.pos[e]

WithPosition(b, d, p) == [b EXCEPT !.pos[d] = p]

LEMMA PositionChanged ==
  ASSUME NEW b \in Books, NEW d \in Directions, NEW p \in Positions
  PROVE  /\ WithPosition(b, d, p) \in Books
         /\ SameBut(WithPosition(b, d, p), b, d)
         /\ WithPosition(b, d, p).pos[d] = p
  <1> DEFINE c == WithPosition(b, d, p)
  <1> USE DEF WithPosition
  <1>1. b.pos \in [Directions -> Positions] BY DEF Books
  <1>2. c.pos = [b.pos EXCEPT ![d] = p] BY DEF Books
  <1>3. c.pos \in [Directions -> Positions] BY <1>1, <1>2
  <1>4. c \in Books BY <1>3 DEF Books
  <1>5. c.pos[d] = p /\ \A e \in Directions \ {d} : c.pos[e] = b.pos[e] BY <1>1, <1>2
  <1> QED BY <1>4, <1>5 DEF SameBut, Books

LEMMA SameMargin ==
  ASSUME NEW b \in Books, NEW d \in Directions, NEW c \in Books, SameBut(c, b, d),
         c.pos[d].margin = b.pos[d].margin
  PROVE  Balance(c) = Balance(b)
  <1>1. \A e \in Directions : c.pos[e].margin = b.pos[e].margin BY DEF SameBut
  <1>2. "Long" \in Directions /\ "Short" \in Directions BY DEF Directions
  <1> QED BY <1>1, <1>2 DEF SameBut, Balance, Margins

LEMMA MarginMoved ==
  ASSUME NEW b \in Books, NEW d \in Directions, NEW c \in Books, NEW cash \in Int,
         c.avail = b.avail - cash, c.frozen_cash = b.frozen_cash, c.fee = b.fee,
         c.pos[d].margin = b.pos[d].margin + cash,
         \A e \in Directions \ {d} : c.pos[e] = b.pos[e]
  PROVE  Balance(c) = Balance(b)
  <1>1. "Long" \in Directions /\ "Short" \in Directions /\ "Long" # "Short" BY DEF Directions
  <1>2. \A e \in Directions : b.pos[e].margin \in Int /\ c.pos[e].margin \in Int BY BookType
  <1>3. b.avail \in Int /\ b.frozen_cash \in Int /\ b.fee \in Int BY <1>1, BookType
  <1>4. CASE d = "Long"
    <2>1. c.pos["Short"] = b.pos["Short"] BY <1>1, <1>4
    <2> QED BY <1>1, <1>2, <1>3, <1>4, <2>1 DEF Balance, Margins
  <1>5. CASE d = "Short"
    <2>1. c.pos["Long"] = b.pos["Long"] BY <1>1, <1>5
    <2> QED BY <1>1, <1>2, <1>3, <1>5, <2>1 DEF Balance, Margins
  <1> QED BY <1>4, <1>5 DEF Directions
\* the volumes that can be closed are the same
SameVolume(c, b) == \A e \in Directions : /\ c.pos[e].volume = b.pos[e].volume
                                           /\ c.pos[e].yesterday_volume = b.pos[e].yesterday_volume

SameFrozen(c, b) == \A e \in Directions : /\ c.pos[e].frozen_total = b.pos[e].frozen_total
                                           /\ c.pos[e].frozen_yesterday = b.pos[e].frozen_yesterday

SameElse(c, b, d) == \A e \in Directions \ {d} : c.pos[e] = b.pos[e]

LEMMA InputEffect ==
  ASSUME NEW b \in Books, NEW in \in Requests, NEW c, c = apply_order_input(b, in),
         NEW offset, offset = get_offset(b, in), NEW d, d = get_direction(in.side, offset)
  PROVE  /\ c \in Books /\ Balance(c) = Balance(b) /\ c.known = b.known /\ SameVolume(c, b)
         /\ offset = "Open" => /\ c.frozen_cash = b.frozen_cash + in.price * in.volume
                               /\ c.pos = b.pos
         /\ offset # "Open" => /\ c.frozen_cash = b.frozen_cash /\ SameElse(c, b, d)
                               /\ c.pos[d].frozen_total = b.pos[d].frozen_total + in.volume
                               /\ c.pos[d].frozen_yesterday <= b.pos[d].frozen_yesterday + in.volume
                               /\ b.pos[d].frozen_yesterday <= b.pos[d].yesterday_volume
                                    => c.pos[d].frozen_yesterday <= b.pos[d].yesterday_volume
                               /\ offset = "CloseToday" => c.pos[d].frozen_yesterday = b.pos[d].frozen_yesterday
  <1>1. /\ offset \in Offsets /\ d \in Directions /\ in.volume \in Nat /\ in.price \in Nat
        /\ in.price * in.volume \in Nat
    BY OffsetType, DirectionType, RequestType, ProductNat
  <1>2. CASE offset = "Open"
    <2> DEFINE cash == in.price * in.volume
    <2>1. c = Freeze(b, cash) /\ cash \in Int BY <1>1, <1>2 DEF apply_order_input
    <2>2. cash = in.price * in.volume OBVIOUS
    <2> HIDE DEF cash
    <2>3. /\ c \in Books /\ Balance(c) = Balance(b) /\ c.frozen_cash = b.frozen_cash + cash
          /\ c.pos = b.pos /\ c.known = b.known
      BY <2>1, FreezeEffect
    <2> QED BY <1>2, <2>2, <2>3 DEF SameVolume
  <1> DEFINE p == b.pos[d]
             q == [p EXCEPT !.frozen_total = @ + in.volume,
                            !.frozen_yesterday =
                               IF p.yesterday_volume - @ >= in.volume THEN @ + in.volume ELSE p.yesterday_volume]
             r == [p EXCEPT !.frozen_total = @ + in.volume]
  <1>3. p \in Positions BY <1>1, BookType
  <1>4. /\ p.yesterday_volume \in Nat /\ p.frozen_yesterday \in Nat /\ p.frozen_total \in Int
    BY <1>1, BookType
  <1>5. CASE offset = "Close"
    <2>1. q \in Positions
      <3> DEFINE y == IF p.yesterday_volume - p.frozen_yesterday >= in.volume
                      THEN p.frozen_yesterday + in.volume ELSE p.yesterday_volume
      <3>1. y \in Nat /\ p.frozen_total + in.volume \in Int BY <1>1, <1>4
      <3>2. q = [p EXCEPT !.frozen_total = p.frozen_total + in.volume, !.frozen_yesterday = y] OBVIOUS
      <3> HIDE DEF q, p, y
      <3> QED BY <1>3, <3>1, <3>2 DEF Positions
    <2>2. c = WithPosition(b, d, q) BY <1>5 DEF apply_order_input, WithPosition
    <2>3. /\ q.volume = p.volume /\ q.yesterday_volume = p.yesterday_volume /\ q.margin = p.margin
          /\ q.frozen_total = p.frozen_total + in.volume
          /\ q.frozen_yesterday = IF p.yesterday_volume - p.frozen_yesterday >= in.volume
                                  THEN p.frozen_yesterday + in.volume ELSE p.yesterday_volume
      BY <1>3 DEF Positions
    <2>4. q.frozen_yesterday <= p.frozen_yesterday + in.volume BY <1>1, <1>4, <2>3
    <2>5. p.frozen_yesterday <= p.yesterday_volume => q.frozen_yesterday <= p.yesterday_volume
      BY <1>1, <1>4, <2>3
    <2> HIDE DEF q
    <2>6. c \in Books /\ SameBut(c, b, d) /\ c.pos[d] = q BY <1>1, <2>1, <2>2, PositionChanged
    <2>7. Balance(c) = Balance(b) BY <1>1, <2>3, <2>6, SameMargin
    <2> HIDE DEF p
    <2>8. p = b.pos[d] BY DEF p
    <2> QED BY <1>5, <2>3, <2>4, <2>5, <2>6, <2>7, <2>8 DEF SameBut, SameVolume, SameElse
  <1>6. CASE offset = "CloseToday"
    <2>1. r \in Positions BY <1>1, <1>3, <1>4 DEF Positions
    <2>2. c = WithPosition(b, d, r) BY <1>6 DEF apply_order_input, WithPosition
    <2>3. /\ r.volume = p.volume /\ r.yesterday_volume = p.yesterday_volume /\ r.margin = p.margin
          /\ r.frozen_total = p.frozen_total + in.volume /\ r.frozen_yesterday = p.frozen_yesterday
      BY <1>3 DEF Positions
    <2>4. r.frozen_yesterday <= p.frozen_yesterday + in.volume BY <1>1, <1>4, <2>3
    <2> HIDE DEF r
    <2>6. c \in Books /\ SameBut(c, b, d) /\ c.pos[d] = r BY <1>1, <2>1, <2>2, PositionChanged
    <2>7. Balance(c) = Balance(b) BY <1>1, <2>3, <2>6, SameMargin
    <2> HIDE DEF p
    <2>8. p = b.pos[d] BY DEF p
    <2> QED BY <1>6, <2>3, <2>4, <2>6, <2>7, <2>8 DEF SameBut, SameVolume, SameElse
  <1> QED BY <1>1, <1>2, <1>5, <1>6 DEF Offsets

LEMMA FinalEffect ==
  ASSUME NEW b \in Books, NEW in \in Requests, NEW left \in Nat, NEW c, c = apply_final(b, in, left),
         NEW offset, offset = get_offset(b, in), NEW d, d = get_direction(in.side, offset)
  PROVE  /\ c \in Books /\ Balance(c) = Balance(b) /\ c.known = b.known /\ SameVolume(c, b)
         /\ offset = "Open" => /\ c.frozen_cash = b.frozen_cash - in.price * left
                               /\ c.pos = b.pos
         /\ offset # "Open" => /\ c.frozen_cash = b.frozen_cash /\ SameElse(c, b, d)
                               /\ b.pos[d].frozen_total >= left
                                    => c.pos[d].frozen_total = b.pos[d].frozen_total - left
                               /\ c.pos[d].frozen_yesterday <= b.pos[d].frozen_yesterday
         /\ offset = "Close" => c.pos[d].frozen_yesterday = Older(b.pos[d].frozen_yesterday, left)
  <1>1. /\ offset \in Offsets /\ d \in Directions /\ in.price \in Nat /\ in.price * left \in Nat
    BY OffsetType, DirectionType, RequestType, ProductNat
  <1>2. CASE offset = "Open"
    <2>1. c = Freeze(b, -(in.price * left)) BY <1>2 DEF apply_final
    <2>2. -(in.price * left) \in Int BY <1>1
    <2>3. b.frozen_cash \in Int BY <1>1, BookType
    <2>4. /\ c \in Books /\ Balance(c) = Balance(b) /\ c.frozen_cash = b.frozen_cash + (-(in.price * left))
          /\ c.pos = b.pos /\ c.known = b.known
      BY <2>1, <2>2, FreezeEffect
    <2>5. c.frozen_cash = b.frozen_cash - in.price * left BY <1>1, <2>3, <2>4
    <2> QED BY <1>2, <2>4, <2>5 DEF SameVolume
  <1> DEFINE p == b.pos[d]
             q == [p EXCEPT !.frozen_total = Max({@ - left, 0}), !.frozen_yesterday = Max({@ - left, 0})]
             r == [p EXCEPT !.frozen_total = IF @ >= left THEN @ - left ELSE @]
  <1>3. p \in Positions BY <1>1, BookType
  <1>4. /\ p.frozen_yesterday \in Nat /\ p.frozen_total \in Int BY <1>1, BookType
  <1>5. CASE offset = "Close"
    <2>1. /\ q.volume = p.volume /\ q.yesterday_volume = p.yesterday_volume /\ q.margin = p.margin
          /\ q.settlement_price = p.settlement_price
          /\ q.frozen_total = Older(p.frozen_total, left)
          /\ q.frozen_yesterday = Older(p.frozen_yesterday, left)
      BY <1>3 DEF Positions, Older
    <2>2. /\ q.frozen_total \in Nat /\ q.frozen_yesterday \in Nat
          /\ p.frozen_total >= left => q.frozen_total = p.frozen_total - left
          /\ q.frozen_yesterday <= p.frozen_yesterday
      BY <1>4, <2>1, OlderValue
    <2>3. q \in Positions
      <3> DEFINE x == Older(p.frozen_total, left)
                 y == Older(p.frozen_yesterday, left)
      <3>1. q = [p EXCEPT !.frozen_total = x, !.frozen_yesterday = y] BY DEF Older
      <3>2. x \in Nat /\ y \in Nat
        <4>1. left \in Int /\ p.frozen_yesterday \in Int BY <1>4
        <4> HIDE DEF p
        <4> QED BY <1>4, <4>1, OlderValue
      <3>3. x \in Int BY <3>2
      <3> HIDE DEF q, p, x, y
      <3> QED BY <1>3, <3>1, <3>2, <3>3 DEF Positions
    <2>4. c = WithPosition(b, d, q) BY <1>5 DEF apply_final, WithPosition
    <2> HIDE DEF q
    <2>6. c \in Books /\ SameBut(c, b, d) /\ c.pos[d] = q BY <1>1, <2>3, <2>4, PositionChanged
    <2>7. Balance(c) = Balance(b) BY <1>1, <2>1, <2>6, SameMargin
    <2> HIDE DEF p
    <2>8. p = b.pos[d] BY DEF p
    <2> QED BY <1>5, <2>1, <2>2, <2>6, <2>7, <2>8 DEF SameBut, SameVolume, SameElse
  <1>6. CASE offset = "CloseToday"
    <2>1. r \in Positions BY <1>1, <1>3, <1>4 DEF Positions
    <2>2. c = WithPosition(b, d, r) BY <1>6 DEF apply_final, WithPosition
    <2>3. /\ r.volume = p.volume /\ r.yesterday_volume = p.yesterday_volume /\ r.margin = p.margin
          /\ p.frozen_total >= left => r.frozen_total = p.frozen_total - left
          /\ r.frozen_yesterday = p.frozen_yesterday
      BY <1>3 DEF Positions
    <2> HIDE DEF r
    <2>6. c \in Books /\ SameBut(c, b, d) /\ c.pos[d] = r BY <1>1, <2>1, <2>2, PositionChanged
    <2>7. Balance(c) = Balance(b) BY <1>1, <2>3, <2>6, SameMargin
    <2>9. r.frozen_yesterday <= p.frozen_yesterday BY <1>4, <2>3
    <2> HIDE DEF p
    <2>8. p = b.pos[d] BY DEF p
    <2> QED BY <1>6, <2>3, <2>6, <2>7, <2>8, <2>9 DEF SameBut, SameVolume, SameElse
  <1> QED BY <1>1, <1>2, <1>5, <1>6 DEF Offsets

LEMMA OrderEffect ==
  ASSUME NEW b \in Books, NEW id \in Int, NEW in \in Requests, NEW left \in Nat, NEW final \in BOOLEAN,
         NEW c, c = apply_order(b, id, in, left, final),
         NEW offset, offset = get_offset(b, in), NEW d, d = get_direction(in.side, offset)
  PROVE  /\ c \in Books /\ Balance(c) = Balance(b) /\ c.known = b.known \cup {id} /\ SameVolume(c, b)
         /\ ~final => c.frozen_cash = b.frozen_cash /\ c.pos = b.pos
         /\ final /\ offset = "Open" => /\ c.frozen_cash = b.frozen_cash - in.price * left
                                        /\ c.pos = b.pos
         /\ final /\ offset # "Open" => /\ c.frozen_cash = b.frozen_cash /\ SameElse(c, b, d)
                                        /\ b.pos[d].frozen_total >= left
                                             => c.pos[d].frozen_total = b.pos[d].frozen_total - left
                                        /\ c.pos[d].frozen_yesterday <= b.pos[d].frozen_yesterday
         /\ final /\ offset = "Close" => c.pos[d].frozen_yesterday = Older(b.pos[d].frozen_yesterday, left)
  <1> DEFINE k == [b EXCEPT !.known = @ \cup {id}]
  <1>1. k \in Books /\ k.known = b.known \cup {id} BY DEF Books
  <1>2. k.avail = b.avail /\ k.frozen_cash = b.frozen_cash /\ k.fee = b.fee /\ k.pos = b.pos BY DEF Books
  <1>3. c = IF final THEN apply_final(k, in, left) ELSE k BY DEF apply_order
  <1> HIDE DEF k
  <1>4. Balance(k) = Balance(b) /\ SameVolume(k, b) BY <1>2 DEF Balance, Margins, SameVolume
  <1>5. offset = get_offset(k, in) BY <1>2 DEF get_offset
  <1>6. CASE ~final BY <1>1, <1>2, <1>3, <1>4, <1>6
  <1>7. CASE final
    <2>1. c = apply_final(k, in, left) BY <1>3, <1>7
    <2>2. /\ c \in Books /\ Balance(c) = Balance(k) /\ c.known = k.known /\ SameVolume(c, k)
          /\ offset = "Open" => /\ c.frozen_cash = k.frozen_cash - in.price * left
                                /\ c.pos = k.pos
          /\ offset # "Open" => /\ c.frozen_cash = k.frozen_cash /\ SameElse(c, k, d)
                                /\ k.pos[d].frozen_total >= left
                                     => c.pos[d].frozen_total = k.pos[d].frozen_total - left
                                /\ c.pos[d].frozen_yesterday <= k.pos[d].frozen_yesterday
          /\ offset = "Close" => c.pos[d].frozen_yesterday = Older(k.pos[d].frozen_yesterday, left)
      BY <1>1, <1>5, <2>1, FinalEffect
    <2>3. SameVolume(c, b) BY <1>2, <2>2 DEF SameVolume
    <2>4. offset # "Open" => SameElse(c, b, d) BY <1>2, <2>2 DEF SameElse
    <2> QED BY <1>1, <1>2, <1>4, <1>7, <2>2, <2>3, <2>4
  <1> QED BY <1>6, <1>7
LEMMA CommissionNat ==
  ASSUME NEW in \in Requests, NEW volume \in Nat, NEW today \in 0 .. volume
  PROVE  Commission(in, volume, today) \in Nat
  <1>1. Fees.open \in Nat /\ Fees.close \in Nat /\ Fees.today \in Nat BY FutureAssumption
  <1>2. volume - today \in Nat /\ today \in Nat OBVIOUS
  <1>3. /\ volume * Fees.open \in Nat /\ (volume - today) * Fees.close \in Nat
        /\ today * Fees.today \in Nat
    BY <1>1, <1>2, ProductNat
  <1>4. (volume - today) * Fees.close + today * Fees.today \in Nat BY <1>3
  <1> QED BY <1>3, <1>4 DEF Commission

\* the cash a trade of an opening order releases
Unfrozen(b, id, in, volume) == get_frozen_price(b, id, in) * volume

LEMMA OpenEffect ==
  ASSUME NEW b \in Books, NEW id, NEW in \in Requests, NEW d \in Directions,
         NEW volume \in Nat, NEW price \in Nat, NEW c, c = apply_open(b, id, in, d, volume, price)
  PROVE  /\ c \in Books /\ Balance(c) = Balance(b) /\ c.known = b.known
         /\ c.frozen_cash = b.frozen_cash - Unfrozen(b, id, in, volume)
         /\ SameElse(c, b, d) /\ SameFrozen(c, b)
         /\ c.pos[d].volume = b.pos[d].volume + volume
         /\ c.pos[d].yesterday_volume = b.pos[d].yesterday_volume
  <1> DEFINE p == b.pos[d]
             cost == price * volume
             q == [p EXCEPT !.margin = @ + cost, !.volume = @ + volume]
             o == [b EXCEPT !.avail = @ - cost, !.pos[d] = q]
             f == get_frozen_price(b, id, in) * volume
             fee == Commission(in, volume, 0)
  <1>1. cost \in Nat BY ProductNat
  <1>2. get_frozen_price(b, id, in) \in Nat BY RequestType DEF get_frozen_price
  <1>3. f \in Nat BY <1>2, ProductNat
  <1>4. fee \in Nat
    <2>1. 0 \in 0 .. volume OBVIOUS
    <2> QED BY <2>1, CommissionNat
  <1>5. p \in Positions /\ p.margin \in Int /\ p.volume \in Int BY BookType
  <1>6. /\ q.margin = p.margin + cost /\ q.volume = p.volume + volume
        /\ q.frozen_total = p.frozen_total /\ q.frozen_yesterday = p.frozen_yesterday
        /\ q.yesterday_volume = p.yesterday_volume
    BY <1>5 DEF Positions
  <1>7. q \in Positions
    <2>1. p.margin + cost \in Int /\ p.volume + volume \in Int BY <1>1, <1>5
    <2> QED BY <1>5, <2>1 DEF Positions
  <1>8. c = Pay(Freeze([b EXCEPT !.avail = @ - cost, !.pos[d].margin = @ + cost, !.pos[d].volume = @ + volume],
                       -f), fee)
    BY DEF apply_open
  <1>9. o = [b EXCEPT !.avail = @ - cost, !.pos[d].margin = @ + cost, !.pos[d].volume = @ + volume] OBVIOUS
  <1> HIDE DEF cost, f, fee, q
  <1>10. o = [WithPosition(b, d, q) EXCEPT !.avail = b.avail - cost] BY DEF WithPosition
  <1>11. c = Pay(Freeze(o, -f), fee) BY <1>8, <1>9
  <1> DEFINE w == WithPosition(b, d, q)
  <1>12. w \in Books /\ SameBut(w, b, d) /\ w.pos[d] = q BY <1>7, PositionChanged
  <1> HIDE DEF o, w
  <1>13. b.avail - cost \in Int BY <1>1, BookType
  <1>14. /\ o \in Books /\ o.avail = b.avail - cost /\ o.frozen_cash = w.frozen_cash
         /\ o.fee = w.fee /\ o.pos = w.pos /\ o.known = w.known
    BY <1>10, <1>12, <1>13 DEF Books, w
  <1>15. Balance(o) = Balance(b)
    <2>1. o.pos[d].margin = b.pos[d].margin + cost BY <1>6, <1>12, <1>14
    <2>2. \A e \in Directions \ {d} : o.pos[e] = b.pos[e] BY <1>12, <1>14 DEF SameBut
    <2>3. o.frozen_cash = b.frozen_cash /\ o.fee = b.fee BY <1>12, <1>14 DEF SameBut
    <2>4. cost \in Int BY <1>1
    <2> QED BY <1>14, <2>1, <2>2, <2>3, <2>4, MarginMoved
  <1>16. -f \in Int BY <1>3
  <1> DEFINE z == Freeze(o, -f)
  <1>17. /\ z \in Books /\ Balance(z) = Balance(o) /\ z.frozen_cash = o.frozen_cash + (-f)
         /\ z.pos = o.pos /\ z.known = o.known
    BY <1>14, <1>16, FreezeEffect
  <1> HIDE DEF z
  <1>18. c = Pay(z, fee) BY <1>11 DEF z
  <1>19. /\ c \in Books /\ Balance(c) = Balance(z) /\ c.frozen_cash = z.frozen_cash
         /\ c.pos = z.pos /\ c.known = z.known
    BY <1>4, <1>17, <1>18, PayEffect
  <1>20. c.frozen_cash = b.frozen_cash - f
    <2>1. b.frozen_cash \in Int /\ o.frozen_cash = b.frozen_cash BY <1>12, <1>14, BookType DEF SameBut
    <2> QED BY <1>3, <1>17, <1>19, <2>1
  <1>21. c.pos = w.pos /\ w.pos[d] = q BY <1>12, <1>14, <1>17, <1>19
  <1>22. SameElse(c, b, d) BY <1>12, <1>21 DEF SameBut, SameElse
  <1>23. SameFrozen(c, b)
    <2> USE DEF SameFrozen
    <2> TAKE e \in Directions
    <2>1. CASE e = d BY <2>1, <1>6, <1>21
    <2>2. CASE e # d BY <2>2, <1>22 DEF SameElse
    <2> QED BY <2>1, <2>2
  <1>24. f = Unfrozen(b, id, in, volume) BY DEF f, Unfrozen
  <1>25. c.known = b.known BY <1>12, <1>14, <1>17, <1>19 DEF SameBut
  <1> QED BY <1>6, <1>15, <1>17, <1>19, <1>20, <1>21, <1>22, <1>23, <1>24, <1>25

LEMMA CloseEffect ==
  ASSUME NEW b \in Books, NEW in \in Requests, NEW d \in Directions,
         NEW volume \in Nat, NEW price \in Nat, NEW c, c = apply_close(b, in, d, volume, price)
  PROVE  /\ c \in Books /\ Balance(c) = Balance(b) /\ c.known = b.known
         /\ c.frozen_cash = b.frozen_cash
         /\ SameElse(c, b, d)
         /\ c.pos[d].volume = b.pos[d].volume - volume
         /\ c.pos[d].frozen_total = b.pos[d].frozen_total - volume
         /\ in.offset = "CloseToday" => /\ c.pos[d].yesterday_volume = b.pos[d].yesterday_volume
                                       /\ c.pos[d].frozen_yesterday = b.pos[d].frozen_yesterday
         /\ in.offset # "CloseToday" =>
                /\ c.pos[d].yesterday_volume = Older(b.pos[d].yesterday_volume, volume)
                /\ c.pos[d].frozen_yesterday = Older(b.pos[d].frozen_yesterday, volume)
  <1> DEFINE p == b.pos[d]
             released == delta_margin(p, volume, price)
             today == in.offset = "CloseToday"
             ctv == IF today THEN volume ELSE Older(volume, p.yesterday_volume)
             yv == IF today THEN p.yesterday_volume ELSE Older(p.yesterday_volume, volume)
             fy == IF today THEN p.frozen_yesterday ELSE Older(p.frozen_yesterday, volume)
             q == [p EXCEPT !.margin = p.margin - released, !.volume = p.volume - volume,
                            !.frozen_total = p.frozen_total - volume,
                            !.yesterday_volume = yv, !.frozen_yesterday = fy]
             o == [b EXCEPT !.pos[d] = q, !.avail = @ + released]
             fee == Commission(in, volume, ctv)
  <1>1. /\ p \in Positions /\ p.margin \in Int /\ p.volume \in Int /\ p.frozen_total \in Int
        /\ p.yesterday_volume \in Nat /\ p.frozen_yesterday \in Nat
    BY BookType
  <1>2. volume \in Int /\ p.yesterday_volume \in Int /\ p.frozen_yesterday \in Int BY <1>1
  <1>3. yv \in Nat /\ fy \in Nat /\ ctv \in 0 .. volume
    <2> HIDE DEF p
    <2>1. Older(volume, p.yesterday_volume) \in 0 .. volume
      <3>1. Older(volume, p.yesterday_volume) =
              IF volume >= p.yesterday_volume THEN volume - p.yesterday_volume ELSE 0
        BY <1>2, OlderValue
      <3> QED BY <1>1, <3>1
    <2>2. Older(p.yesterday_volume, volume) \in Nat /\ Older(p.frozen_yesterday, volume) \in Nat
      BY <1>1, <1>2, OlderValue
    <2> QED BY <1>1, <2>1, <2>2
  <1>4. released \in Int
    <2>1. price * volume \in Int BY ProductNat
    <2>2. Min({p.margin, price * volume}) \in Int BY <1>1, <2>1, MinOfTwo
    <2> QED BY <2>2 DEF delta_margin
  <1>5. fee \in Nat
    <2> HIDE DEF ctv
    <2> QED BY <1>3, CommissionNat
  <1>6. c = Pay(o, fee) BY DEF apply_close
  <1> HIDE DEF released, ctv, fee, yv, fy
  <1>7. /\ q.margin = p.margin - released /\ q.volume = p.volume - volume
        /\ q.frozen_total = p.frozen_total - volume
        /\ q.yesterday_volume = yv /\ q.frozen_yesterday = fy
    BY <1>1 DEF Positions
  <1>8. q \in Positions
    <2>1. p.margin - released \in Int /\ p.volume - volume \in Int /\ p.frozen_total - volume \in Int
      BY <1>1, <1>4
    <2> QED BY <1>1, <1>3, <2>1 DEF Positions
  <1> HIDE DEF q
  <1>9. o = [WithPosition(b, d, q) EXCEPT !.avail = b.avail + released] BY DEF WithPosition
  <1> DEFINE w == WithPosition(b, d, q)
  <1>10. w \in Books /\ SameBut(w, b, d) /\ w.pos[d] = q BY <1>8, PositionChanged
  <1> HIDE DEF o, w
  <1>11. b.avail + released \in Int BY <1>4, BookType
  <1>12. /\ o \in Books /\ o.avail = b.avail + released /\ o.frozen_cash = w.frozen_cash
         /\ o.fee = w.fee /\ o.pos = w.pos /\ o.known = w.known
    BY <1>9, <1>10, <1>11 DEF Books, w
  <1>13. Balance(o) = Balance(b)
    <2> DEFINE cash == -released
    <2>1. b.avail \in Int /\ b.pos[d].margin \in Int BY BookType
    <2>2. cash \in Int /\ o.avail = b.avail - cash BY <1>4, <1>12, <2>1
    <2>3. o.pos[d].margin = b.pos[d].margin + cash BY <1>4, <1>7, <1>10, <1>12, <2>1
    <2>4. \A e \in Directions \ {d} : o.pos[e] = b.pos[e] BY <1>10, <1>12 DEF SameBut
    <2>5. o.frozen_cash = b.frozen_cash /\ o.fee = b.fee BY <1>10, <1>12 DEF SameBut
    <2> HIDE DEF cash
    <2> QED BY <1>12, <2>2, <2>3, <2>4, <2>5, MarginMoved
  <1>14. /\ c \in Books /\ Balance(c) = Balance(o) /\ c.frozen_cash = o.frozen_cash
         /\ c.pos = o.pos /\ c.known = o.known
    BY <1>5, <1>6, <1>12, PayEffect
  <1>15. c.pos = w.pos BY <1>12, <1>14
  <1>16. SameElse(c, b, d) BY <1>10, <1>15 DEF SameBut, SameElse
  <1>17. c.known = b.known /\ c.frozen_cash = b.frozen_cash BY <1>10, <1>12, <1>14 DEF SameBut
  <1>18. c.pos[d] = q BY <1>10, <1>15
  <1>19. today => yv = p.yesterday_volume /\ fy = p.frozen_yesterday BY DEF yv, fy
  <1>20. ~today => /\ yv = Older(p.yesterday_volume, volume) /\ fy = Older(p.frozen_yesterday, volume)
    BY DEF yv, fy
  <1> QED BY <1>7, <1>13, <1>14, <1>16, <1>17, <1>18, <1>19, <1>20
LEMMA TradeEffect ==
  ASSUME NEW b \in Books, NEW id, NEW in \in Requests, NEW volume \in Nat, NEW price \in Nat,
         NEW c, c = apply_trade(b, id, in, volume, price),
         NEW offset, offset = get_offset(b, in), NEW d, d = get_direction(in.side, offset)
  PROVE  /\ c \in Books /\ Balance(c) = Balance(b) /\ c.known = b.known /\ SameElse(c, b, d)
         /\ offset = "Open" =>
               /\ c.frozen_cash = b.frozen_cash - Unfrozen(b, id, in, volume)
               /\ SameFrozen(c, b)
               /\ c.pos[d].volume = b.pos[d].volume + volume
               /\ c.pos[d].yesterday_volume = b.pos[d].yesterday_volume
         /\ offset # "Open" =>
               /\ c.frozen_cash = b.frozen_cash
               /\ c.pos[d].volume = b.pos[d].volume - volume
               /\ c.pos[d].frozen_total = b.pos[d].frozen_total - volume
               /\ in.offset = "CloseToday" => /\ c.pos[d].yesterday_volume = b.pos[d].yesterday_volume
                                             /\ c.pos[d].frozen_yesterday = b.pos[d].frozen_yesterday
               /\ in.offset # "CloseToday" =>
                      /\ c.pos[d].yesterday_volume = Older(b.pos[d].yesterday_volume, volume)
                      /\ c.pos[d].frozen_yesterday = Older(b.pos[d].frozen_yesterday, volume)
  <1>1. d \in Directions BY DirectionType
  <1>2. CASE offset = "Open"
    <2>1. c = apply_open(b, id, in, d, volume, price) BY <1>2 DEF apply_trade
    <2>2. /\ c \in Books /\ Balance(c) = Balance(b) /\ c.known = b.known
          /\ c.frozen_cash = b.frozen_cash - Unfrozen(b, id, in, volume)
          /\ SameElse(c, b, d) /\ SameFrozen(c, b)
          /\ c.pos[d].volume = b.pos[d].volume + volume
          /\ c.pos[d].yesterday_volume = b.pos[d].yesterday_volume
      BY <1>1, <2>1, OpenEffect
    <2> QED BY <1>2, <2>2
  <1>3. CASE offset # "Open"
    <2>1. c = apply_close(b, in, d, volume, price) BY <1>3 DEF apply_trade
    <2> QED BY <1>1, <1>3, <2>1, CloseEffect
  <1> QED BY <1>2, <1>3

LEMMA SettlementEffect ==
  ASSUME NEW b \in Books, NEW d \in Directions, NEW price \in Nat, NEW c, c = apply_settlement(b, d, price)
  PROVE  /\ c \in Books /\ Balance(c) = Balance(b) /\ c.known = b.known /\ c.frozen_cash = b.frozen_cash
         /\ SameVolume(c, b) /\ SameFrozen(c, b)
  <1> DEFINE p == b.pos[d]
             margin == p.settlement_price * p.volume
             q == [p EXCEPT !.margin = margin, !.settlement_price = price]
             cash == margin - p.margin
             w == WithPosition(b, d, q)
  <1>1. /\ p \in Positions /\ p.margin \in Int /\ p.volume \in Int /\ p.settlement_price \in Nat
    BY BookType
  <1>2. margin \in Int BY <1>1
  <1>3. c = [b EXCEPT !.pos[d] = q, !.avail = @ - cash]
    BY ZenonT(30) DEF apply_settlement
  <1>4. cash \in Int /\ b.avail - cash \in Int BY <1>1, <1>2, BookType
  <1> HIDE DEF margin, cash
  <1>5. /\ q \in Positions /\ q.margin = margin /\ q.volume = p.volume
        /\ q.frozen_total = p.frozen_total /\ q.frozen_yesterday = p.frozen_yesterday
        /\ q.yesterday_volume = p.yesterday_volume
    BY <1>1, <1>2 DEF Positions
  <1>6. c = [w EXCEPT !.avail = b.avail - cash]
    <2> HIDE DEF q
    <2> QED BY <1>3 DEF WithPosition
  <1>7. w \in Books /\ SameBut(w, b, d) /\ w.pos[d] = q BY <1>5, PositionChanged
  <1>8. p.margin + cash = margin BY <1>1, <1>2 DEF cash
  <1> HIDE DEF q, w
  <1>9. /\ c \in Books /\ c.avail = b.avail - cash /\ c.frozen_cash = w.frozen_cash
        /\ c.fee = w.fee /\ c.pos = w.pos /\ c.known = w.known
    BY <1>4, <1>6, <1>7 DEF Books
  <1>10. Balance(c) = Balance(b)
    <2>1. c.pos[d].margin = b.pos[d].margin + cash BY <1>5, <1>7, <1>8, <1>9
    <2>2. \A e \in Directions \ {d} : c.pos[e] = b.pos[e] BY <1>7, <1>9 DEF SameBut
    <2>3. c.frozen_cash = b.frozen_cash /\ c.fee = b.fee BY <1>7, <1>9 DEF SameBut
    <2> QED BY <1>4, <1>9, <2>1, <2>2, <2>3, MarginMoved
  <1>11. c.known = b.known /\ c.frozen_cash = b.frozen_cash BY <1>7, <1>9 DEF SameBut
  <1>12. \A e \in Directions \ {d} : c.pos[e] = b.pos[e] BY <1>7, <1>9 DEF SameBut
  <1>13. c.pos[d] = q BY <1>7, <1>9
  <1>14. SameVolume(c, b) /\ SameFrozen(c, b) BY <1>5, <1>12, <1>13 DEF SameVolume, SameFrozen
  <1> QED BY <1>9, <1>10, <1>11, <1>14

LEMMA QuoteEffect ==
  ASSUME NEW b \in Books, NEW price \in Nat, NEW c, c = apply_quote(b, price)
  PROVE  /\ c \in Books /\ Balance(c) = Balance(b) /\ c.known = b.known /\ c.frozen_cash = b.frozen_cash
         /\ SameVolume(c, b) /\ SameFrozen(c, b)
  <1> DEFINE l == apply_settlement(b, "Long", price)
  <1>1. "Long" \in Directions /\ "Short" \in Directions BY DEF Directions
  <1>2. /\ l \in Books /\ Balance(l) = Balance(b) /\ l.known = b.known /\ l.frozen_cash = b.frozen_cash
        /\ SameVolume(l, b) /\ SameFrozen(l, b)
    BY <1>1, SettlementEffect
  <1>3. c = apply_settlement(l, "Short", price) BY DEF apply_quote
  <1> HIDE DEF l
  <1>4. /\ c \in Books /\ Balance(c) = Balance(l) /\ c.known = l.known /\ c.frozen_cash = l.frozen_cash
        /\ SameVolume(c, l) /\ SameFrozen(c, l)
    BY <1>1, <1>2, <1>3, SettlementEffect
  <1> QED BY <1>2, <1>4 DEF SameVolume, SameFrozen
----------------------------------------------------------------------------
(***************************************************************************)
(* Frames and recursive definitions of the module.                         *)
(***************************************************************************)

BookSets == [Holders -> Books]

LEMMA ApplyOrder ==
  ASSUME NEW b, NEW id, NEW in, NEW left, NEW final
  PROVE  Apply(b, OrderFrame(id, in, left, final)) = apply_order(b, id, in, left, final)
  BY DEF Apply, OrderFrame

LEMMA ApplyTrade ==
  ASSUME NEW b, NEW id, NEW in, NEW volume, NEW price
  PROVE  Apply(b, TradeFrame(id, in, volume, price)) = apply_trade(b, id, in, volume, price)
  BY DEF Apply, TradeFrame

\* a frame that keeps every book's type and cash
Sound(frame) == \A b \in Books : Apply(b, frame) \in Books /\ Balance(Apply(b, frame)) = Balance(b)

LEMMA SoundOrder ==
  ASSUME NEW id \in Int, NEW in \in Requests, NEW left \in Nat, NEW final \in BOOLEAN
  PROVE  Sound(OrderFrame(id, in, left, final))
  <1> SUFFICES ASSUME NEW b \in Books
               PROVE  /\ apply_order(b, id, in, left, final) \in Books
                      /\ Balance(apply_order(b, id, in, left, final)) = Balance(b)
    BY ApplyOrder DEF Sound
  <1> DEFINE c == apply_order(b, id, in, left, final)
             offset == get_offset(b, in)
             d == get_direction(in.side, offset)
  <1>1. c = apply_order(b, id, in, left, final) /\ offset = get_offset(b, in) /\ d = get_direction(in.side, offset)
    OBVIOUS
  <1> HIDE DEF c, offset, d
  <1>2. c \in Books /\ Balance(c) = Balance(b) BY <1>1, OrderEffect
  <1> QED BY <1>1, <1>2

LEMMA SoundTrade ==
  ASSUME NEW id \in Int, NEW in \in Requests, NEW volume \in Nat, NEW price \in Nat
  PROVE  Sound(TradeFrame(id, in, volume, price))
  <1> SUFFICES ASSUME NEW b \in Books
               PROVE  /\ apply_trade(b, id, in, volume, price) \in Books
                      /\ Balance(apply_trade(b, id, in, volume, price)) = Balance(b)
    BY ApplyTrade DEF Sound
  <1> QED BY TradeEffect

LEMMA UpdateSound ==
  ASSUME NEW books \in BookSets, NEW frame, Sound(frame), NEW dest,
         NEW told, told = update_book(books, frame, dest)
  PROVE  /\ told \in BookSets
         /\ \A h \in Holders : /\ told[h] = IF h = "account" \/ dest = "strategy" THEN Apply(books[h], frame)
                                              ELSE books[h]
                               /\ Balance(told[h]) = Balance(books[h])
  BY DEF update_book, Sound, BookSets

LEMMA WriteBothSound ==
  ASSUME NEW books \in BookSets, NEW frame, Sound(frame), NEW source \in BOOLEAN,
         NEW told, told = write_both(books, frame, source)
  PROVE  /\ told \in BookSets
         /\ told["strategy"] = IF source THEN Apply(books["strategy"], frame) ELSE books["strategy"]
         /\ \A h \in Holders : Balance(told[h]) = Balance(books[h])
  <1> DEFINE first == IF source THEN update_book(books, frame, "strategy") ELSE books
  <1>1. /\ first \in BookSets
        /\ first["strategy"] = IF source THEN Apply(books["strategy"], frame) ELSE books["strategy"]
        /\ \A h \in Holders : Balance(first[h]) = Balance(books[h])
    BY UpdateSound DEF Holders
  <1>2. told = update_book(first, frame, "public") BY DEF write_both
  <1> HIDE DEF first
  <1>3. told \in BookSets /\ \A h \in Holders : Balance(told[h]) = Balance(first[h])
    BY <1>1, <1>2, UpdateSound
  <1>4. told["strategy"] = first["strategy"] BY <1>1, <1>2, UpdateSound DEF Holders
  <1> QED BY <1>1, <1>3, <1>4

\* what a recursive definition yields at each argument
LEMMA RecursionType ==
  ASSUME NEW B, NEW b \in B, NEW m \in Nat, NEW n \in Nat, NEW F \in [Nat -> [B -> B]], NEW f,
         \A k \in m .. n : f[k] = IF k = m THEN b ELSE F[k][f[k - 1]]
  PROVE  \A k \in m .. n : f[k] \in B
  <1> DEFINE D == {k \in m .. n : f[k] \notin B}
  <1>1. D \in SUBSET Nat OBVIOUS
  <1>2. SUFFICES ASSUME D # {} PROVE FALSE OBVIOUS
  <1>3. PICK k \in D : \A i \in D : k <= i
    <2> HIDE DEF D
    <2> QED BY <1>1, <1>2, LeastNat
  <1>4. k # m OBVIOUS
  <1>5. k - 1 \in m .. n /\ k - 1 \notin D BY <1>3, <1>4
  <1>6. f[k - 1] \in B /\ k \in Nat BY <1>5
  <1>7. f[k] = F[k][f[k - 1]] BY <1>4
  <1> QED BY <1>6, <1>7

LEMMA FlattenType ==
  ASSUME NEW S, NEW ss \in Seq(Seq(S))
  PROVE  FlattenSeq(ss) \in Seq(S)
  <1> DEFINE n == Len(ss)
             P(f) == f = [k \in 1 .. n |-> IF k = 1 THEN ss[k] ELSE f[k - 1] \o ss[k]]
             F == [k \in Nat |-> [x \in Seq(S) |-> IF k \in 1 .. n THEN x \o ss[k] ELSE x]]
  <1>1. n \in Nat /\ \A k \in 1 .. n : ss[k] \in Seq(S) OBVIOUS
  <1>2. CASE n = 0
    <2>1. FlattenSeq(ss) = ss /\ ss = <<>> BY <1>2 DEF FlattenSeq
    <2> QED BY <2>1
  <1>3. CASE n # 0
    <2>1. FlattenSeq(ss) = (CHOOSE f : P(f))[n] BY <1>3 DEF FlattenSeq
    <2>2. F \in [Nat -> [Seq(S) -> Seq(S)]] BY <1>1
    <2>3. ss[1] \in Seq(S) /\ 1 \in Nat /\ n \in 1 .. n BY <1>1, <1>3
    <2>4. \A k \in 1 .. n : \A x \in Seq(S) : F[k][x] = x \o ss[k]
      <3> TAKE k \in 1 .. n
      <3> TAKE x \in Seq(S)
      <3>1. k \in Nat BY <1>1
      <3>2. F[k] = [y \in Seq(S) |-> IF k \in 1 .. n THEN y \o ss[k] ELSE y] BY <3>1
      <3> HIDE DEF F
      <3> QED BY <3>2
    <2> HIDE DEF F
    <2>5. PICK g \in [1 .. n -> Seq(S)] :
            \A k \in 1 .. n : g[k] = IF k = 1 THEN ss[1] ELSE F[k][g[k - 1]]
      <3>1. Recursive(Seq(S), ss[1], 1, n, F) BY <1>1, <2>2, <2>3, Recursion, Zenon
      <3> QED BY <3>1 DEF Recursive
    <2>6. \A k \in 1 .. n : g[k] = IF k = 1 THEN ss[k] ELSE g[k - 1] \o ss[k]
      <3> TAKE k \in 1 .. n
      <3>1. CASE k = 1 BY <3>1, <2>5
      <3>2. CASE k # 1
        <4>1. k - 1 \in 1 .. n BY <3>2, <1>1
        <4>2. g[k - 1] \in Seq(S) BY <4>1
        <4> QED BY <4>2, <3>2, <2>4, <2>5
      <3> QED BY <3>1, <3>2
    <2>7. P(g) BY <2>6
    <2>8. P(CHOOSE f : P(f))
      <3> HIDE DEF P
      <3> QED BY <2>7
    <2> DEFINE f == CHOOSE f : P(f)
    <2>9. \A k \in 1 .. n : f[k] = IF k = 1 THEN ss[k] ELSE f[k - 1] \o ss[k] BY <2>8
    <2> HIDE DEF f
    <2> DEFINE D == {k \in 1 .. n : f[k] \notin Seq(S)}
    <2>10. D = {}
      <3>1. D \in SUBSET Nat OBVIOUS
      <3>2. SUFFICES ASSUME D # {} PROVE FALSE OBVIOUS
      <3>3. PICK k \in D : \A i \in D : k <= i
        <4> HIDE DEF D
        <4> QED BY <3>1, <3>2, LeastNat
      <3>4. k # 1 BY <2>3, <2>9
      <3>5. k - 1 \in 1 .. n /\ k - 1 \notin D BY <3>3, <3>4, <1>1
      <3>6. f[k - 1] \in Seq(S) /\ ss[k] \in Seq(S) BY <3>5, <1>1
      <3>7. f[k - 1] \o ss[k] \in Seq(S) BY <3>6
      <3> QED BY <3>4, <3>7, <2>9
    <2>11. f[n] \in Seq(S) BY <2>3, <2>10
    <2> QED BY <2>1, <2>11 DEF f
  <1> QED BY <1>2, <1>3
FillSeqs == Seq(Nat \X Nat)

FillVolumes(fills) == [k \in DOMAIN fills |-> fills[k][1]]

LEMMA FillVolumesType ==
  ASSUME NEW fills \in FillSeqs
  PROVE  /\ FillVolumes(fills) \in Seq(Int) /\ Len(FillVolumes(fills)) = Len(fills)
         /\ \A k \in 1 .. Len(fills) : FillVolumes(fills)[k] = fills[k][1] /\ fills[k][1] \in Nat
                                     /\ fills[k][2] \in Nat
  <1>1. Len(fills) \in Nat /\ DOMAIN fills = 1 .. Len(fills) BY DEF FillSeqs
  <1>2. \A k \in 1 .. Len(fills) : fills[k] \in Nat \X Nat BY DEF FillSeqs
  <1>3. \A k \in 1 .. Len(fills) : fills[k][1] \in Nat /\ fills[k][2] \in Nat BY <1>2
  <1>4. FillVolumes(fills) \in [1 .. Len(fills) -> Int] BY <1>1, <1>3 DEF FillVolumes
  <1>5. FillVolumes(fills) \in Seq(Int) /\ Len(FillVolumes(fills)) = Len(fills) BY <1>1, <1>4
  <1> QED BY <1>1, <1>3, <1>5 DEF FillVolumes

LEMMA TradedNat ==
  ASSUME NEW fills \in FillSeqs
  PROVE  Traded(fills) \in Nat
  <1>1. Traded(fills) = Total(FillVolumes(fills)) BY DEF Traded, FillVolumes
  <1>2. \A k \in 1 .. Len(FillVolumes(fills)) : FillVolumes(fills)[k] >= 0 BY FillVolumesType
  <1> QED BY <1>1, <1>2, FillVolumesType, TotalNat

LEMMA TradedNone == <<>> \in FillSeqs /\ Traded(<<>>) = 0
  <1>1. <<>> \in FillSeqs /\ Len(<<>>) = 0 BY DEF FillSeqs
  <1>2. Traded(<<>>) = Total(FillVolumes(<<>>)) BY DEF Traded, FillVolumes
  <1>3. \A k \in 1 .. Len(FillVolumes(<<>>)) : FillVolumes(<<>>)[k] = 0 BY <1>1, FillVolumesType
  <1> QED BY <1>1, <1>2, <1>3, FillVolumesType, TotalZero

LEMMA TradedAppend ==
  ASSUME NEW fills \in FillSeqs, NEW volume \in Nat, NEW price \in Nat
  PROVE  /\ Append(fills, <<volume, price>>) \in FillSeqs
         /\ Traded(Append(fills, <<volume, price>>)) = Traded(fills) + volume
  <1> DEFINE t == Append(fills, <<volume, price>>)
  <1>1. <<volume, price>> \in Nat \X Nat OBVIOUS
  <1>2. t \in FillSeqs /\ Len(t) = Len(fills) + 1 /\ t[Len(fills) + 1] = <<volume, price>>
    BY <1>1 DEF FillSeqs
  <1>3. \A k \in 1 .. Len(fills) : t[k] = fills[k] BY DEF FillSeqs
  <1>4. Len(fills) \in Nat BY DEF FillSeqs
  <1> HIDE DEF t
  <1>5. FillVolumes(t) = Append(FillVolumes(fills), volume)
    <2> DEFINE v == FillVolumes(t)
               w == Append(FillVolumes(fills), volume)
    <2>1. v \in Seq(Int) /\ Len(v) = Len(fills) + 1 BY <1>2, FillVolumesType
    <2>2. w \in Seq(Int) /\ Len(w) = Len(fills) + 1 BY FillVolumesType
    <2>3. ASSUME NEW k \in 1 .. Len(fills) + 1 PROVE v[k] = w[k]
      <3>1. v[k] = t[k][1] BY <1>2, FillVolumesType
      <3>2. CASE k = Len(fills) + 1
        <4>1. w[k] = volume BY <3>2, FillVolumesType
        <4> QED BY <4>1, <3>1, <3>2, <1>2
      <3>3. CASE k # Len(fills) + 1
        <4>1. k \in 1 .. Len(fills) BY <3>3, <1>4
        <4>2. w[k] = FillVolumes(fills)[k] BY <4>1, FillVolumesType
        <4>3. w[k] = fills[k][1] BY <4>1, <4>2, FillVolumesType
        <4> QED BY <4>1, <4>3, <3>1, <1>3
      <3> QED BY <3>2, <3>3
    <2> HIDE DEF v, w
    <2>4. v = w BY <2>1, <2>2, <2>3
    <2> QED BY <2>4 DEF v, w
  <1>6. Traded(t) = Total(FillVolumes(t)) /\ Traded(fills) = Total(FillVolumes(fills))
    BY DEF Traded, FillVolumes
  <1>7. volume \in Int /\ FillVolumes(fills) \in Seq(Int) BY FillVolumesType
  <1>8. Traded(t) = Traded(fills) + volume BY <1>5, <1>6, <1>7, TotalAppend
  <1> QED BY <1>2, <1>8 DEF t

LEMMA MatchType ==
  ASSUME NEW in \in Requests, NEW match \in Matches(in)
  PROVE  /\ match.fills \in FillSeqs /\ match.final \in BOOLEAN
         /\ Traded(match.fills) \in 0 .. in.volume
  <1> DEFINE one == << <<1, in.price>> >>
             whole == << <<in.volume, in.price>> >>
             many == [k \in 1..in.volume |-> <<1, in.price>>]
  <1>1. in.price \in Nat /\ in.volume \in Nat /\ in.volume > 0 BY RequestType
  <1>2. one \in FillSeqs /\ Traded(one) = 1
    <2>1. one = Append(<<>>, <<1, in.price>>) OBVIOUS
    <2>2. 1 \in Nat OBVIOUS
    <2> HIDE DEF one
    <2>3. one \in FillSeqs /\ Traded(one) = 0 + 1 BY <1>1, <2>1, <2>2, TradedNone, TradedAppend
    <2> QED BY <2>3
  <1>3. whole \in FillSeqs /\ Traded(whole) = in.volume
    <2>1. whole = Append(<<>>, <<in.volume, in.price>>) OBVIOUS
    <2> HIDE DEF whole
    <2>2. whole \in FillSeqs /\ Traded(whole) = 0 + in.volume BY <1>1, <2>1, TradedNone, TradedAppend
    <2> QED BY <1>1, <2>2
  <1>4. many \in FillSeqs /\ Traded(many) = in.volume
    <2>1. <<1, in.price>> \in Nat \X Nat BY <1>1
    <2>2. many \in [1 .. in.volume -> Nat \X Nat] BY <2>1
    <2>3. many \in FillSeqs /\ Len(many) = in.volume BY <1>1, <2>2 DEF FillSeqs
    <2>4. \A k \in 1 .. in.volume : many[k][1] = 1 BY <1>1
    <2> HIDE DEF many
    <2>5. \A k \in 1 .. Len(FillVolumes(many)) : FillVolumes(many)[k] = 1
      BY <2>3, <2>4, FillVolumesType
    <2>6. Total(FillVolumes(many)) = in.volume BY <2>3, <2>5, FillVolumesType, TotalOnes
    <2> QED BY <2>3, <2>6 DEF Traded, FillVolumes
  <1>5. /\ match.fills \in {<<>>, one, whole, many}
        /\ match.final \in BOOLEAN
    <2>1. \/ \E final \in BOOLEAN : match = [fills |-> <<>>, final |-> final]
          \/ \E final \in BOOLEAN : match = [fills |-> one, final |-> final \/ in.volume = 1]
          \/ match = [fills |-> whole, final |-> TRUE]
          \/ match = [fills |-> many, final |-> TRUE]
      BY Zenon DEF Matches
    <2> HIDE DEF one, whole, many
    <2>2. ASSUME NEW final \in BOOLEAN, match = [fills |-> <<>>, final |-> final]
          PROVE  match.fills = <<>> /\ match.final \in BOOLEAN
      BY <2>2
    <2>3. ASSUME NEW final \in BOOLEAN, match = [fills |-> one, final |-> final \/ in.volume = 1]
          PROVE  match.fills = one /\ match.final \in BOOLEAN
      <3> DEFINE end == final \/ in.volume = 1
      <3>1. end \in BOOLEAN OBVIOUS
      <3>2. match = [fills |-> one, final |-> end] BY <2>3
      <3> HIDE DEF end
      <3> QED BY <3>1, <3>2
    <2>4. ASSUME match = [fills |-> whole, final |-> TRUE]
          PROVE  match.fills = whole /\ match.final \in BOOLEAN
      BY <2>4
    <2>5. ASSUME match = [fills |-> many, final |-> TRUE]
          PROVE  match.fills = many /\ match.final \in BOOLEAN
      BY <2>5
    <2> QED BY <2>1, <2>2, <2>3, <2>4, <2>5
  <1> HIDE DEF one, whole, many
  <1>6. CASE match.fills = <<>> BY <1>1, <1>5, <1>6, TradedNone
  <1>7. CASE match.fills = one BY <1>1, <1>2, <1>5, <1>7
  <1>8. CASE match.fills = whole BY <1>1, <1>3, <1>5, <1>8
  <1>9. CASE match.fills = many BY <1>1, <1>4, <1>5, <1>9
  <1> QED BY <1>5, <1>6, <1>7, <1>8, <1>9

----------------------------------------------------------------------------
(***************************************************************************)
(* Types, and Conserved.                                                   *)
(***************************************************************************)

OrderRecs == [in : Requests, left : Nat, fills : FillSeqs, stage : {"sent", "live", "done"}]

NoteRecs == [on : {"order", "trade", "insert_rejected", "qry_order", "qry_trade"},
             o : Nat, left : Nat, final : BOOLEAN, price : Nat]

\* what is left of an order, at each stage
Lefts == \A o \in DOMAIN orders :
            /\ orders[o].left + Traded(orders[o].fills) = orders[o].in.volume
            /\ orders[o].stage = "sent" => orders[o].left = orders[o].in.volume /\ orders[o].fills = <<>>
            /\ setup.broker = "ctp" /\ orders[o].stage = "live" => orders[o].left >= 1

\* notifications are about orders, and the simulated broker sends none
NotesInv == /\ \A i \in DOMAIN notes : notes[i].o \in DOMAIN orders
            /\ setup.broker = "sim" => notes = <<>>

TypeInv ==
  /\ setup \in Setups
  /\ orders \in Seq(OrderRecs) /\ Lefts
  /\ mapped \subseteq DOMAIN orders
  /\ notes \in Seq(NoteRecs) /\ NotesInv
  /\ book \in BookSets
  /\ booked \in Seq(BOOLEAN) /\ Len(booked) = Len(orders)

LEMMA SetupType ==
  ASSUME setup \in Setups
  PROVE  setup.broker \in {"sim", "ctp"} /\ setup.merge \in BOOLEAN /\ setup.holding \in Nat
  BY FutureAssumption

LEMMA RestoredBook ==
  ASSUME NEW holding \in Nat
  PROVE  /\ Restored(holding) \in Books /\ Balance(Restored(holding)) = 0
         /\ Restored(holding).frozen_cash = 0 /\ Restored(holding).known = {}
         /\ \A d \in Directions :
               Restored(holding).pos[d] = IF d = "Long" THEN [NoPosition EXCEPT !.volume = holding,
                                                 !.yesterday_volume = holding, !.margin = holding]
                                          ELSE NoPosition
  <1> DEFINE p == [NoPosition EXCEPT !.volume = holding, !.yesterday_volume = holding, !.margin = holding]
             b == Restored(holding)
  <1>1. p \in Positions /\ NoPosition \in Positions /\ p.margin = holding /\ NoPosition.margin = 0
    <2>1. 0 \in Nat /\ 0 \in Int /\ holding \in Int OBVIOUS
    <2>2. NoPosition \in Positions /\ NoPosition.margin = 0 BY <2>1 DEF Positions, NoPosition
    <2>3. p \in Positions /\ p.margin = holding BY <2>1, <2>2 DEF Positions
    <2> QED BY <2>2, <2>3
  <1>2. /\ b.avail = -holding /\ b.frozen_cash = 0 /\ b.fee = 0 /\ b.known = {}
        /\ b.pos = [d \in Directions |-> IF d = "Long" THEN p ELSE NoPosition]
    BY DEF Restored
  <1>3. b = [avail |-> -holding, frozen_cash |-> 0, fee |-> 0, known |-> {}, pos |-> b.pos]
    BY DEF Restored
  <1> HIDE DEF p, b
  <1>4. b.pos \in [Directions -> Positions] BY <1>1, <1>2
  <1>5. b \in Books BY <1>3, <1>4 DEF Books
  <1>6. b.pos["Long"].margin = holding /\ b.pos["Short"].margin = 0 BY <1>1, <1>2 DEF Directions
  <1>7. Balance(b) = 0 BY <1>2, <1>6 DEF Balance, Margins
  <1> QED BY <1>2, <1>5, <1>7 DEF p, b

LEMMA InitType == Init => TypeInv
  <1> SUFFICES ASSUME Init PROVE TypeInv OBVIOUS
  <1>1. orders = <<>> /\ mapped = {} /\ notes = <<>> /\ booked = <<>> /\ setup \in Setups BY DEF Init
  <1>2. setup.holding \in Nat BY <1>1, SetupType
  <1>3. book \in BookSets BY <1>2, RestoredBook DEF Init, BookSets
  <1>4. Lefts /\ NotesInv BY <1>1 DEF Lefts, NotesInv
  <1> QED BY <1>1, <1>3, <1>4 DEF TypeInv

LEMMA OrderType ==
  ASSUME TypeInv, NEW o \in DOMAIN orders
  PROVE  /\ orders[o] \in OrderRecs /\ orders[o].in \in Requests /\ orders[o].left \in Nat
         /\ orders[o].fills \in FillSeqs /\ orders[o].stage \in {"sent", "live", "done"}
         /\ o \in Nat /\ o \in Int
         /\ orders[o].left + Traded(orders[o].fills) = orders[o].in.volume
         /\ orders[o].stage = "sent" => orders[o].left = orders[o].in.volume /\ orders[o].fills = <<>>
         /\ setup.broker = "ctp" /\ orders[o].stage = "live" => orders[o].left >= 1
  <1>1. orders \in Seq(OrderRecs) BY DEF TypeInv
  <1>2. orders[o] \in OrderRecs /\ o \in Nat BY <1>1
  <1>3. /\ orders[o].in \in Requests /\ orders[o].left \in Nat
        /\ orders[o].fills \in FillSeqs /\ orders[o].stage \in {"sent", "live", "done"}
    BY <1>2 DEF OrderRecs
  <1> QED BY <1>2, <1>3 DEF TypeInv, Lefts

LEMMA BookOf ==
  ASSUME TypeInv, NEW h \in Holders
  PROVE  book[h] \in Books
  BY DEF TypeInv, BookSets

\* the order o as a handler of the broker leaves it
Changed(o, left, fills, stage) ==
  [orders EXCEPT ![o] = [in |-> orders[o].in, left |-> left, fills |-> fills, stage |-> stage]]

ChangedLeft(o, left, fills, stage) ==
  /\ left + Traded(fills) = orders[o].in.volume
  /\ stage # "sent"
  /\ setup.broker = "ctp" /\ stage = "live" => left >= 1

SetOrder(o, left, fills, stage) ==
  [orders EXCEPT ![o].left = left, ![o].fills = fills, ![o].stage = stage]

LEMMA ChangedIs ==
  ASSUME TypeInv, NEW o \in DOMAIN orders, NEW stage \in {"sent", "live", "done"}
  PROVE  [orders EXCEPT ![o].stage = stage] = Changed(o, orders[o].left, orders[o].fills, stage)
  <1> DEFINE r == orders[o]
             p == [r EXCEPT !.stage = stage]
  <1>1. r \in OrderRecs BY OrderType
  <1>2. r = [in |-> r.in, left |-> r.left, fills |-> r.fills, stage |-> r.stage]
    <2> HIDE DEF r
    <2> QED BY <1>1 DEF OrderRecs
  <1>3. p = [in |-> r.in, left |-> r.left, fills |-> r.fills, stage |-> stage]
    <2> HIDE DEF r
    <2> QED BY <1>2
  <1>4. [orders EXCEPT ![o].stage = stage] = [orders EXCEPT ![o] = p] OBVIOUS
  <1> HIDE DEF p
  <1> QED BY <1>3, <1>4 DEF Changed

LEMMA SetIs ==
  ASSUME TypeInv, NEW o \in DOMAIN orders, NEW left \in Nat, NEW fills \in FillSeqs,
         NEW stage \in {"sent", "live", "done"}, orders' = SetOrder(o, left, fills, stage)
  PROVE  orders' = Changed(o, left, fills, stage)
  <1> DEFINE r == orders[o]
             u == [r EXCEPT !.left = left]
             v == [u EXCEPT !.fills = fills]
             q == [v EXCEPT !.stage = stage]
  <1>1. r \in OrderRecs BY OrderType
  <1>2. r = [in |-> r.in, left |-> r.left, fills |-> r.fills, stage |-> r.stage]
    <2> HIDE DEF r
    <2> QED BY <1>1 DEF OrderRecs
  <1>3. q = [in |-> r.in, left |-> left, fills |-> fills, stage |-> stage]
    <2> HIDE DEF r
    <2>1. u = [in |-> r.in, left |-> left, fills |-> r.fills, stage |-> r.stage] BY <1>2
    <2> HIDE DEF u
    <2>2. v = [in |-> r.in, left |-> left, fills |-> fills, stage |-> r.stage] BY <2>1
    <2> HIDE DEF v
    <2>3. q = [in |-> r.in, left |-> left, fills |-> fills, stage |-> stage] BY <2>2
    <2> QED BY <2>3
  <1>4. SetOrder(o, left, fills, stage) = [orders EXCEPT ![o] = q] BY DEF SetOrder
  <1> HIDE DEF q
  <1> QED BY <1>3, <1>4 DEF Changed

LEMMA OrderChanged ==
  ASSUME TypeInv, NEW o \in DOMAIN orders, NEW left \in Nat, NEW fills \in FillSeqs,
         NEW stage \in {"sent", "live", "done"}, NEW s, s = Changed(o, left, fills, stage)
  PROVE  /\ s \in Seq(OrderRecs) /\ Len(s) = Len(orders) /\ DOMAIN s = DOMAIN orders
         /\ s[o].in = orders[o].in /\ s[o].left = left /\ s[o].fills = fills /\ s[o].stage = stage
         /\ \A i \in DOMAIN orders \ {o} : s[i] = orders[i]
         /\ \A i \in DOMAIN orders : s[i].in = orders[i].in
  <1> DEFINE r == [in |-> orders[o].in, left |-> left, fills |-> fills, stage |-> stage]
  <1>1. orders \in Seq(OrderRecs) BY DEF TypeInv
  <1>2. r \in OrderRecs BY OrderType DEF OrderRecs
  <1>3. r.in = orders[o].in /\ r.left = left /\ r.fills = fills /\ r.stage = stage OBVIOUS
  <1>4. s = [orders EXCEPT ![o] = r] BY DEF Changed
  <1> HIDE DEF r
  <1>5. s \in Seq(OrderRecs) /\ Len(s) = Len(orders) /\ DOMAIN s = DOMAIN orders BY <1>1, <1>2, <1>4
  <1>6. s[o] = r /\ \A i \in DOMAIN orders \ {o} : s[i] = orders[i] BY <1>1, <1>4
  <1> QED BY <1>3, <1>5, <1>6

ChangedTo(s, o, left, fills, stage) ==
  /\ s \in Seq(OrderRecs) /\ Len(s) = Len(orders) /\ DOMAIN s = DOMAIN orders
  /\ s[o].in = orders[o].in /\ s[o].left = left /\ s[o].fills = fills /\ s[o].stage = stage
  /\ \A i \in DOMAIN orders \ {o} : s[i] = orders[i]
  /\ \A i \in DOMAIN orders : s[i].in = orders[i].in

LEMMA ChangedFacts ==
  ASSUME TypeInv, NEW o \in DOMAIN orders, NEW left \in Nat, NEW fills \in FillSeqs,
         NEW stage \in {"sent", "live", "done"}, NEW s, s = Changed(o, left, fills, stage)
  PROVE  ChangedTo(s, o, left, fills, stage)
  BY OrderChanged, SMTT(30) DEF ChangedTo

LEMMA LeftsKept ==
  ASSUME TypeInv, NEW o \in DOMAIN orders, NEW left \in Nat, NEW fills \in FillSeqs,
         NEW stage \in {"sent", "live", "done"}, ChangedLeft(o, left, fills, stage),
         orders' = Changed(o, left, fills, stage), setup' = setup
  PROVE  orders' \in Seq(OrderRecs) /\ Len(orders') = Len(orders) /\ DOMAIN orders' = DOMAIN orders /\ Lefts'
  <1>1. /\ orders' \in Seq(OrderRecs) /\ Len(orders') = Len(orders) /\ DOMAIN orders' = DOMAIN orders
        /\ orders'[o].in = orders[o].in /\ orders'[o].left = left /\ orders'[o].fills = fills
        /\ orders'[o].stage = stage
        /\ \A i \in DOMAIN orders \ {o} : orders'[i] = orders[i]
    BY OrderChanged
  <1>2. Lefts'
    <2> SUFFICES ASSUME NEW i \in DOMAIN orders
                 PROVE  /\ orders'[i].left + Traded(orders'[i].fills) = orders'[i].in.volume
                        /\ orders'[i].stage = "sent" =>
                              orders'[i].left = orders'[i].in.volume /\ orders'[i].fills = <<>>
                        /\ setup'.broker = "ctp" /\ orders'[i].stage = "live" => orders'[i].left >= 1
      BY <1>1 DEF Lefts
    <2>1. CASE i = o BY <2>1, <1>1 DEF ChangedLeft
    <2>2. CASE i # o
      <3>1. orders'[i] = orders[i] BY <2>2, <1>1
      <3> QED BY <3>1, OrderType
    <2> QED BY <2>1, <2>2
  <1> QED BY <1>1, <1>2

\* cash only moves between the accounts of a book
CashKept == \A h \in Holders : Balance(book'[h]) = Balance(book[h])

\* the broker's side of TypeInv after a step that leaves the orders of the strategy alone
LEMMA InsertType ==
  ASSUME TypeInv, NEW in \in Requests, insert_order(in)
  PROVE  TypeInv' /\ CashKept
  <1> DEFINE r == [in |-> in, left |-> in.volume, fills |-> <<>>, stage |-> "sent"]
             x == (get_offset(book["strategy"], in) = "Open")
  <1>1. orders \in Seq(OrderRecs) /\ booked \in Seq(BOOLEAN) /\ Len(booked) = Len(orders) BY DEF TypeInv
  <1>2. r \in OrderRecs BY RequestType, TradedNone DEF OrderRecs
  <1>3. orders' = Append(orders, r) /\ booked' = Append(booked, x) BY DEF insert_order
  <1>4. r.in = in /\ r.left = in.volume /\ r.fills = <<>> /\ r.stage = "sent" /\ x \in BOOLEAN OBVIOUS
  <1>5. setup' = setup /\ mapped' = mapped /\ notes' = notes BY DEF insert_order
  <1>6. \A h \in Holders : /\ book'[h] = apply_order_input(book[h], in)
                           /\ book'[h] \in Books /\ Balance(book'[h]) = Balance(book[h])
    <2> TAKE h \in Holders
    <2>1. book[h] \in Books BY BookOf
    <2>2. book'[h] = apply_order_input(book[h], in) BY DEF insert_order
    <2> DEFINE offset == get_offset(book[h], in)
               d == get_direction(in.side, offset)
    <2>3. offset = get_offset(book[h], in) /\ d = get_direction(in.side, offset) OBVIOUS
    <2> HIDE DEF offset, d
    <2>4. book'[h] \in Books /\ Balance(book'[h]) = Balance(book[h]) BY <2>1, <2>2, <2>3, InputEffect
    <2> QED BY <2>2, <2>4
  <1>7. book' \in BookSets
    <2>1. book' = [h \in Holders |-> apply_order_input(book[h], in)] BY DEF insert_order
    <2>2. book' = [h \in Holders |-> book'[h]] BY <2>1
    <2> QED BY <1>6, <2>2 DEF BookSets
  <1> HIDE DEF r, x
  <1>8. /\ orders' \in Seq(OrderRecs) /\ Len(orders') = Len(orders) + 1 /\ Len(orders) \in Nat
        /\ orders'[Len(orders) + 1] = r
        /\ \A i \in 1 .. Len(orders) : orders'[i] = orders[i]
    BY <1>1, <1>2, <1>3
  <1>9. DOMAIN orders = 1 .. Len(orders) /\ DOMAIN orders' = 1 .. (Len(orders) + 1) BY <1>1, <1>8
  <1>10. Lefts'
    <2> SUFFICES ASSUME NEW i \in DOMAIN orders'
                 PROVE  /\ orders'[i].left + Traded(orders'[i].fills) = orders'[i].in.volume
                        /\ orders'[i].stage = "sent" =>
                              orders'[i].left = orders'[i].in.volume /\ orders'[i].fills = <<>>
                        /\ setup'.broker = "ctp" /\ orders'[i].stage = "live" => orders'[i].left >= 1
      BY DEF Lefts
    <2>1. CASE i \in DOMAIN orders
      <3>1. orders'[i] = orders[i] BY <2>1, <1>8, <1>9
      <3> QED BY <3>1, <2>1, <1>5, OrderType
    <2>2. CASE i \notin DOMAIN orders
      <3>1. i = Len(orders) + 1 BY <2>2, <1>8, <1>9
      <3>2. orders'[i] = r BY <3>1, <1>8
      <3>3. r.left + Traded(r.fills) = r.in.volume BY <1>4, TradedNone, RequestType
      <3>4. "sent" # "live" OBVIOUS
      <3> QED BY <3>2, <3>3, <3>4, <1>4
    <2> QED BY <2>1, <2>2
  <1>11. NotesInv'
    <2>1. DOMAIN orders \subseteq DOMAIN orders' BY <1>8, <1>9
    <2> QED BY <2>1, <1>5 DEF TypeInv, NotesInv
  <1>12. booked' \in Seq(BOOLEAN) /\ Len(booked') = Len(orders') BY <1>1, <1>3, <1>4, <1>8
  <1>13. mapped' \subseteq DOMAIN orders' BY <1>5, <1>8, <1>9 DEF TypeInv
  <1>14. setup' \in Setups /\ notes' \in Seq(NoteRecs) BY <1>5 DEF TypeInv
  <1> QED BY <1>6, <1>7, <1>8, <1>10, <1>11, <1>12, <1>13, <1>14 DEF TypeInv, CashKept

LEMMA QuoteType ==
  ASSUME TypeInv, NEW price \in Quotes, Quote(price)
  PROVE  TypeInv' /\ CashKept
  <1>1. price \in Nat BY FutureAssumption
  <1>2. \A h \in Holders : book'[h] = apply_quote(book[h], price) \/ book'[h] = book[h] BY DEF Quote
  <1>3. \A h \in Holders : book'[h] \in Books /\ Balance(book'[h]) = Balance(book[h])
    <2> TAKE h \in Holders
    <2>1. book[h] \in Books BY BookOf
    <2>2. CASE book'[h] = apply_quote(book[h], price)
      <3>1. book'[h] \in Books /\ Balance(book'[h]) = Balance(book[h]) BY <1>1, <2>1, <2>2, QuoteEffect
      <3> QED BY <3>1
    <2>3. CASE book'[h] = book[h] BY <2>1, <2>3
    <2> QED BY <1>2, <2>2, <2>3
  <1>4. book' \in BookSets
    <2>1. book' = [h \in Holders |-> IF \E d \in Directions : book[h].pos[d].volume # 0
                                     THEN apply_quote(book[h], price) ELSE book[h]] BY DEF Quote
    <2>2. book' = [h \in Holders |-> book'[h]] BY <2>1
    <2> QED BY <1>3, <2>2 DEF BookSets
  <1>5. UNCHANGED <<setup, orders, mapped, notes, booked>> BY DEF Quote, broker
  <1> QED BY <1>3, <1>4, <1>5 DEF TypeInv, CashKept, Lefts, NotesInv

\* f holds the books after an order and its first trades
SimRec(o, match, f) ==
  f = [k \in 0 .. Len(match.fills) |->
         IF k = 0 THEN update_book(book, OrderFrame(o, orders[o].in,
                                     orders[o].in.volume - Traded(match.fills), match.final), "strategy")
         ELSE update_book(f[k - 1], TradeFrame(o, orders[o].in, match.fills[k][1], match.fills[k][2]), "strategy")]

SimBooks(o, match, g) ==
  /\ g \in [0 .. Len(match.fills) -> BookSets]
  /\ g[0] = update_book(book, OrderFrame(o, orders[o].in,
                          orders[o].in.volume - Traded(match.fills), match.final), "strategy")
  /\ \A k \in 1 .. Len(match.fills) :
        g[k] = update_book(g[k - 1], TradeFrame(o, orders[o].in, match.fills[k][1], match.fills[k][2]), "strategy")

LEMMA SimBooksExist ==
  ASSUME TypeInv, NEW o \in DOMAIN orders, NEW match \in Matches(orders[o].in)
  PROVE  SimBooks(o, match, CHOOSE f : SimRec(o, match, f))
  <1> DEFINE in == orders[o].in
             fills == match.fills
             n == Len(fills)
             left == in.volume - Traded(fills)
             first == update_book(book, OrderFrame(o, in, left, match.final), "strategy")
             F == [k \in Nat |-> [x \in BookSets |->
                     IF k \in 1 .. n THEN update_book(x, TradeFrame(o, in, fills[k][1], fills[k][2]), "strategy")
                     ELSE x]]
  <1>1. /\ in \in Requests /\ o \in Int /\ fills \in FillSeqs /\ match.final \in BOOLEAN
        /\ Traded(fills) \in 0 .. in.volume /\ in.volume \in Nat
    BY OrderType, MatchType, RequestType
  <1>2. left \in Nat BY <1>1
  <1>3. n \in Nat /\ DOMAIN fills = 1 .. n BY <1>1 DEF FillSeqs
  <1> HIDE DEF in, fills, n, left
  <1>4. first \in BookSets
    <2>1. Sound(OrderFrame(o, in, left, match.final)) BY <1>1, <1>2, SoundOrder
    <2>2. book \in BookSets BY DEF TypeInv
    <2> QED BY <2>1, <2>2, UpdateSound
  <1>5. ASSUME NEW k \in 1 .. n, NEW x \in BookSets
        PROVE  update_book(x, TradeFrame(o, in, fills[k][1], fills[k][2]), "strategy") \in BookSets
    <2>1. fills[k][1] \in Nat /\ fills[k][2] \in Nat BY <1>1, FillVolumesType DEF n
    <2>2. Sound(TradeFrame(o, in, fills[k][1], fills[k][2])) BY <1>1, <2>1, SoundTrade
    <2> QED BY <2>2, UpdateSound
  <1>6. F \in [Nat -> [BookSets -> BookSets]] BY <1>5
  <1>7. \A k \in 1 .. n : \A x \in BookSets :
          F[k][x] = update_book(x, TradeFrame(o, in, fills[k][1], fills[k][2]), "strategy")
    <2> TAKE k \in 1 .. n
    <2> TAKE x \in BookSets
    <2>1. k \in Nat BY <1>3
    <2>2. F[k] = [y \in BookSets |->
                    IF k \in 1 .. n THEN update_book(y, TradeFrame(o, in, fills[k][1], fills[k][2]), "strategy")
                    ELSE y] BY <2>1
    <2> HIDE DEF F
    <2> QED BY <2>2
  <1> HIDE DEF F, first
  <1>8. PICK g \in [0 .. n -> BookSets] : \A k \in 0 .. n : g[k] = IF k = 0 THEN first ELSE F[k][g[k - 1]]
    <2>1. 0 \in Nat OBVIOUS
    <2>2. Recursive(BookSets, first, 0, n, F) BY <1>3, <1>4, <1>6, <2>1, Recursion, Zenon
    <2> QED BY <2>2 DEF Recursive
  <1>9. ASSUME NEW k \in 0 .. n
        PROVE  g[k] = IF k = 0 THEN first
                      ELSE update_book(g[k - 1], TradeFrame(o, in, fills[k][1], fills[k][2]), "strategy")
    <2>1. CASE k = 0 BY <2>1, <1>8
    <2>2. CASE k # 0
      <3>1. k - 1 \in 0 .. n /\ k \in 1 .. n BY <2>2, <1>3
      <3>2. g[k - 1] \in BookSets BY <3>1
      <3>3. g[k] = F[k][g[k - 1]] BY <2>2, <1>8
      <3> QED BY <3>1, <3>2, <3>3, <2>2, <1>7
    <2> QED BY <2>1, <2>2
  <1>10. g = [k \in 0 .. n |-> IF k = 0 THEN first
                ELSE update_book(g[k - 1], TradeFrame(o, in, fills[k][1], fills[k][2]), "strategy")]
    <2> DEFINE h == [k \in 0 .. n |-> IF k = 0 THEN first
                ELSE update_book(g[k - 1], TradeFrame(o, in, fills[k][1], fills[k][2]), "strategy")]
    <2>1. DOMAIN h = 0 .. n /\ \A k \in 0 .. n : h[k] = g[k] BY <1>9
    <2> QED BY <1>9
  <1>11. SimRec(o, match, g) BY <1>10 DEF SimRec, in, fills, n, left, first
  <1> DEFINE c == CHOOSE f : SimRec(o, match, f)
  <1>12. SimRec(o, match, c) BY <1>11
  <1> HIDE DEF c
  <1>13. c = [k \in 0 .. n |-> IF k = 0 THEN first
                ELSE update_book(c[k - 1], TradeFrame(o, in, fills[k][1], fills[k][2]), "strategy")]
    BY <1>12 DEF SimRec, in, fills, n, left, first
  <1>14. ASSUME NEW k \in 0 .. n
         PROVE  c[k] = IF k = 0 THEN first
                ELSE update_book(c[k - 1], TradeFrame(o, in, fills[k][1], fills[k][2]), "strategy")
    BY <1>13
  <1>15. \A k \in 0 .. n : c[k] \in BookSets
    <2> DEFINE D == {k \in 0 .. n : c[k] \notin BookSets}
    <2>1. D \in SUBSET Nat BY <1>3
    <2>2. SUFFICES ASSUME D # {} PROVE FALSE OBVIOUS
    <2>3. PICK k \in D : \A i \in D : k <= i
      <3> HIDE DEF D
      <3> QED BY <2>1, <2>2, LeastNat
    <2>4. k # 0 BY <1>3, <1>4, <1>14
    <2>5. k - 1 \in 0 .. n /\ k - 1 \notin D /\ k \in 1 .. n BY <2>3, <2>4, <1>3
    <2>6. c[k - 1] \in BookSets BY <2>5
    <2>7. c[k] \in BookSets BY <2>4, <2>5, <2>6, <1>5, <1>14
    <2> QED BY <2>7
  <1>16. c \in [0 .. n -> BookSets] BY <1>13, <1>15
  <1>17. c[0] = first BY <1>3, <1>14
  <1>18. \A k \in 1 .. n : c[k] = update_book(c[k - 1], TradeFrame(o, in, fills[k][1], fills[k][2]), "strategy")
    BY <1>14
  <1>19. SimBooks(o, match, c) BY <1>16, <1>17, <1>18 DEF SimBooks, in, fills, n, left, first
  <1> QED BY <1>19 DEF c

\* the step of the simulated broker, its books named
SimStep(o, match, g) ==
  /\ match \in Matches(orders[o].in)
  /\ SimBooks(o, match, g)
  /\ orders' = [orders EXCEPT ![o].left = orders[o].in.volume - Traded(match.fills), ![o].fills = match.fills,
                              ![o].stage = IF match.final THEN "done" ELSE "live"]
  /\ book' = g[Len(match.fills)]
  /\ odd' = odd \cup Flips(book, o) \cup UNION {Flips(g[k - 1], o) : k \in DOMAIN match.fills}

LEMMA SimUnfold ==
  ASSUME TypeInv, NEW o \in DOMAIN orders, sim_insert_order(o)
  PROVE  \E match : \E g : SimStep(o, match, g)
  <1>1. PICK match \in Matches(orders[o].in) :
          /\ orders' = [orders EXCEPT ![o].left = orders[o].in.volume - Traded(match.fills),
                                      ![o].fills = match.fills,
                                      ![o].stage = IF match.final THEN "done" ELSE "live"]
          /\ book' = (CHOOSE f : SimRec(o, match, f))[Len(match.fills)]
          /\ odd' = odd \cup Flips(book, o)
                        \cup UNION {Flips((CHOOSE f : SimRec(o, match, f))[k - 1], o) : k \in DOMAIN match.fills}
    BY DEF sim_insert_order, SimRec
  <1>2. SimBooks(o, match, CHOOSE f : SimRec(o, match, f)) BY SimBooksExist
  <1> DEFINE g == CHOOSE f : SimRec(o, match, f)
  <1> HIDE DEF g
  <1>3. SimStep(o, match, g) BY <1>1, <1>2 DEF SimStep, g
  <1> QED BY <1>3

LEMMA SimBooksBalance ==
  ASSUME TypeInv, NEW o \in DOMAIN orders, NEW match \in Matches(orders[o].in), NEW g, SimBooks(o, match, g)
  PROVE  \A k \in 0 .. Len(match.fills) : \A h \in Holders : Balance(g[k][h]) = Balance(book[h])
  <1> DEFINE in == orders[o].in
             fills == match.fills
             n == Len(fills)
             left == in.volume - Traded(fills)
  <1>1. /\ in \in Requests /\ o \in Int /\ fills \in FillSeqs /\ match.final \in BOOLEAN
        /\ Traded(fills) \in 0 .. in.volume /\ in.volume \in Nat
    BY OrderType, MatchType, RequestType
  <1>2. left \in Nat BY <1>1
  <1>3. n \in Nat BY <1>1 DEF FillSeqs
  <1>4. /\ g \in [0 .. n -> BookSets]
        /\ g[0] = update_book(book, OrderFrame(o, in, left, match.final), "strategy")
        /\ \A k \in 1 .. n : g[k] = update_book(g[k - 1], TradeFrame(o, in, fills[k][1], fills[k][2]), "strategy")
    BY DEF SimBooks
  <1> HIDE DEF in, left, n
  <1>5. \A h \in Holders : Balance(g[0][h]) = Balance(book[h])
    <2>1. Sound(OrderFrame(o, in, left, match.final)) BY <1>1, <1>2, SoundOrder
    <2>2. book \in BookSets BY DEF TypeInv
    <2> QED BY <2>1, <2>2, <1>4, UpdateSound
  <1> DEFINE D == {k \in 0 .. n : \E h \in Holders : Balance(g[k][h]) # Balance(book[h])}
  <1>6. D \in SUBSET Nat BY <1>3
  <1>7. SUFFICES ASSUME D # {} PROVE FALSE BY DEF n
  <1>8. PICK k \in D : \A i \in D : k <= i
    <2> HIDE DEF D
    <2> QED BY <1>6, <1>7, LeastNat
  <1>9. k # 0 BY <1>5
  <1>10. k \in 1 .. n /\ k - 1 \in 0 .. n /\ k - 1 \notin D BY <1>3, <1>8, <1>9
  <1>11. fills[k][1] \in Nat /\ fills[k][2] \in Nat BY <1>1, <1>10, FillVolumesType DEF n
  <1>12. Sound(TradeFrame(o, in, fills[k][1], fills[k][2])) BY <1>1, <1>11, SoundTrade
  <1>13. g[k - 1] \in BookSets BY <1>4, <1>10
  <1>14. g[k] = update_book(g[k - 1], TradeFrame(o, in, fills[k][1], fills[k][2]), "strategy") BY <1>4, <1>10
  <1>15. \A h \in Holders : Balance(g[k][h]) = Balance(g[k - 1][h]) BY <1>12, <1>13, <1>14, UpdateSound
  <1>16. \A h \in Holders : Balance(g[k - 1][h]) = Balance(book[h]) BY <1>10
  <1> QED BY <1>8, <1>15, <1>16

LEMMA SimInsertType ==
  ASSUME TypeInv, NEW o \in DOMAIN orders, sim_insert_order(o)
  PROVE  TypeInv' /\ CashKept
  <1>1. PICK match : \E g : SimStep(o, match, g) BY SimUnfold
  <1>2. PICK g : SimStep(o, match, g) BY <1>1
  <1> DEFINE left == orders[o].in.volume - Traded(match.fills)
             stage == IF match.final THEN "done" ELSE "live"
  <1>3. match \in Matches(orders[o].in) /\ SimBooks(o, match, g) BY <1>2 DEF SimStep
  <1>4. /\ match.fills \in FillSeqs /\ Traded(match.fills) \in 0 .. orders[o].in.volume
        /\ orders[o].in.volume \in Nat
    BY <1>3, OrderType, MatchType, RequestType
  <1>5. left \in Nat /\ left + Traded(match.fills) = orders[o].in.volume BY <1>4
  <1>6. stage \in {"sent", "live", "done"} /\ stage # "sent" OBVIOUS
  <1>7. setup.broker = "sim" /\ setup' = setup /\ mapped' = mapped \cup {o} /\ notes' = notes /\ booked' = booked
    BY DEF sim_insert_order
  <1>8. orders' = Changed(o, left, match.fills, stage)
    <2>1. orders' = SetOrder(o, left, match.fills, stage) BY <1>2 DEF SimStep, SetOrder
    <2> HIDE DEF left, stage
    <2> QED BY <2>1, <1>4, <1>5, <1>6, SetIs, Zenon
  <1> HIDE DEF left, stage
  <1>9. ChangedLeft(o, left, match.fills, stage) BY <1>5, <1>6, <1>7 DEF ChangedLeft
  <1>10. /\ orders' \in Seq(OrderRecs) /\ Len(orders') = Len(orders) /\ DOMAIN orders' = DOMAIN orders
         /\ Lefts'
    BY <1>4, <1>5, <1>6, <1>7, <1>8, <1>9, LeftsKept
  <1>11. Len(match.fills) \in Nat BY <1>4 DEF FillSeqs
  <1>12. Len(match.fills) \in 0 .. Len(match.fills) BY <1>11
  <1>13. book' = g[Len(match.fills)] BY <1>2 DEF SimStep
  <1>14. book' \in BookSets BY <1>3, <1>12, <1>13 DEF SimBooks
  <1>15. CashKept BY <1>3, <1>12, <1>13, SimBooksBalance DEF CashKept
  <1> QED BY <1>7, <1>10, <1>14, <1>15 DEF TypeInv, NotesInv

LEMMA SimCancelType ==
  ASSUME TypeInv, NEW o \in DOMAIN orders, sim_cancel_order(o)
  PROVE  TypeInv' /\ CashKept
  <1>1. setup.broker = "sim" /\ setup' = setup /\ mapped' = mapped \ {o} /\ notes' = notes /\ booked' = booked
    BY DEF sim_cancel_order
  <1>2. CASE orders[o].left = 0
    <2>1. orders' = orders /\ book' = book BY <1>2 DEF sim_cancel_order
    <2> QED BY <1>1, <2>1 DEF TypeInv, Lefts, NotesInv, CashKept
  <1>3. CASE orders[o].left # 0
    <2> DEFINE frame == OrderFrame(o, orders[o].in, orders[o].left, TRUE)
    <2>1. /\ orders' = [orders EXCEPT ![o].stage = "done"]
          /\ book' = update_book(book, frame, "strategy")
      BY <1>3 DEF sim_cancel_order
    <2>2. orders' = Changed(o, orders[o].left, orders[o].fills, "done")
      BY <2>1, OrderType, ChangedIs
    <2>3. ChangedLeft(o, orders[o].left, orders[o].fills, "done") BY OrderType DEF ChangedLeft
    <2>4. /\ orders' \in Seq(OrderRecs) /\ Len(orders') = Len(orders) /\ DOMAIN orders' = DOMAIN orders
          /\ Lefts'
      BY <1>1, <2>2, <2>3, OrderType, LeftsKept
    <2>5. Sound(frame) BY OrderType, SoundOrder
    <2> HIDE DEF frame
    <2>6. book \in BookSets BY DEF TypeInv
    <2>7. book' \in BookSets /\ \A h \in Holders : Balance(book'[h]) = Balance(book[h])
      BY <2>1, <2>5, <2>6, UpdateSound
    <2> QED BY <1>1, <2>4, <2>7 DEF TypeInv, NotesInv, CashKept
  <1> QED BY <1>2, <1>3

\* a step of the CTP broker that leaves the books alone and adds notifications
LEMMA NotesAdded ==
  ASSUME TypeInv, NEW o \in DOMAIN orders, NEW left \in Nat, NEW fills \in FillSeqs,
         NEW stage \in {"sent", "live", "done"}, ChangedLeft(o, left, fills, stage),
         orders' = Changed(o, left, fills, stage), setup.broker = "ctp",
         NEW more \in Seq(NoteRecs), notes' = notes \o more, \A i \in DOMAIN more : more[i].o = o,
         mapped' \subseteq DOMAIN orders, setup' = setup, book' = book, booked' = booked
  PROVE  TypeInv' /\ CashKept
  <1>1. /\ orders' \in Seq(OrderRecs) /\ Len(orders') = Len(orders) /\ DOMAIN orders' = DOMAIN orders
        /\ Lefts'
    BY LeftsKept
  <1>2. notes \in Seq(NoteRecs) /\ \A i \in DOMAIN notes : notes[i].o \in DOMAIN orders
    BY DEF TypeInv, NotesInv
  <1>3. notes' \in Seq(NoteRecs) BY <1>2
  <1>4. NotesInv'
    <2>1. \A i \in DOMAIN notes' : notes'[i].o \in DOMAIN orders BY <1>2
    <2>2. setup.broker # "sim" OBVIOUS
    <2> QED BY <1>1, <2>1, <2>2 DEF NotesInv
  <1> QED BY <1>1, <1>3, <1>4 DEF TypeInv, CashKept

LEMMA AppendIs ==
  ASSUME NEW S, NEW s \in Seq(S), NEW n \in S
  PROVE  Append(s, n) = s \o << n >>
  <1> DEFINE t == Append(s, n)
             u == s \o << n >>
  <1>1. << n >> \in Seq(S) /\ Len(<< n >>) = 1 /\ << n >>[1] = n OBVIOUS
  <1>2. t \in Seq(S) /\ u \in Seq(S) /\ Len(t) = Len(u) BY <1>1
  <1>3. \A i \in 1 .. Len(t) : t[i] = u[i] OBVIOUS
  <1> HIDE DEF t, u
  <1>4. t = u BY <1>2, <1>3
  <1> QED BY <1>4 DEF t, u

LEMMA PairIs ==
  ASSUME NEW S, NEW n \in S, NEW m \in S
  PROVE  << n >> \in Seq(S) /\ << m >> \in Seq(S) /\ << n, m >> = << n >> \o << m >>
  <1> DEFINE t == << n, m >>
             u == << n >> \o << m >>
  <1>1. << n >> \in Seq(S) /\ << m >> \in Seq(S) /\ Len(<< n >>) = 1 /\ Len(<< m >>) = 1 OBVIOUS
  <1>2. t \in Seq(S) /\ u \in Seq(S) /\ Len(t) = 2 /\ Len(u) = 2 BY <1>1
  <1>3. t[1] = u[1] /\ t[2] = u[2] OBVIOUS
  <1> HIDE DEF t, u
  <1>4. \A i \in 1 .. Len(t) : t[i] = u[i] BY <1>2, <1>3
  <1>5. t = u BY <1>2, <1>4, SameSeq
  <1> QED BY <1>1, <1>5 DEF t, u

LEMMA NoteType ==
  ASSUME NEW on \in {"order", "trade", "insert_rejected", "qry_order", "qry_trade"}, NEW o \in Nat,
         NEW left \in Nat, NEW final \in BOOLEAN, NEW price \in Nat
  PROVE  /\ Note(on, o, left, final, price) \in NoteRecs
         /\ Note(on, o, left, final, price).on = on /\ Note(on, o, left, final, price).o = o
         /\ Note(on, o, left, final, price).left = left /\ Note(on, o, left, final, price).final = final
         /\ Note(on, o, left, final, price).price = price
  BY DEF NoteRecs, Note

LEMMA InsertRefusedType ==
  ASSUME TypeInv, NEW o \in DOMAIN orders, ctp_insert_refused(o)
  PROVE  TypeInv' /\ CashKept
  <1> DEFINE frame == OrderFrame(o, orders[o].in, orders[o].left, TRUE)
  <1>1. /\ setup.broker = "ctp" /\ setup' = setup /\ mapped' = mapped /\ notes' = notes /\ booked' = booked
        /\ orders' = [orders EXCEPT ![o].stage = "done"] /\ book' = write_both(book, frame, TRUE)
    BY DEF ctp_insert_refused, Ctp
  <1>2. orders' = Changed(o, orders[o].left, orders[o].fills, "done")
    BY <1>1, OrderType, ChangedIs
  <1>3. ChangedLeft(o, orders[o].left, orders[o].fills, "done") BY OrderType DEF ChangedLeft
  <1>4. /\ orders' \in Seq(OrderRecs) /\ Len(orders') = Len(orders) /\ DOMAIN orders' = DOMAIN orders
        /\ Lefts'
    BY <1>1, <1>2, <1>3, OrderType, LeftsKept
  <1>5. Sound(frame) BY OrderType, SoundOrder
  <1> HIDE DEF frame
  <1>6. book \in BookSets /\ TRUE \in BOOLEAN BY DEF TypeInv
  <1>7. book' \in BookSets /\ \A h \in Holders : Balance(book'[h]) = Balance(book[h])
    BY <1>1, <1>5, <1>6, WriteBothSound, ZenonT(30)
  <1> QED BY <1>1, <1>4, <1>7 DEF TypeInv, NotesInv, CashKept

LEMMA CtpInsertType ==
  ASSUME TypeInv, NEW o \in DOMAIN orders, ctp_insert_order(o)
  PROVE  TypeInv' /\ CashKept
  <1> DEFINE n == Note("order", o, orders[o].left, FALSE, 0)
             more == << n >>
  <1>1. /\ setup.broker = "ctp" /\ orders[o].stage = "sent" /\ setup' = setup /\ mapped' = mapped \cup {o}
        /\ booked' = booked /\ book' = book
        /\ orders' = [orders EXCEPT ![o].stage = "live"] /\ notes' = Append(notes, n)
    BY DEF ctp_insert_order, Ctp
  <1>2. orders' = Changed(o, orders[o].left, orders[o].fills, "live")
    BY <1>1, OrderType, ChangedIs
  <1>3. ChangedLeft(o, orders[o].left, orders[o].fills, "live") BY <1>1, OrderType, RequestType DEF ChangedLeft
  <1>4. n \in NoteRecs /\ n.o = o BY OrderType DEF Note, NoteRecs
  <1> HIDE DEF n
  <1>5. more \in Seq(NoteRecs) /\ \A i \in DOMAIN more : more[i].o = o BY <1>4
  <1>6. notes \in Seq(NoteRecs) BY DEF TypeInv
  <1>7. notes' = notes \o more BY <1>1, <1>4, <1>6, AppendIs
  <1>8. mapped' \subseteq DOMAIN orders BY <1>1 DEF TypeInv
  <1> HIDE DEF more
  <1> QED BY <1>1, <1>2, <1>3, <1>5, <1>7, <1>8, OrderType, NotesAdded

LEMMA CtpRejectType ==
  ASSUME TypeInv, NEW o \in DOMAIN orders, ctp_reject(o)
  PROVE  TypeInv' /\ CashKept
  <1> DEFINE n == Note("insert_rejected", o, 0, TRUE, 0)
             more == << n >>
  <1>1. /\ setup.broker = "ctp" /\ setup' = setup /\ mapped' = mapped
        /\ booked' = booked /\ book' = book
        /\ orders' = [orders EXCEPT ![o].stage = "done"] /\ notes' = Append(notes, n)
    BY DEF ctp_reject, Ctp
  <1>2. orders' = Changed(o, orders[o].left, orders[o].fills, "done")
    BY <1>1, OrderType, ChangedIs
  <1>3. ChangedLeft(o, orders[o].left, orders[o].fills, "done") BY OrderType DEF ChangedLeft
  <1>4. n \in NoteRecs /\ n.o = o BY OrderType DEF Note, NoteRecs
  <1> HIDE DEF n
  <1>5. more \in Seq(NoteRecs) /\ \A i \in DOMAIN more : more[i].o = o BY <1>4
  <1>6. notes \in Seq(NoteRecs) BY DEF TypeInv
  <1>7. notes' = notes \o more BY <1>1, <1>4, <1>6, AppendIs
  <1>8. mapped' \subseteq DOMAIN orders BY <1>1 DEF TypeInv
  <1> HIDE DEF more
  <1> QED BY <1>1, <1>2, <1>3, <1>5, <1>7, <1>8, OrderType, NotesAdded

LEMMA CtpCancelType ==
  ASSUME TypeInv, NEW o \in DOMAIN orders, ctp_cancel_order(o)
  PROVE  TypeInv' /\ CashKept
  <1> DEFINE n == Note("order", o, orders[o].left, TRUE, 0)
             more == << n >>
  <1>1. /\ setup.broker = "ctp" /\ setup' = setup /\ mapped' = mapped
        /\ booked' = booked /\ book' = book
        /\ orders' = [orders EXCEPT ![o].stage = "done"] /\ notes' = Append(notes, n)
    BY DEF ctp_cancel_order, Ctp
  <1>2. orders' = Changed(o, orders[o].left, orders[o].fills, "done")
    BY <1>1, OrderType, ChangedIs
  <1>3. ChangedLeft(o, orders[o].left, orders[o].fills, "done") BY OrderType DEF ChangedLeft
  <1>4. n \in NoteRecs /\ n.o = o BY OrderType DEF Note, NoteRecs
  <1> HIDE DEF n
  <1>5. more \in Seq(NoteRecs) /\ \A i \in DOMAIN more : more[i].o = o BY <1>4
  <1>6. notes \in Seq(NoteRecs) BY DEF TypeInv
  <1>7. notes' = notes \o more BY <1>1, <1>4, <1>6, AppendIs
  <1>8. mapped' \subseteq DOMAIN orders BY <1>1 DEF TypeInv
  <1> HIDE DEF more
  <1> QED BY <1>1, <1>2, <1>3, <1>5, <1>7, <1>8, OrderType, NotesAdded

\* one lot traded at a price, as the exchange tells it
FillStep(o, price, left) ==
  /\ price \in Nat /\ left = orders[o].left - 1
  /\ orders' = Changed(o, left, Append(orders[o].fills, <<1, price>>), IF left = 0 THEN "done" ELSE "live")
  /\ notes' = notes \o << Note("order", o, left, left = 0, 0), Note("trade", o, left, FALSE, price) >>

LEMMA FillUnfold ==
  ASSUME TypeInv, NEW o \in DOMAIN orders, ctp_fill(o)
  PROVE  \E price : FillStep(o, price, orders[o].left - 1)
  <1>1. PICK price \in {orders[o].in.price} \cup
                       {q \in Quotes : (q < orders[o].in.price) = (orders[o].in.side = "Buy")} :
          /\ orders' = [orders EXCEPT ![o].left = orders[o].left - 1, ![o].fills = Append(@, <<1, price>>),
                                      ![o].stage = IF orders[o].left - 1 = 0 THEN "done" ELSE "live"]
          /\ notes' = notes \o << Note("order", o, orders[o].left - 1, orders[o].left - 1 = 0, 0),
                                  Note("trade", o, orders[o].left - 1, FALSE, price) >>
    BY DEF ctp_fill
  <1>2. price \in Nat
    <2>1. orders[o].in.price \in Nat BY OrderType, RequestType
    <2> QED BY <2>1, FutureAssumption
  <1>3. orders' = Changed(o, orders[o].left - 1, Append(orders[o].fills, <<1, price>>),
                          IF orders[o].left - 1 = 0 THEN "done" ELSE "live")
    <2> DEFINE left == orders[o].left - 1
               fills == Append(orders[o].fills, <<1, price>>)
               stage == IF orders[o].left - 1 = 0 THEN "done" ELSE "live"
    <2>1. orders' = SetOrder(o, left, fills, stage) BY <1>1 DEF SetOrder
    <2>2. left \in Nat BY OrderType DEF ctp_fill, Ctp
    <2>3. stage \in {"sent", "live", "done"} OBVIOUS
    <2>4. 1 \in Nat OBVIOUS
    <2>5. fills \in FillSeqs BY <1>2, <2>4, OrderType, TradedAppend
    <2> HIDE DEF left, fills, stage
    <2>6. orders' = Changed(o, left, fills, stage) BY <2>1, <2>2, <2>3, <2>5, SetIs, Zenon
    <2> QED BY <2>6 DEF left, fills, stage
  <1> QED BY <1>1, <1>2, <1>3 DEF FillStep

LEMMA CtpFillType ==
  ASSUME TypeInv, NEW o \in DOMAIN orders, ctp_fill(o)
  PROVE  TypeInv' /\ CashKept
  <1> DEFINE left == orders[o].left - 1
  <1>1. PICK price : FillStep(o, price, left) BY FillUnfold
  <1> DEFINE fills == Append(orders[o].fills, <<1, price>>)
             stage == IF left = 0 THEN "done" ELSE "live"
             n == Note("order", o, left, left = 0, 0)
             m == Note("trade", o, left, FALSE, price)
             more == << n, m >>
  <1>2. /\ setup.broker = "ctp" /\ orders[o].stage = "live" /\ setup' = setup /\ mapped' = mapped
        /\ booked' = booked /\ book' = book
    BY DEF ctp_fill, Ctp
  <1>3. orders[o].left \in Nat /\ orders[o].left >= 1 BY <1>2, OrderType
  <1>4. left \in Nat /\ price \in Nat BY <1>1, <1>3 DEF FillStep
  <1>5. fills \in FillSeqs /\ Traded(fills) = Traded(orders[o].fills) + 1
    <2>1. 1 \in Nat OBVIOUS
    <2> QED BY <2>1, <1>4, OrderType, TradedAppend
  <1>6. orders' = Changed(o, left, fills, stage) /\ notes' = notes \o more BY <1>1 DEF FillStep
  <1>7. n \in NoteRecs /\ n.o = o /\ m \in NoteRecs /\ m.o = o
    <2>1. (left = 0) \in BOOLEAN /\ 0 \in Nat /\ o \in Nat BY OrderType
    <2> DEFINE end == (left = 0)
    <2>2. end \in BOOLEAN OBVIOUS
    <2>3. n = Note("order", o, left, end, 0) OBVIOUS
    <2> HIDE DEF end, left
    <2> QED BY <2>1, <2>2, <2>3, <1>4 DEF Note, NoteRecs
  <1>8. stage \in {"sent", "live", "done"} /\ stage # "sent" /\ (stage = "live" => left # 0) OBVIOUS
  <1>9. left + Traded(fills) = orders[o].in.volume
    <2>1. orders[o].left + Traded(orders[o].fills) = orders[o].in.volume /\ Traded(orders[o].fills) \in Nat
      BY OrderType, TradedNat
    <2> QED BY <2>1, <1>3, <1>5
  <1> HIDE DEF left, fills, stage, n, m
  <1>10. ChangedLeft(o, left, fills, stage) BY <1>4, <1>8, <1>9 DEF ChangedLeft
  <1>11. more \in Seq(NoteRecs) /\ \A i \in DOMAIN more : more[i].o = o BY <1>7
  <1>12. mapped' \subseteq DOMAIN orders BY <1>2 DEF TypeInv
  <1> HIDE DEF more
  <1> QED BY <1>2, <1>4, <1>5, <1>6, <1>8, <1>10, <1>11, <1>12, NotesAdded

\* notifications that answer a query
Answers == {n \in NoteRecs : n.o \in DOMAIN orders /\ n.on \in {"qry_order", "qry_trade"}}

OrderAnswers == [o \in DOMAIN orders |-> Note("qry_order", o, orders[o].left, orders[o].stage = "done", 0)]

TradeAnswers == [o \in DOMAIN orders |->
                   [k \in DOMAIN orders[o].fills |-> Note("qry_trade", o, 0, FALSE, orders[o].fills[k][2])]]

LEMMA AnswersType ==
  ASSUME TypeInv
  PROVE  OrderAnswers \in Seq(Answers) /\ FlattenSeq(TradeAnswers) \in Seq(Answers)
  <1>1. orders \in Seq(OrderRecs) BY DEF TypeInv
  <1>2. Len(orders) \in Nat /\ DOMAIN orders = 1 .. Len(orders) BY <1>1
  <1>3. ASSUME NEW o \in DOMAIN orders
        PROVE  Note("qry_order", o, orders[o].left, orders[o].stage = "done", 0) \in Answers
    <2> DEFINE end == (orders[o].stage = "done")
               n == Note("qry_order", o, orders[o].left, end, 0)
    <2>1. end \in BOOLEAN OBVIOUS
    <2> HIDE DEF end
    <2>2. n \in NoteRecs /\ n.on = "qry_order" /\ n.o = o BY <2>1, OrderType, NoteType, SMTT(30)
    <2> HIDE DEF n
    <2>3. n \in Answers BY <2>2 DEF Answers
    <2> QED BY <2>3 DEF n, end
  <1>4. OrderAnswers \in Seq(Answers)
    <2>1. OrderAnswers \in [1 .. Len(orders) -> Answers] BY <1>2, <1>3 DEF OrderAnswers
    <2> QED BY <1>2, <2>1
  <1>5. ASSUME NEW o \in DOMAIN orders
        PROVE  [k \in DOMAIN orders[o].fills |-> Note("qry_trade", o, 0, FALSE, orders[o].fills[k][2])]
                 \in Seq(Answers)
    <2> DEFINE fills == orders[o].fills
               s == [k \in DOMAIN fills |-> Note("qry_trade", o, 0, FALSE, fills[k][2])]
    <2>1. fills \in FillSeqs BY OrderType
    <2> HIDE DEF fills
    <2>2. Len(fills) \in Nat /\ DOMAIN fills = 1 .. Len(fills) BY <2>1 DEF FillSeqs
    <2>3. ASSUME NEW k \in 1 .. Len(fills) PROVE Note("qry_trade", o, 0, FALSE, fills[k][2]) \in Answers
      <3> DEFINE price == fills[k][2]
                 n == Note("qry_trade", o, 0, FALSE, price)
      <3>1. price \in Nat BY <2>1, FillVolumesType
      <3> HIDE DEF price
      <3>2. n \in NoteRecs /\ n.on = "qry_trade" /\ n.o = o BY <3>1, OrderType DEF Note, NoteRecs
      <3> HIDE DEF n
      <3>3. n \in Answers BY <3>2 DEF Answers
      <3> QED BY <3>3 DEF n, price
    <2>4. s \in [1 .. Len(fills) -> Answers] BY <2>2, <2>3
    <2>5. s \in Seq(Answers)
      <3> HIDE DEF s
      <3> QED BY <2>2, <2>4
    <2> QED BY <2>5 DEF fills
  <1>6. TradeAnswers \in [1 .. Len(orders) -> Seq(Answers)] BY <1>2, <1>5 DEF TradeAnswers
  <1>7. TradeAnswers \in Seq(Seq(Answers)) BY <1>2, <1>6
  <1>8. FlattenSeq(TradeAnswers) \in Seq(Answers) BY <1>7, FlattenType
  <1> QED BY <1>4, <1>8

LEMMA ReqType ==
  ASSUME TypeInv, ctp_req_order_trade
  PROVE  TypeInv' /\ CashKept
  <1> DEFINE A == OrderAnswers
             B == FlattenSeq(TradeAnswers)
  <1>1. notes' = notes \o A \o B BY DEF ctp_req_order_trade, OrderAnswers, TradeAnswers
  <1>2. /\ setup.broker = "ctp" /\ setup' = setup /\ orders' = orders /\ mapped' = mapped
        /\ booked' = booked /\ book' = book
    BY DEF ctp_req_order_trade
  <1>3. A \in Seq(Answers) /\ B \in Seq(Answers) BY AnswersType
  <1>4. notes \in Seq(NoteRecs) /\ \A i \in DOMAIN notes : notes[i].o \in DOMAIN orders
    BY DEF TypeInv, NotesInv
  <1> HIDE DEF A, B
  <1>5. \A a \in Answers : a \in NoteRecs /\ a.o \in DOMAIN orders BY DEF Answers
  <1> DEFINE S == {n \in NoteRecs : n.o \in DOMAIN orders}
  <1>6. notes \in Seq(S) /\ A \in Seq(S) /\ B \in Seq(S)
    <2>1. \A i \in 1 .. Len(notes) : notes[i] \in NoteRecs BY <1>4
    <2>2. \A i \in 1 .. Len(notes) : notes[i] \in S BY <1>4, <2>1
    <2> HIDE DEF S
    <2>3. notes \in Seq(S) BY <1>4, <2>2
    <2>4. Answers \subseteq S BY <1>5 DEF S
    <2> QED BY <1>3, <2>3, <2>4
  <1>7. notes' \in Seq(S)
    <2> HIDE DEF S
    <2> QED BY <1>1, <1>6
  <1>8. \A i \in DOMAIN notes' : notes'[i] \in S
    <2> HIDE DEF S
    <2> QED BY <1>7
  <1>9. notes' \in Seq(NoteRecs)
    <2>1. S \subseteq NoteRecs OBVIOUS
    <2> HIDE DEF S
    <2> QED BY <1>7, <2>1
  <1>10. NotesInv'
    <2>1. \A i \in DOMAIN notes' : notes'[i].o \in DOMAIN orders BY <1>8
    <2>2. setup'.broker # "sim" BY <1>2
    <2> QED BY <1>2, <2>1, <2>2 DEF NotesInv
  <1> QED BY <1>2, <1>9, <1>10 DEF TypeInv, CashKept, Lefts

\* the report of a notification, and the step that handles it
ReportFrame(note) ==
  IF note.on \in {"trade", "qry_trade"} THEN TradeFrame(resolve_order_id(note.o), orders[note.o].in, 1, note.price)
  ELSE OrderFrame(resolve_order_id(note.o), orders[note.o].in, note.left, note.final)

LEMMA HandleUnfold ==
  ASSUME TypeInv, ctp_handle, NEW note, note = notes[1]
  PROVE  /\ notes # <<>> /\ notes' = Tail(notes) /\ note \in NoteRecs /\ note.o \in DOMAIN orders
         /\ setup.broker = "ctp"
         /\ note.on = "insert_rejected" /\ note.o \notin mapped => book' = book
         /\ ~(note.on = "insert_rejected" /\ note.o \notin mapped) =>
               book' = write_both(book, ReportFrame(note), note.o \in mapped)
         /\ mapped' = Erased(note) /\ odd' = odd \cup Oddities(note)
         /\ setup' = setup /\ orders' = orders /\ booked' = booked
         /\ Sound(ReportFrame(note))
         /\ note.on \in {"trade", "qry_trade"} =>
               ReportFrame(note) = TradeFrame(resolve_order_id(note.o), orders[note.o].in, 1, note.price)
         /\ note.on \notin {"trade", "qry_trade"} =>
               ReportFrame(note) = OrderFrame(resolve_order_id(note.o), orders[note.o].in, note.left, note.final)
  <1>1. notes # <<>> /\ notes' = Tail(notes) /\ notes \in Seq(NoteRecs) BY DEF ctp_handle, TypeInv
  <1>2. Head(notes) = note /\ 1 \in DOMAIN notes BY <1>1
  <1>3. note \in NoteRecs /\ note.o \in DOMAIN orders BY <1>1, <1>2 DEF TypeInv, NotesInv
  <1>4. setup.broker = "ctp" BY <1>1, SetupType DEF TypeInv, NotesInv
  <1>5. /\ book' = IF note.on = "insert_rejected" /\ note.o \notin mapped THEN book
                   ELSE write_both(book, ReportFrame(note), note.o \in mapped)
        /\ mapped' = Erased(note) /\ odd' = odd \cup Oddities(note)
        /\ setup' = setup /\ orders' = orders /\ booked' = booked
    BY <1>2 DEF ctp_handle, ReportFrame
  <1>6. resolve_order_id(note.o) \in Int BY <1>3, OrderType DEF resolve_order_id
  <1>7. /\ note.left \in Nat /\ note.final \in BOOLEAN /\ note.price \in Nat /\ 1 \in Nat
        /\ orders[note.o].in \in Requests
    BY <1>3, OrderType DEF NoteRecs
  <1>8. Sound(ReportFrame(note))
    <2>1. Sound(TradeFrame(resolve_order_id(note.o), orders[note.o].in, 1, note.price))
      BY <1>6, <1>7, SoundTrade
    <2>2. Sound(OrderFrame(resolve_order_id(note.o), orders[note.o].in, note.left, note.final))
      BY <1>6, <1>7, SoundOrder
    <2> QED BY <2>1, <2>2, Zenon DEF ReportFrame
  <1> QED BY <1>1, <1>3, <1>4, <1>5, <1>8 DEF ReportFrame

LEMMA HandleType ==
  ASSUME TypeInv, ctp_handle
  PROVE  TypeInv' /\ CashKept
  <1> DEFINE note == notes[1]
             frame == ReportFrame(note)
             source == (note.o \in mapped)
  <1>1. /\ notes # <<>> /\ notes' = Tail(notes) /\ setup.broker = "ctp"
        /\ note.on = "insert_rejected" /\ note.o \notin mapped => book' = book
        /\ ~(note.on = "insert_rejected" /\ note.o \notin mapped) => book' = write_both(book, frame, source)
        /\ mapped' = Erased(note) /\ Sound(frame)
        /\ setup' = setup /\ orders' = orders /\ booked' = booked
    BY HandleUnfold
  <1>2. source \in BOOLEAN OBVIOUS
  <1>3. book \in BookSets /\ notes \in Seq(NoteRecs) /\ mapped \subseteq DOMAIN orders BY DEF TypeInv
  <1> HIDE DEF frame, source
  <1>4. book' \in BookSets /\ \A h \in Holders : Balance(book'[h]) = Balance(book[h])
    <2>1. CASE book' = book BY <2>1, <1>3
    <2>2. CASE book' = write_both(book, frame, source) BY <2>2, <1>1, <1>2, <1>3, WriteBothSound
    <2> QED BY <1>1, <2>1, <2>2
  <1>5. mapped' \subseteq DOMAIN orders BY <1>1, <1>3 DEF Erased
  <1>6. notes' \in Seq(NoteRecs) /\ \A i \in DOMAIN notes' : i + 1 \in DOMAIN notes /\ notes'[i] = notes[i + 1]
    BY <1>1, <1>3
  <1>7. NotesInv'
    <2>1. \A i \in DOMAIN notes' : notes'[i].o \in DOMAIN orders BY <1>6 DEF TypeInv, NotesInv
    <2> QED BY <2>1, <1>1 DEF NotesInv
  <1> QED BY <1>1, <1>4, <1>5, <1>6, <1>7 DEF TypeInv, CashKept, Lefts

LEMMA NextType == TypeInv /\ [Next]_vars => TypeInv' /\ CashKept
  <1> SUFFICES ASSUME TypeInv, [Next]_vars PROVE TypeInv' /\ CashKept OBVIOUS
  <1>1. ASSUME NEW in \in Requests, insert_order(in) PROVE TypeInv' /\ CashKept BY <1>1, InsertType
  <1>2. ASSUME NEW price \in Quotes, Quote(price) PROVE TypeInv' /\ CashKept BY <1>2, QuoteType
  <1>3. ASSUME NEW o \in DOMAIN orders,
               \/ sim_insert_order(o) \/ sim_cancel_order(o)
               \/ ctp_insert_refused(o) \/ ctp_insert_order(o) \/ ctp_reject(o)
               \/ ctp_fill(o) \/ ctp_cancel_order(o)
        PROVE  TypeInv' /\ CashKept
    BY <1>3, SimInsertType, SimCancelType, InsertRefusedType, CtpInsertType, CtpRejectType, CtpFillType,
       CtpCancelType
  <1>4. CASE ctp_req_order_trade BY <1>4, ReqType
  <1>5. CASE ctp_handle BY <1>5, HandleType
  <1>6. CASE UNCHANGED vars
    BY <1>6 DEF vars, broker, TypeInv, Lefts, NotesInv, CashKept
  <1> QED BY <1>1, <1>2, <1>3, <1>4, <1>5, <1>6 DEF Next

LEMMA AlwaysTyped == Spec => []TypeInv
  <1>1. Init => TypeInv BY InitType
  <1>2. TypeInv /\ [Next]_vars => TypeInv' BY NextType
  <1> QED BY <1>1, <1>2, PTL DEF Spec

\* Every order, notification and book stays well formed: no method of the accounting
\* leaves a position or a cash account outside its type, and no order has more left
\* than it asked for.
THEOREM BookTypes == Spec => []TypeOK
  <1>1. TypeInv => TypeOK
    <2> SUFFICES ASSUME TypeInv PROVE TypeOK OBVIOUS
    <2>1. ASSUME NEW o \in DOMAIN orders
          PROVE  /\ orders[o].in \in Requests /\ orders[o].left \in 0 .. orders[o].in.volume
                 /\ orders[o].stage \in {"sent", "live", "done"}
      <3>1. Traded(orders[o].fills) \in Nat /\ orders[o].in.volume \in Nat BY OrderType, TradedNat, RequestType
      <3> QED BY <3>1, OrderType
    <2>2. ASSUME NEW h \in Holders
          PROVE  /\ book[h].avail \in Int /\ book[h].frozen_cash \in Int /\ book[h].fee \in Nat
                 /\ book[h].known \subseteq Int /\ book[h].pos \in [Directions -> Positions]
      BY BookOf DEF Books
    <2> QED BY <2>1, <2>2 DEF TypeOK, TypeInv
  <1> QED BY <1>1, AlwaysTyped, PTL

\* Cash never appears or vanishes in a book: available, frozen, margin and fees always
\* sum to what the book was restored with, through every method of FutureAccountingMethod
\* and every order in which the frames of the two brokers can come.
THEOREM CashConserved == Spec => []Conserved
  <1> DEFINE Zero == \A h \in Holders : Balance(book[h]) = 0
  <1>1. Init => Zero
    <2> SUFFICES ASSUME Init PROVE Zero OBVIOUS
    <2>1. setup.holding \in Nat BY SetupType DEF Init
    <2> QED BY <2>1, RestoredBook DEF Init
  <1>2. TypeInv /\ Zero /\ [Next]_vars => Zero'
    <2> SUFFICES ASSUME TypeInv, Zero, [Next]_vars PROVE Zero' OBVIOUS
    <2>1. CashKept BY NextType
    <2> QED BY <2>1 DEF CashKept
  <1>3. Zero => Conserved BY DEF Conserved, Balance
  <1> QED BY <1>1, <1>2, <1>3, AlwaysTyped, PTL DEF Spec

----------------------------------------------------------------------------
(***************************************************************************)
(* NetExact: what the notifications not handled yet still have to tell     *)
(* makes up the difference between a book and what was traded.             *)
(***************************************************************************)

\* what each element of a set is worth
Weights(N) == [N -> Int]

\* what the elements of a sequence are worth together
Along(W, ns) == [i \in DOMAIN ns |-> W[ns[i]]]

SumOf(W, ns) == Total(Along(W, ns))

LEMMA AlongType ==
  ASSUME NEW N, NEW W \in Weights(N), NEW ns \in Seq(N)
  PROVE  /\ Along(W, ns) \in Seq(Int) /\ Len(Along(W, ns)) = Len(ns) /\ Len(ns) \in Nat
         /\ \A i \in 1 .. Len(ns) : Along(W, ns)[i] = W[ns[i]] /\ W[ns[i]] \in Int
         /\ SumOf(W, ns) \in Int
  <1>1. Len(ns) \in Nat /\ DOMAIN ns = 1 .. Len(ns) /\ \A i \in 1 .. Len(ns) : ns[i] \in N OBVIOUS
  <1>2. \A i \in 1 .. Len(ns) : W[ns[i]] \in Int BY <1>1 DEF Weights
  <1>3. Along(W, ns) \in [1 .. Len(ns) -> Int] BY <1>1, <1>2 DEF Along
  <1>4. Along(W, ns) \in Seq(Int) /\ Len(Along(W, ns)) = Len(ns)
    <2>1. Len(ns) \in Nat OBVIOUS
    <2> QED BY <2>1, <1>3, IntSeqOf
  <1>5. \A i \in 1 .. Len(ns) : Along(W, ns)[i] = W[ns[i]] BY <1>1 DEF Along
  <1>6. SumOf(W, ns) \in Int BY <1>4, TotalInt DEF SumOf
  <1> QED BY <1>1, <1>2, <1>4, <1>5, <1>6

LEMMA SumOfConcat ==
  ASSUME NEW N, NEW W \in Weights(N), NEW ns \in Seq(N), NEW ms \in Seq(N)
  PROVE  SumOf(W, ns \o ms) = SumOf(W, ns) + SumOf(W, ms)
  <1> DEFINE all == ns \o ms
             a == Along(W, all)
             b == Along(W, ns) \o Along(W, ms)
  <1>1. all \in Seq(N) /\ Len(all) = Len(ns) + Len(ms) OBVIOUS
  <1>2. \A i \in 1 .. Len(all) : all[i] = IF i <= Len(ns) THEN ns[i] ELSE ms[i - Len(ns)] OBVIOUS
  <1> HIDE DEF all
  <1>3. /\ Along(W, ns) \in Seq(Int) /\ Len(Along(W, ns)) = Len(ns) /\ Len(ns) \in Nat
        /\ \A i \in 1 .. Len(ns) : Along(W, ns)[i] = W[ns[i]]
    BY AlongType
  <1>4. /\ Along(W, ms) \in Seq(Int) /\ Len(Along(W, ms)) = Len(ms) /\ Len(ms) \in Nat
        /\ \A i \in 1 .. Len(ms) : Along(W, ms)[i] = W[ms[i]]
    BY AlongType
  <1>5. a \in Seq(Int) /\ Len(a) = Len(all) /\ \A i \in 1 .. Len(all) : a[i] = W[all[i]]
    <2>1. /\ Along(W, all) \in Seq(Int) /\ Len(Along(W, all)) = Len(all)
          /\ \A i \in 1 .. Len(all) : Along(W, all)[i] = W[all[i]]
      BY <1>1, AlongType
    <2> QED BY <2>1
  <1>6. b \in Seq(Int) /\ Len(b) = Len(all)
    <2> DEFINE x == Along(W, ns)
               y == Along(W, ms)
    <2>1. x \in Seq(Int) /\ y \in Seq(Int) /\ Len(x) = Len(ns) /\ Len(y) = Len(ms) BY <1>3, <1>4
    <2> HIDE DEF x, y
    <2>2. x \o y \in Seq(Int) /\ Len(x \o y) = Len(x) + Len(y) BY <2>1, ConcatOf, Zenon
    <2>3. Len(x \o y) = Len(all) BY <2>1, <2>2, <1>1
    <2> QED BY <2>2, <2>3 DEF x, y
  <1>7. ASSUME NEW i \in 1 .. Len(all) PROVE a[i] = b[i]
    <2>1. CASE i <= Len(ns)
      <3>1. i \in 1 .. Len(ns) /\ all[i] = ns[i] BY <2>1, <1>2, <1>3
      <3>2. b[i] = Along(W, ns)[i] BY <3>1, <1>3, <1>4
      <3> QED BY <3>1, <3>2, <1>3, <1>5
    <2>2. CASE ~(i <= Len(ns))
      <3>1. i - Len(ns) \in 1 .. Len(ms) /\ all[i] = ms[i - Len(ns)]
        <4>1. i \in Nat /\ i <= Len(ns) + Len(ms) /\ i > Len(ns) BY <2>2, <1>1, <1>3, <1>4
        <4> QED BY <4>1, <2>2, <1>2, <1>3, <1>4
      <3>2. b[i] = Along(W, ms)[i - Len(ns)] BY <3>1, <2>2, <1>1, <1>3, <1>4
      <3> QED BY <3>1, <3>2, <1>4, <1>5
    <2> QED BY <2>1, <2>2
  <1> HIDE DEF a, b
  <1>8. a = b BY <1>5, <1>6, <1>7, SameSeq
  <1>9. Total(b) = Total(Along(W, ns)) + Total(Along(W, ms)) BY <1>3, <1>4, TotalConcat DEF b
  <1> QED BY <1>8, <1>9 DEF SumOf, a, all

LEMMA SumOfNone ==
  ASSUME NEW W
  PROVE  SumOf(W, <<>>) = 0
  <1>1. Along(W, <<>>) = <<>> BY DEF Along
  <1> QED BY <1>1, TotalEmpty DEF SumOf

LEMMA SumOfOne ==
  ASSUME NEW N, NEW W \in Weights(N), NEW n \in N
  PROVE  SumOf(W, << n >>) = W[n]
  <1>1. << n >> \in Seq(N) /\ Len(<< n >>) = 1 /\ << n >>[1] = n OBVIOUS
  <1>2. W[n] \in Int BY DEF Weights
  <1> DEFINE a == Along(W, << n >>)
             b == Append(<<>>, W[n])
  <1>3. a \in Seq(Int) /\ Len(a) = 1 /\ a[1] = W[n]
    <2> DEFINE s == << n >>
    <2>1. s \in Seq(N) /\ Len(s) = 1 /\ s[1] = n BY <1>1
    <2> HIDE DEF s
    <2>2. Along(W, s) \in Seq(Int) /\ Len(Along(W, s)) = Len(s) /\ \A i \in 1 .. Len(s) : Along(W, s)[i] = W[s[i]]
      BY <2>1, AlongType
    <2>3. 1 \in 1 .. Len(s) BY <2>1
    <2>4. Along(W, s) \in Seq(Int) /\ Len(Along(W, s)) = 1 /\ Along(W, s)[1] = W[n] BY <2>1, <2>2, <2>3
    <2> QED BY <2>4 DEF s
  <1>4. b \in Seq(Int) /\ Len(b) = 1 /\ b[1] = W[n] BY <1>2
  <1>5. <<>> \in Seq(Int) OBVIOUS
  <1>6. Total(b) = Total(<<>>) + W[n] BY <1>2, <1>5, TotalAppend
  <1> HIDE DEF a, b
  <1>7. a = b BY <1>3, <1>4
  <1> QED BY <1>2, <1>6, <1>7, TotalEmpty DEF SumOf, a

LEMMA SumOfTail ==
  ASSUME NEW N, NEW W \in Weights(N), NEW ns \in Seq(N), ns # <<>>
  PROVE  SumOf(W, ns) = W[ns[1]] + SumOf(W, Tail(ns))
  <1> DEFINE t == Tail(ns)
             a == Along(W, ns)
             b == Tail(a)
             c == Along(W, t)
  <1>1. t \in Seq(N) /\ Len(t) = Len(ns) - 1 /\ Len(ns) \in Nat /\ Len(ns) > 0 OBVIOUS
  <1>2. \A i \in 1 .. Len(t) : t[i] = ns[i + 1] OBVIOUS
  <1> HIDE DEF t
  <1>3. a \in Seq(Int) /\ Len(a) = Len(ns) /\ \A i \in 1 .. Len(ns) : a[i] = W[ns[i]]
    <2>1. /\ Along(W, ns) \in Seq(Int) /\ Len(Along(W, ns)) = Len(ns)
          /\ \A i \in 1 .. Len(ns) : Along(W, ns)[i] = W[ns[i]]
      BY AlongType
    <2> QED BY <2>1
  <1>4. c \in Seq(Int) /\ Len(c) = Len(t) /\ \A i \in 1 .. Len(t) : c[i] = W[t[i]]
    <2>1. /\ Along(W, t) \in Seq(Int) /\ Len(Along(W, t)) = Len(t)
          /\ \A i \in 1 .. Len(t) : Along(W, t)[i] = W[t[i]]
      BY <1>1, AlongType
    <2> QED BY <2>1
  <1> HIDE DEF a, c
  <1>5. a # <<>> /\ a[1] = W[ns[1]] BY <1>1, <1>3
  <1>6. b \in Seq(Int) /\ Len(b) = Len(t) /\ \A i \in 1 .. Len(t) : b[i] = a[i + 1] BY <1>1, <1>3, <1>5
  <1>7. ASSUME NEW i \in 1 .. Len(t) PROVE b[i] = c[i]
    <2>1. i + 1 \in 1 .. Len(ns) BY <1>1
    <2>2. a[i + 1] = W[ns[i + 1]] BY <2>1, <1>3
    <2> QED BY <2>2, <1>2, <1>4, <1>6
  <1>8. Total(a) = a[1] + Total(b) BY <1>3, <1>5, TotalTail
  <1> HIDE DEF b
  <1>9. b = c BY <1>4, <1>6, <1>7, SameSeq
  <1> QED BY <1>5, <1>8, <1>9 DEF SumOf, a, c, t

LEMMA SumOfSame ==
  ASSUME NEW N, NEW W \in Weights(N), NEW M, NEW V \in Weights(M), NEW ns \in Seq(N), ns \in Seq(M),
         \A i \in 1 .. Len(ns) : W[ns[i]] = V[ns[i]]
  PROVE  SumOf(W, ns) = SumOf(V, ns)
  <1> DEFINE a == Along(W, ns)
             b == Along(V, ns)
  <1>1. a \in Seq(Int) /\ Len(a) = Len(ns) /\ \A i \in 1 .. Len(ns) : a[i] = W[ns[i]]
    <2>1. /\ Along(W, ns) \in Seq(Int) /\ Len(Along(W, ns)) = Len(ns)
          /\ \A i \in 1 .. Len(ns) : Along(W, ns)[i] = W[ns[i]]
      BY AlongType
    <2> QED BY <2>1
  <1>2. b \in Seq(Int) /\ Len(b) = Len(ns) /\ \A i \in 1 .. Len(ns) : b[i] = V[ns[i]]
    <2>1. /\ Along(V, ns) \in Seq(Int) /\ Len(Along(V, ns)) = Len(ns)
          /\ \A i \in 1 .. Len(ns) : Along(V, ns)[i] = V[ns[i]]
      BY AlongType
    <2> QED BY <2>1
  <1> HIDE DEF a, b
  <1>3. \A i \in 1 .. Len(ns) : a[i] = b[i] BY <1>1, <1>2
  <1>4. a = b BY <1>1, <1>2, <1>3, SameSeq
  <1> QED BY <1>4 DEF SumOf, a, b

LEMMA SumOfZero ==
  ASSUME NEW N, NEW W \in Weights(N), NEW ns \in Seq(N), \A i \in 1 .. Len(ns) : W[ns[i]] = 0
  PROVE  SumOf(W, ns) = 0
  <1>1. \A k \in 1 .. Len(Along(W, ns)) : Along(W, ns)[k] = 0 BY AlongType
  <1> QED BY <1>1, AlongType, TotalZero DEF SumOf

LEMMA SumOfNat ==
  ASSUME NEW N, NEW W \in Weights(N), NEW ns \in Seq(N), \A i \in 1 .. Len(ns) : W[ns[i]] >= 0
  PROVE  SumOf(W, ns) \in Nat
  <1>1. \A k \in 1 .. Len(Along(W, ns)) : Along(W, ns)[k] >= 0 BY AlongType
  <1> QED BY <1>1, AlongType, TotalNat DEF SumOf

NoteSet(os) == {n \in NoteRecs : n.o \in DOMAIN os}

\* long minus short of x lots of a request
Amount(in, x) == IF in.side = "Buy" THEN x ELSE -x

\* what a notification not handled yet will tell
Pending(os) == [n \in NoteSet(os) |-> IF n.on = "trade" THEN Amount(os[n.o].in, 1) ELSE 0]

LEMMA AmountInt ==
  ASSUME NEW in, NEW x \in Int
  PROVE  /\ Amount(in, x) \in Int
         /\ x = 0 => Amount(in, x) = 0
         /\ \A y \in Int : Amount(in, x + y) = Amount(in, x) + Amount(in, y)
         /\ (IF in.side = "Buy" THEN 1 ELSE -1) * x = Amount(in, x)
  BY DEF Amount

LEMMA PendingType ==
  ASSUME NEW os \in Seq(OrderRecs)
  PROVE  /\ Pending(os) \in Weights(NoteSet(os))
         /\ \A n \in NoteSet(os) : /\ n.on # "trade" => Pending(os)[n] = 0
                                   /\ n.on = "trade" => Pending(os)[n] = Amount(os[n.o].in, 1)
  <1>1. \A n \in NoteSet(os) : Amount(os[n.o].in, 1) \in Int BY AmountInt
  <1>2. Pending(os) \in [NoteSet(os) -> Int] BY <1>1 DEF Pending
  <1> QED BY <1>2 DEF Pending, Weights

LEMMA NotesOf ==
  ASSUME TypeInv
  PROVE  notes \in Seq(NoteSet(orders)) /\ orders \in Seq(OrderRecs)
  <1>1. notes \in Seq(NoteRecs) /\ \A i \in DOMAIN notes : notes[i].o \in DOMAIN orders
    BY DEF TypeInv, NotesInv
  <1>2. \A i \in 1 .. Len(notes) : notes[i] \in NoteSet(orders) BY <1>1 DEF NoteSet
  <1> QED BY <1>1, <1>2 DEF TypeInv

LEMMA PendingSame ==
  ASSUME NEW os \in Seq(OrderRecs), NEW ot \in Seq(OrderRecs), DOMAIN os \subseteq DOMAIN ot,
         \A i \in DOMAIN os : ot[i].in = os[i].in, NEW ns \in Seq(NoteSet(os))
  PROVE  ns \in Seq(NoteSet(ot)) /\ SumOf(Pending(ot), ns) = SumOf(Pending(os), ns)
  <1>1. NoteSet(os) \subseteq NoteSet(ot) BY DEF NoteSet
  <1>2. ns \in Seq(NoteSet(ot)) BY <1>1
  <1>3. ASSUME NEW i \in 1 .. Len(ns) PROVE Pending(os)[ns[i]] = Pending(ot)[ns[i]]
    <2> DEFINE n == ns[i]
    <2>1. n \in NoteSet(os) OBVIOUS
    <2> HIDE DEF n
    <2>2. n \in NoteSet(ot) /\ n.o \in DOMAIN os BY <2>1, <1>1 DEF NoteSet
    <2>3. ot[n.o].in = os[n.o].in BY <2>2
    <2>4. Pending(os)[n] = Pending(ot)[n] BY <2>1, <2>2, <2>3, PendingType
    <2> QED BY <2>4 DEF n
  <1>4. Pending(os) \in Weights(NoteSet(os)) /\ Pending(ot) \in Weights(NoteSet(ot)) BY PendingType
  <1>5. SumOf(Pending(os), ns) = SumOf(Pending(ot), ns) BY <1>2, <1>3, <1>4, SumOfSame
  <1> QED BY <1>2, <1>5

\* what each order traded
SignedSeq(os) == [o \in DOMAIN os |-> Amount(os[o].in, Traded(os[o].fills))]

LEMMA SignedType ==
  ASSUME NEW os \in Seq(OrderRecs)
  PROVE  /\ SignedSeq(os) \in Seq(Int) /\ Len(SignedSeq(os)) = Len(os)
         /\ \A o \in 1 .. Len(os) : SignedSeq(os)[o] = Amount(os[o].in, Traded(os[o].fills))
  <1>1. Len(os) \in Nat /\ DOMAIN os = 1 .. Len(os) OBVIOUS
  <1>2. ASSUME NEW o \in 1 .. Len(os) PROVE Amount(os[o].in, Traded(os[o].fills)) \in Int
    <2> DEFINE r == os[o]
    <2>0. r \in OrderRecs BY <1>1
    <2> HIDE DEF r
    <2>1. r.fills \in FillSeqs BY <2>0 DEF OrderRecs
    <2>2. Traded(r.fills) \in Int BY <2>1, TradedNat
    <2>3. Amount(r.in, Traded(r.fills)) \in Int BY <2>2, AmountInt
    <2> QED BY <2>3 DEF r
  <1>3. SignedSeq(os) \in [1 .. Len(os) -> Int] BY <1>1, <1>2 DEF SignedSeq
  <1>4. SignedSeq(os) \in Seq(Int) /\ Len(SignedSeq(os)) = Len(os) BY <1>1, <1>3, IntSeqOf
  <1> QED BY <1>1, <1>4 DEF SignedSeq

LEMMA NetTradedIs ==
  /\ orders \in Seq(OrderRecs) => NetTraded = setup.holding + Total(SignedSeq(orders))
  /\ orders' \in Seq(OrderRecs) => NetTraded' = setup'.holding + Total(SignedSeq(orders'))
  <1>1. ASSUME NEW os \in Seq(OrderRecs)
        PROVE  [o \in DOMAIN os |-> (IF os[o].in.side = "Buy" THEN 1 ELSE -1) * Traded(os[o].fills)]
                 = SignedSeq(os)
    <2>1. ASSUME NEW o \in DOMAIN os
          PROVE  (IF os[o].in.side = "Buy" THEN 1 ELSE -1) * Traded(os[o].fills)
                   = Amount(os[o].in, Traded(os[o].fills))
      <3> DEFINE r == os[o]
      <3>0. r \in OrderRecs OBVIOUS
      <3> HIDE DEF r
      <3>1. r.fills \in FillSeqs BY <3>0 DEF OrderRecs
      <3>2. Traded(r.fills) \in Int BY <3>1, TradedNat
      <3>3. (IF r.in.side = "Buy" THEN 1 ELSE -1) * Traded(r.fills) = Amount(r.in, Traded(r.fills))
        BY <3>2, AmountInt
      <3> QED BY <3>3 DEF r
    <2> QED BY <2>1 DEF SignedSeq
  <1>2. /\ NetTraded = setup.holding + Total([o \in DOMAIN orders |->
             (IF orders[o].in.side = "Buy" THEN 1 ELSE -1) * Traded(orders[o].fills)])
        /\ NetTraded' = setup'.holding + Total([o \in DOMAIN orders' |->
             (IF orders'[o].in.side = "Buy" THEN 1 ELSE -1) * Traded(orders'[o].fills)])
    BY DEF NetTraded, Signed
  <1> QED BY <1>1, <1>2

LEMMA SignedChanged ==
  ASSUME TypeInv, NEW o \in DOMAIN orders, NEW left \in Nat, NEW fills \in FillSeqs,
         NEW stage \in {"sent", "live", "done"}, NEW os, os = Changed(o, left, fills, stage)
  PROVE  Total(SignedSeq(os)) =
           Total(SignedSeq(orders)) - Amount(orders[o].in, Traded(orders[o].fills))
             + Amount(orders[o].in, Traded(fills))
  <1> DEFINE x == Amount(orders[o].in, Traded(fills))
             a == SignedSeq(os)
             b == SignedSeq(orders)
             c == [b EXCEPT ![o] = x]
  <1>1. /\ os \in Seq(OrderRecs) /\ Len(os) = Len(orders) /\ DOMAIN os = DOMAIN orders
        /\ os[o].in = orders[o].in /\ os[o].fills = fills
        /\ \A i \in DOMAIN orders \ {o} : os[i] = orders[i]
    BY OrderChanged
  <1>2. orders \in Seq(OrderRecs) BY DEF TypeInv
  <1>3. x \in Int
    <2>1. Traded(fills) \in Int BY TradedNat
    <2> QED BY <2>1, AmountInt
  <1>4. /\ a \in Seq(Int) /\ Len(a) = Len(os)
        /\ \A i \in 1 .. Len(os) : a[i] = Amount(os[i].in, Traded(os[i].fills))
    BY <1>1, SignedType
  <1>5. /\ b \in Seq(Int) /\ Len(b) = Len(orders)
        /\ \A i \in 1 .. Len(orders) : b[i] = Amount(orders[i].in, Traded(orders[i].fills))
    BY <1>2, SignedType
  <1>6. DOMAIN orders = 1 .. Len(orders) /\ o \in 1 .. Len(orders) BY <1>2
  <1>7. x = Amount(orders[o].in, Traded(fills)) OBVIOUS
  <1> HIDE DEF a, b, x
  <1>8. c \in Seq(Int) /\ Len(c) = Len(b) /\ c[o] = x /\ \A i \in 1 .. Len(b) : i # o => c[i] = b[i]
    BY <1>3, <1>5, <1>6
  <1>9. ASSUME NEW i \in 1 .. Len(a) PROVE a[i] = c[i]
    <2>1. CASE i = o BY <2>1, <1>1, <1>4, <1>6, <1>7, <1>8
    <2>2. CASE i # o
      <3>1. i \in 1 .. Len(orders) /\ i \in 1 .. Len(os) /\ i \in 1 .. Len(b) BY <1>1, <1>4, <1>5
      <3>2. os[i] = orders[i] BY <2>2, <3>1, <1>1, <1>6
      <3>3. a[i] = b[i] BY <3>1, <3>2, <1>4, <1>5
      <3>4. c[i] = b[i] BY <3>1, <2>2, <1>8
      <3> QED BY <3>3, <3>4
    <2> QED BY <2>1, <2>2
  <1>10. Len(a) = Len(c) BY <1>1, <1>4, <1>5, <1>8
  <1>11. Total(c) = Total(b) - b[o] + x BY <1>3, <1>5, <1>6, TotalExcept
  <1> HIDE DEF c
  <1>12. a = c BY <1>4, <1>8, <1>9, <1>10, SameSeq
  <1>13. b[o] = Amount(orders[o].in, Traded(orders[o].fills)) BY <1>5, <1>6
  <1> QED BY <1>11, <1>12, <1>13 DEF a, b, x

LEMMA SameNet ==
  ASSUME NEW b \in Books, NEW c \in Books, SameVolume(c, b)
  PROVE  Net(c) = Net(b) /\ Net(b) \in Int
  <1>1. "Long" \in Directions /\ "Short" \in Directions BY DEF Directions
  <1>2. b.pos["Long"].volume \in Int /\ b.pos["Short"].volume \in Int BY <1>1, BookType
  <1> QED BY <1>1, <1>2 DEF Net, SameVolume

LEMMA OrderNet ==
  ASSUME NEW b \in Books, NEW id \in Int, NEW in \in Requests, NEW left \in Nat, NEW final \in BOOLEAN
  PROVE  Net(Apply(b, OrderFrame(id, in, left, final))) = Net(b)
  <1> DEFINE c == apply_order(b, id, in, left, final)
             offset == get_offset(b, in)
             d == get_direction(in.side, offset)
  <1>1. c = apply_order(b, id, in, left, final) /\ offset = get_offset(b, in) /\ d = get_direction(in.side, offset)
    OBVIOUS
  <1> HIDE DEF c, offset, d
  <1>2. c \in Books /\ SameVolume(c, b) BY <1>1, OrderEffect
  <1>3. Net(c) = Net(b) BY <1>2, SameNet
  <1> QED BY <1>1, <1>3, ApplyOrder

\* whichever way the offset is merged, a trade moves the net by its volume
LEMMA TradeNet ==
  ASSUME NEW b \in Books, NEW id, NEW in \in Requests, NEW volume \in Nat, NEW price \in Nat
  PROVE  Net(Apply(b, TradeFrame(id, in, volume, price))) = Net(b) + Amount(in, volume)
  <1> DEFINE c == apply_trade(b, id, in, volume, price)
             offset == get_offset(b, in)
             d == get_direction(in.side, offset)
  <1>1. c = apply_trade(b, id, in, volume, price) /\ offset = get_offset(b, in) /\ d = get_direction(in.side, offset)
    OBVIOUS
  <1> HIDE DEF c, offset, d
  <1>2. /\ SameElse(c, b, d)
        /\ offset = "Open" => c.pos[d].volume = b.pos[d].volume + volume
        /\ offset # "Open" => c.pos[d].volume = b.pos[d].volume - volume
    BY <1>1, TradeEffect
  <1>3. "Long" \in Directions /\ "Short" \in Directions /\ "Long" # "Short" BY DEF Directions
  <1>4. b.pos["Long"].volume \in Int /\ b.pos["Short"].volume \in Int BY <1>3, BookType
  <1>5. in.side \in {"Buy", "Sell"} BY RequestType
  <1>6. CASE d = "Long"
    <2>1. c.pos["Short"].volume = b.pos["Short"].volume BY <1>2, <1>3, <1>6 DEF SameElse
    <2>2. (in.side = "Buy") = (offset = "Open") BY <1>1, <1>3, <1>6 DEF get_direction
    <2>3. c.pos["Long"].volume = b.pos["Long"].volume + Amount(in, volume)
      BY <1>2, <1>4, <1>6, <2>2 DEF Amount
    <2>4. Amount(in, volume) \in Int BY AmountInt
    <2>5. Net(c) = Net(b) + Amount(in, volume) BY <1>4, <2>1, <2>3, <2>4 DEF Net
    <2> QED BY <1>1, <2>5, ApplyTrade
  <1>7. CASE d = "Short"
    <2>1. c.pos["Long"].volume = b.pos["Long"].volume BY <1>2, <1>3, <1>7 DEF SameElse
    <2>2. (in.side = "Buy") # (offset = "Open") BY <1>1, <1>3, <1>7 DEF get_direction
    <2>3. c.pos["Short"].volume = b.pos["Short"].volume - Amount(in, volume)
      BY <1>2, <1>4, <1>7, <2>2 DEF Amount
    <2>4. Amount(in, volume) \in Int BY AmountInt
    <2>5. Net(c) = Net(b) + Amount(in, volume) BY <1>4, <2>1, <2>3, <2>4 DEF Net
    <2> QED BY <1>1, <2>5, ApplyTrade
  <1> QED BY <1>1, <1>6, <1>7 DEF get_direction

\* between two books of a step, and what is pending
NetInv ==
  \/ Odd({"late", "again"})
  \/ \A h \in Told : Net(book[h]) + SumOf(Pending(orders), notes) = NetTraded

LEMMA NetFrom ==
  ASSUME TypeInv, TypeInv', NetInv, odd \subseteq odd', setup' = setup, NEW u \in Int, NEW v \in Int,
         Odd({"late", "again"})' \/ \A h \in Told : Net(book'[h]) = Net(book[h]) + u,
         SumOf(Pending(orders'), notes') = SumOf(Pending(orders), notes) + v,
         Total(SignedSeq(orders')) = Total(SignedSeq(orders)) + (u + v)
  PROVE  NetInv'
  <1>1. Odd({"late", "again"}) => Odd({"late", "again"})' BY DEF Odd
  <1>2. SUFFICES ASSUME ~Odd({"late", "again"})' PROVE NetInv' BY DEF NetInv
  <1>3. Told' = Told /\ Told \subseteq Holders BY DEF Told, Holders
  <1>4. \A h \in Told : Net(book[h]) + SumOf(Pending(orders), notes) = NetTraded BY <1>1, <1>2 DEF NetInv
  <1>5. \A h \in Told : Net(book'[h]) = Net(book[h]) + u BY <1>2
  <1>6. \A h \in Holders : Net(book[h]) \in Int
    <2> TAKE h \in Holders
    <2>1. book[h] \in Books /\ SameVolume(book[h], book[h]) BY BookOf DEF SameVolume
    <2> QED BY <2>1, SameNet
  <1>7. orders \in Seq(OrderRecs) /\ notes \in Seq(NoteSet(orders)) BY NotesOf
  <1>8. orders' \in Seq(OrderRecs) BY DEF TypeInv
  <1>9. Pending(orders) \in Weights(NoteSet(orders)) BY <1>7, PendingType
  <1>10. SumOf(Pending(orders), notes) \in Int BY <1>7, <1>9, AlongType
  <1>11. SignedSeq(orders) \in Seq(Int) BY <1>7, SignedType
  <1>12. Total(SignedSeq(orders)) \in Int BY <1>11, TotalInt
  <1>13. NetTraded = setup.holding + Total(SignedSeq(orders)) /\ setup.holding \in Int
    BY <1>7, NetTradedIs, SetupType DEF TypeInv
  <1>14. NetTraded' = setup.holding + Total(SignedSeq(orders')) BY <1>8, NetTradedIs
  <1> DEFINE p == SumOf(Pending(orders), notes)
             q == Total(SignedSeq(orders))
  <1>15. p \in Int /\ q \in Int BY <1>10, <1>12
  <1>16. NetTraded' = NetTraded + (u + v) /\ NetTraded \in Int
    <2>1. Total(SignedSeq(orders')) = q + (u + v) OBVIOUS
    <2> HIDE DEF q
    <2>2. NetTraded = setup.holding + q BY <1>13 DEF q
    <2>3. NetTraded' = setup.holding + (q + (u + v)) BY <1>14, <2>1
    <2> QED BY <1>13, <1>15, <2>2, <2>3
  <1>17. \A h \in Told : Net(book'[h]) + SumOf(Pending(orders'), notes') = NetTraded'
    <2> TAKE h \in Told
    <2>1. Net(book[h]) \in Int /\ Net(book'[h]) = Net(book[h]) + u BY <1>3, <1>5, <1>6
    <2>2. Net(book[h]) + p = NetTraded BY <1>4
    <2>3. SumOf(Pending(orders'), notes') = p + v OBVIOUS
    <2> HIDE DEF p
    <2> QED BY <1>15, <1>16, <2>1, <2>2, <2>3
  <1> QED BY <1>3, <1>17 DEF NetInv

LEMMA PendingMore ==
  ASSUME TypeInv, orders' \in Seq(OrderRecs), DOMAIN orders' = DOMAIN orders,
         \A i \in DOMAIN orders : orders'[i].in = orders[i].in,
         NEW more \in Seq(NoteSet(orders)), notes' = notes \o more
  PROVE  SumOf(Pending(orders'), notes') = SumOf(Pending(orders), notes) + SumOf(Pending(orders), more)
  <1>1. orders \in Seq(OrderRecs) /\ notes \in Seq(NoteSet(orders)) BY NotesOf
  <1>2. notes' \in Seq(NoteSet(orders)) BY <1>1, ConcatOf
  <1>3. SumOf(Pending(orders'), notes') = SumOf(Pending(orders), notes') BY <1>1, <1>2, PendingSame
  <1>4. Pending(orders) \in Weights(NoteSet(orders)) BY <1>1, PendingType
  <1>5. SumOf(Pending(orders), notes \o more) = SumOf(Pending(orders), notes) + SumOf(Pending(orders), more)
    BY <1>1, <1>4, SumOfConcat
  <1> QED BY <1>3, <1>5

LEMMA SignedSame ==
  ASSUME TypeInv, NEW o \in DOMAIN orders, NEW left \in Nat, NEW stage \in {"sent", "live", "done"},
         orders' = Changed(o, left, orders[o].fills, stage)
  PROVE  Total(SignedSeq(orders')) = Total(SignedSeq(orders)) + (0 + 0)
  <1> DEFINE x == Amount(orders[o].in, Traded(orders[o].fills))
             q == Total(SignedSeq(orders))
  <1>1. x \in Int
    <2>1. Traded(orders[o].fills) \in Int BY OrderType, TradedNat
    <2> QED BY <2>1, AmountInt
  <1>2. q \in Int
    <2>1. orders \in Seq(OrderRecs) BY DEF TypeInv
    <2>2. SignedSeq(orders) \in Seq(Int) BY <2>1, SignedType
    <2> QED BY <2>2, TotalInt
  <1>3. Total(SignedSeq(orders')) = q - x + x BY OrderType, SignedChanged
  <1> HIDE DEF q, x
  <1>4. Total(SignedSeq(orders')) = q + (0 + 0) BY <1>1, <1>2, <1>3
  <1> QED BY <1>4 DEF q

LEMMA InsertNet ==
  ASSUME TypeInv, TypeInv', NetInv, NEW in \in Requests, insert_order(in)
  PROVE  NetInv'
  <1> DEFINE r == [in |-> in, left |-> in.volume, fills |-> <<>>, stage |-> "sent"]
  <1>1. orders \in Seq(OrderRecs) /\ notes \in Seq(NoteSet(orders)) BY NotesOf
  <1>2. r \in OrderRecs BY RequestType, TradedNone DEF OrderRecs
  <1>3. orders' = Append(orders, r) /\ notes' = notes /\ odd' = odd /\ setup' = setup BY DEF insert_order
  <1>4. r.in = in /\ r.fills = <<>> OBVIOUS
  <1> HIDE DEF r
  <1>5. /\ orders' \in Seq(OrderRecs) /\ Len(orders') = Len(orders) + 1 /\ Len(orders) \in Nat
        /\ orders'[Len(orders) + 1] = r
        /\ \A i \in 1 .. Len(orders) : orders'[i] = orders[i]
        /\ DOMAIN orders = 1 .. Len(orders) /\ DOMAIN orders' = 1 .. (Len(orders) + 1)
    BY <1>1, <1>2, <1>3
  <1>6. SumOf(Pending(orders'), notes') = SumOf(Pending(orders), notes) + 0
    <2>1. DOMAIN orders \subseteq DOMAIN orders' /\ \A i \in DOMAIN orders : orders'[i].in = orders[i].in
      BY <1>5
    <2>2. SumOf(Pending(orders'), notes) = SumOf(Pending(orders), notes) BY <1>1, <1>5, <2>1, PendingSame
    <2>3. Pending(orders) \in Weights(NoteSet(orders)) BY <1>1, PendingType
    <2>4. SumOf(Pending(orders), notes) \in Int BY <1>1, <2>3, AlongType
    <2> QED BY <1>3, <2>2, <2>4
  <1>7. Total(SignedSeq(orders')) = Total(SignedSeq(orders)) + (0 + 0)
    <2> DEFINE a == SignedSeq(orders')
               b == SignedSeq(orders)
               c == Append(b, 0)
    <2>1. /\ a \in Seq(Int) /\ Len(a) = Len(orders')
          /\ \A i \in 1 .. Len(orders') : a[i] = Amount(orders'[i].in, Traded(orders'[i].fills))
      BY <1>5, SignedType
    <2>2. /\ b \in Seq(Int) /\ Len(b) = Len(orders)
          /\ \A i \in 1 .. Len(orders) : b[i] = Amount(orders[i].in, Traded(orders[i].fills))
      BY <1>1, SignedType
    <2> HIDE DEF a, b
    <2>3. c \in Seq(Int) /\ Len(c) = Len(b) + 1 /\ c[Len(b) + 1] = 0 /\ \A i \in 1 .. Len(b) : c[i] = b[i]
      BY <2>2
    <2>4. ASSUME NEW i \in 1 .. Len(a) PROVE a[i] = c[i]
      <3>1. CASE i = Len(orders) + 1
        <4>1. a[i] = Amount(r.in, Traded(r.fills)) BY <3>1, <2>1, <1>5
        <4>2. Traded(r.fills) = 0 /\ 0 \in Int BY <1>4, TradedNone
        <4>3. Amount(r.in, Traded(r.fills)) = 0 BY <4>2, AmountInt
        <4> QED BY <4>1, <4>3, <3>1, <2>2, <2>3
      <3>2. CASE i # Len(orders) + 1
        <4>1. i \in 1 .. Len(orders) BY <3>2, <2>1, <1>5
        <4> QED BY <4>1, <2>1, <2>2, <2>3, <1>5
      <3> QED BY <3>1, <3>2
    <2>5. Len(a) = Len(c) BY <2>1, <2>2, <2>3, <1>5
    <2>6. Total(c) = Total(b) + 0 BY <2>2, TotalAppend
    <2> HIDE DEF c
    <2>7. a = c BY <2>1, <2>3, <2>4, <2>5, SameSeq
    <2>8. Total(b) \in Int BY <2>2, TotalInt
    <2> QED BY <2>6, <2>7, <2>8 DEF a, b
  <1>8. \A h \in Told : Net(book'[h]) = Net(book[h]) + 0
    <2> TAKE h \in Told
    <2>1. h \in Holders BY DEF Told, Holders
    <2>2. book[h] \in Books BY <2>1, BookOf
    <2>3. book'[h] = apply_order_input(book[h], in) BY <2>1 DEF insert_order
    <2> DEFINE offset == get_offset(book[h], in)
               d == get_direction(in.side, offset)
    <2>4. offset = get_offset(book[h], in) /\ d = get_direction(in.side, offset) OBVIOUS
    <2> HIDE DEF offset, d
    <2>5. book'[h] \in Books /\ SameVolume(book'[h], book[h]) BY <2>2, <2>3, <2>4, InputEffect
    <2>6. Net(book'[h]) = Net(book[h]) /\ Net(book[h]) \in Int BY <2>2, <2>5, SameNet
    <2> QED BY <2>6
  <1>9. 0 \in Int OBVIOUS
  <1> QED BY <1>3, <1>6, <1>7, <1>8, <1>9, NetFrom

LEMMA ChangedKeeps ==
  ASSUME TypeInv, NEW o \in DOMAIN orders, NEW left \in Nat, NEW fills \in FillSeqs,
         NEW stage \in {"sent", "live", "done"}, NEW s, s = Changed(o, left, fills, stage)
  PROVE  /\ s \in Seq(OrderRecs) /\ DOMAIN s = DOMAIN orders
         /\ \A i \in DOMAIN orders : s[i].in = orders[i].in
  BY OrderChanged, SMTT(30)

LEMMA StageKeeps ==
  ASSUME TypeInv, NEW o \in DOMAIN orders, NEW stage \in {"sent", "live", "done"}, NEW s,
         s = Changed(o, orders[o].left, orders[o].fills, stage)
  PROVE  /\ s \in Seq(OrderRecs) /\ DOMAIN s = DOMAIN orders
         /\ \A i \in DOMAIN orders : s[i].in = orders[i].in
  <1>1. orders[o].left \in Nat /\ orders[o].fills \in FillSeqs BY OrderType
  <1> QED BY <1>1, OrderChanged, SMTT(30)

\* a step that leaves the orders' fills and the notifications alone
LEMMA QuietNet ==
  ASSUME TypeInv, TypeInv', NetInv, odd \subseteq odd', setup' = setup, notes' = notes,
         \/ orders' = orders
         \/ \E o \in DOMAIN orders : \E stage \in {"sent", "live", "done"} :
               orders' = Changed(o, orders[o].left, orders[o].fills, stage),
         \A h \in Told : Net(book'[h]) = Net(book[h])
  PROVE  NetInv'
  <1>1. orders \in Seq(OrderRecs) /\ notes \in Seq(NoteSet(orders)) /\ 0 \in Int BY NotesOf
  <1>2. orders' \in Seq(OrderRecs) BY DEF TypeInv
  <1>3. Pending(orders) \in Weights(NoteSet(orders)) BY <1>1, PendingType
  <1>4. SumOf(Pending(orders), notes) \in Int BY <1>1, <1>3, AlongType
  <1>5. SignedSeq(orders) \in Seq(Int) BY <1>1, SignedType
  <1>6. Total(SignedSeq(orders)) \in Int BY <1>5, TotalInt
  <1>7. \A h \in Told : Net(book'[h]) = Net(book[h]) + 0
    <2> TAKE h \in Told
    <2>1. book[h] \in Books /\ SameVolume(book[h], book[h]) BY BookOf DEF Told, Holders, SameVolume
    <2>2. Net(book[h]) \in Int BY <2>1, SameNet
    <2> QED BY <2>2
  <1>8. CASE orders' = orders
    <2>1. SumOf(Pending(orders'), notes') = SumOf(Pending(orders), notes) + 0 BY <1>4, <1>8
    <2>2. Total(SignedSeq(orders')) = Total(SignedSeq(orders)) + (0 + 0) BY <1>6, <1>8
    <2> QED BY <1>1, <1>7, <2>1, <2>2, NetFrom
  <1>9. ASSUME NEW o \in DOMAIN orders, NEW stage \in {"sent", "live", "done"},
               orders' = Changed(o, orders[o].left, orders[o].fills, stage)
        PROVE  NetInv'
    <2>1. DOMAIN orders' = DOMAIN orders /\ \A i \in DOMAIN orders : orders'[i].in = orders[i].in
      <3>2. orders' = Changed(o, orders[o].left, orders[o].fills, stage) BY <1>9
      <3>3. /\ orders' \in Seq(OrderRecs) /\ DOMAIN orders' = DOMAIN orders
            /\ \A i \in DOMAIN orders : orders'[i].in = orders[i].in
        BY <3>2, StageKeeps
      <3> QED BY <3>3
    <2>2. SumOf(Pending(orders'), notes) = SumOf(Pending(orders), notes) BY <1>1, <1>2, <2>1, PendingSame
    <2>3. SumOf(Pending(orders'), notes') = SumOf(Pending(orders), notes) + 0 BY <1>4, <2>2
    <2>4. Total(SignedSeq(orders')) = Total(SignedSeq(orders)) + (0 + 0) BY <1>9, OrderType, SignedSame
    <2> QED BY <1>1, <1>7, <2>3, <2>4, NetFrom
  <1> QED BY <1>8, <1>9

LEMMA QuoteNet ==
  ASSUME TypeInv, TypeInv', NetInv, NEW price \in Quotes, Quote(price)
  PROVE  NetInv'
  <1>1. price \in Nat BY FutureAssumption
  <1>2. \A h \in Told : Net(book'[h]) = Net(book[h])
    <2> TAKE h \in Told
    <2>1. h \in Holders BY DEF Told, Holders
    <2>2. book[h] \in Books BY <2>1, BookOf
    <2>3. book'[h] = apply_quote(book[h], price) \/ book'[h] = book[h] BY <2>1 DEF Quote
    <2>4. CASE book'[h] = apply_quote(book[h], price)
      <3>1. book'[h] \in Books /\ SameVolume(book'[h], book[h]) BY <1>1, <2>2, <2>4, QuoteEffect
      <3> QED BY <3>1, <2>2, SameNet
    <2> QED BY <2>3, <2>4
  <1>3. setup' = setup /\ orders' = orders /\ notes' = notes /\ odd' = odd BY DEF Quote, broker
  <1> QED BY <1>2, <1>3, QuietNet

LEMMA SimCancelNet ==
  ASSUME TypeInv, TypeInv', NetInv, NEW o \in DOMAIN orders, sim_cancel_order(o)
  PROVE  NetInv'
  <1>1. setup' = setup /\ notes' = notes /\ odd \subseteq odd' BY DEF sim_cancel_order
  <1>2. CASE orders[o].left = 0
    <2>1. orders' = orders /\ book' = book BY <1>2 DEF sim_cancel_order
    <2>2. \A h \in Told : Net(book'[h]) = Net(book[h]) BY <2>1
    <2> QED BY <1>1, <2>1, <2>2, QuietNet
  <1>3. CASE orders[o].left # 0
    <2> DEFINE frame == OrderFrame(o, orders[o].in, orders[o].left, TRUE)
    <2>1. /\ orders' = [orders EXCEPT ![o].stage = "done"]
          /\ book' = update_book(book, frame, "strategy")
      BY <1>3 DEF sim_cancel_order
    <2>2. orders' = Changed(o, orders[o].left, orders[o].fills, "done")
      BY <2>1, OrderType, ChangedIs
    <2>3. Sound(frame) BY OrderType, SoundOrder
    <2>4. \A b \in Books : Net(Apply(b, frame)) = Net(b) BY OrderType, OrderNet
    <2> HIDE DEF frame
    <2>5. book \in BookSets BY DEF TypeInv
    <2>6. \A h \in Holders : book'[h] = Apply(book[h], frame) BY <2>1, <2>3, <2>5, UpdateSound
    <2>7. \A h \in Told : Net(book'[h]) = Net(book[h])
      <3> TAKE h \in Told
      <3>1. h \in Holders BY DEF Told, Holders
      <3>2. book[h] \in Books BY <3>1, BookOf
      <3> QED BY <2>4, <2>6, <3>1, <3>2
    <2>8. "done" \in {"sent", "live", "done"} OBVIOUS
    <2> QED BY <1>1, <2>2, <2>7, <2>8, QuietNet
  <1> QED BY <1>2, <1>3

LEMMA RefusedNet ==
  ASSUME TypeInv, TypeInv', NetInv, NEW o \in DOMAIN orders, ctp_insert_refused(o)
  PROVE  NetInv'
  <1> DEFINE frame == OrderFrame(o, orders[o].in, orders[o].left, TRUE)
  <1>1. /\ setup.broker = "ctp" /\ setup' = setup /\ notes' = notes /\ odd \subseteq odd'
        /\ orders' = [orders EXCEPT ![o].stage = "done"] /\ book' = write_both(book, frame, TRUE)
    BY DEF ctp_insert_refused, Ctp
  <1>2. orders' = Changed(o, orders[o].left, orders[o].fills, "done")
    BY <1>1, OrderType, ChangedIs
  <1>3. Sound(frame) BY OrderType, SoundOrder
  <1>4. \A b \in Books : Net(Apply(b, frame)) = Net(b) BY OrderType, OrderNet
  <1> HIDE DEF frame
  <1>5. book \in BookSets /\ TRUE \in BOOLEAN BY DEF TypeInv
  <1>6. book'["strategy"] = Apply(book["strategy"], frame) BY <1>1, <1>3, <1>5, WriteBothSound
  <1>7. Told = {"strategy"} /\ "strategy" \in Holders BY <1>1 DEF Told, Holders
  <1>8. book["strategy"] \in Books BY <1>7, BookOf
  <1>9. \A h \in Told : Net(book'[h]) = Net(book[h]) BY <1>4, <1>6, <1>7, <1>8
  <1>10. "done" \in {"sent", "live", "done"} OBVIOUS
  <1> QED BY <1>1, <1>2, <1>9, <1>10, QuietNet

\* a step that adds one notification and no trade
OneNote(o, n, stage) ==
  /\ n \in NoteSet(orders) /\ n.on # "trade" /\ n.o = o /\ stage \in {"sent", "live", "done"}
  /\ orders' = Changed(o, orders[o].left, orders[o].fills, stage)
  /\ notes' = notes \o << n >>
  /\ setup' = setup /\ odd' = odd /\ book' = book /\ booked' = booked

LEMMA OneNoteUnfold ==
  ASSUME TypeInv, NEW o \in DOMAIN orders
  PROVE  /\ ctp_insert_order(o) => OneNote(o, Note("order", o, orders[o].left, FALSE, 0), "live")
         /\ ctp_reject(o) => OneNote(o, Note("insert_rejected", o, 0, TRUE, 0), "done")
         /\ ctp_cancel_order(o) => OneNote(o, Note("order", o, orders[o].left, TRUE, 0), "done")
  <1>1. notes \in Seq(NoteRecs) BY DEF TypeInv
  <1>2. ASSUME ctp_insert_order(o) PROVE OneNote(o, Note("order", o, orders[o].left, FALSE, 0), "live")
    <2> DEFINE n == Note("order", o, orders[o].left, FALSE, 0)
    <2>1. n \in NoteRecs /\ n.o = o /\ n.on = "order" BY OrderType DEF Note, NoteRecs
    <2>2. orders' = [orders EXCEPT ![o].stage = "live"] /\ notes' = Append(notes, n) BY <1>2 DEF ctp_insert_order
    <2>3. orders' = Changed(o, orders[o].left, orders[o].fills, "live") BY <2>2, OrderType, ChangedIs
    <2>4. setup' = setup /\ odd' = odd /\ book' = book /\ booked' = booked BY <1>2 DEF ctp_insert_order
    <2> HIDE DEF n
    <2>5. notes' = notes \o << n >> BY <1>1, <2>1, <2>2, AppendIs
    <2>6. OneNote(o, n, "live") BY <2>1, <2>3, <2>4, <2>5 DEF OneNote, NoteSet
    <2> QED BY <2>6 DEF n
  <1>3. ASSUME ctp_reject(o) PROVE OneNote(o, Note("insert_rejected", o, 0, TRUE, 0), "done")
    <2> DEFINE n == Note("insert_rejected", o, 0, TRUE, 0)
    <2>1. n \in NoteRecs /\ n.o = o /\ n.on = "insert_rejected" BY OrderType DEF Note, NoteRecs
    <2>2. orders' = [orders EXCEPT ![o].stage = "done"] /\ notes' = Append(notes, n) BY <1>3 DEF ctp_reject
    <2>3. orders' = Changed(o, orders[o].left, orders[o].fills, "done") BY <2>2, OrderType, ChangedIs
    <2>4. setup' = setup /\ odd' = odd /\ book' = book /\ booked' = booked BY <1>3 DEF ctp_reject
    <2> HIDE DEF n
    <2>5. notes' = notes \o << n >> BY <1>1, <2>1, <2>2, AppendIs
    <2>6. OneNote(o, n, "done") BY <2>1, <2>3, <2>4, <2>5 DEF OneNote, NoteSet
    <2> QED BY <2>6 DEF n
  <1>4. ASSUME ctp_cancel_order(o) PROVE OneNote(o, Note("order", o, orders[o].left, TRUE, 0), "done")
    <2> DEFINE n == Note("order", o, orders[o].left, TRUE, 0)
    <2>1. n \in NoteRecs /\ n.o = o /\ n.on = "order" BY OrderType DEF Note, NoteRecs
    <2>2. orders' = [orders EXCEPT ![o].stage = "done"] /\ notes' = Append(notes, n) BY <1>4 DEF ctp_cancel_order
    <2>3. orders' = Changed(o, orders[o].left, orders[o].fills, "done") BY <2>2, OrderType, ChangedIs
    <2>4. setup' = setup /\ odd' = odd /\ book' = book /\ booked' = booked BY <1>4 DEF ctp_cancel_order
    <2> HIDE DEF n
    <2>5. notes' = notes \o << n >> BY <1>1, <2>1, <2>2, AppendIs
    <2>6. OneNote(o, n, "done") BY <2>1, <2>3, <2>4, <2>5 DEF OneNote, NoteSet
    <2> QED BY <2>6 DEF n
  <1> QED BY <1>2, <1>3, <1>4

\* a step that leaves the books alone
LEMMA ToldNotesNet ==
  ASSUME TypeInv, TypeInv', NetInv, setup' = setup, odd' = odd, book' = book, NEW v \in Int,
         SumOf(Pending(orders'), notes') = SumOf(Pending(orders), notes) + v,
         Total(SignedSeq(orders')) = Total(SignedSeq(orders)) + (0 + v)
  PROVE  NetInv'
  <1>1. \A h \in Told : Net(book'[h]) = Net(book[h]) + 0
    <2> TAKE h \in Told
    <2>1. book[h] \in Books /\ SameVolume(book[h], book[h]) BY BookOf DEF Told, Holders, SameVolume
    <2>2. Net(book[h]) \in Int BY <2>1, SameNet
    <2> QED BY <2>2
  <1>2. 0 \in Int /\ odd \subseteq odd' OBVIOUS
  <1> QED BY <1>1, <1>2, NetFrom

LEMMA OneNoteNet ==
  ASSUME TypeInv, TypeInv', NetInv, NEW o \in DOMAIN orders, NEW n, NEW stage, OneNote(o, n, stage)
  PROVE  NetInv'
  <1>1. /\ n \in NoteSet(orders) /\ n.on # "trade" /\ stage \in {"sent", "live", "done"}
        /\ orders' = Changed(o, orders[o].left, orders[o].fills, stage)
        /\ notes' = notes \o << n >> /\ setup' = setup /\ odd' = odd /\ book' = book
    BY DEF OneNote
  <1>2. orders[o].left \in Nat /\ orders[o].fills \in FillSeqs BY OrderType
  <1>3. /\ orders' \in Seq(OrderRecs) /\ DOMAIN orders' = DOMAIN orders
        /\ \A i \in DOMAIN orders : orders'[i].in = orders[i].in
    BY <1>1, <1>2, OrderChanged, SMTT(30)
  <1> DEFINE more == << n >>
  <1>4. more \in Seq(NoteSet(orders)) BY <1>1
  <1>5. orders \in Seq(OrderRecs) BY DEF TypeInv
  <1>6. Pending(orders) \in Weights(NoteSet(orders)) /\ Pending(orders)[n] = 0 BY <1>1, <1>5, PendingType
  <1>7. SumOf(Pending(orders), more) = 0 BY <1>1, <1>6, SumOfOne
  <1>8. notes' = notes \o more BY <1>1
  <1> HIDE DEF more
  <1>9. SumOf(Pending(orders'), notes') = SumOf(Pending(orders), notes) + 0
    BY <1>3, <1>4, <1>7, <1>8, PendingMore
  <1>10. Total(SignedSeq(orders')) = Total(SignedSeq(orders)) + (0 + 0) BY <1>1, <1>2, SignedSame
  <1>11. 0 \in Int OBVIOUS
  <1> QED BY <1>1, <1>9, <1>10, <1>11, ToldNotesNet

LEMMA FillNet ==
  ASSUME TypeInv, TypeInv', NetInv, NEW o \in DOMAIN orders, ctp_fill(o)
  PROVE  NetInv'
  <1> DEFINE left == orders[o].left - 1
             in == orders[o].in
             v == Amount(in, 1)
  <1>1. PICK price : FillStep(o, price, left) BY FillUnfold
  <1> DEFINE fills == Append(orders[o].fills, <<1, price>>)
             stage == IF left = 0 THEN "done" ELSE "live"
             n == Note("order", o, left, left = 0, 0)
             m == Note("trade", o, left, FALSE, price)
             more == << n, m >>
  <1>2. setup.broker = "ctp" /\ orders[o].stage = "live" /\ setup' = setup /\ odd' = odd /\ book' = book
    BY DEF ctp_fill, Ctp
  <1>3. left \in Nat /\ price \in Nat
    <2>1. orders[o].left \in Nat /\ orders[o].left >= 1 BY <1>2, OrderType
    <2> QED BY <2>1, <1>1 DEF FillStep
  <1>4. fills \in FillSeqs /\ Traded(fills) = Traded(orders[o].fills) + 1
    <2>1. 1 \in Nat OBVIOUS
    <2> QED BY <2>1, <1>3, OrderType, TradedAppend
  <1>5. orders' = Changed(o, left, fills, stage) /\ notes' = notes \o more BY <1>1 DEF FillStep
  <1>6. n \in NoteRecs /\ n.o = o /\ n.on = "order"
    <2> DEFINE end == (left = 0)
    <2>1. end \in BOOLEAN OBVIOUS
    <2>2. n = Note("order", o, left, end, 0) OBVIOUS
    <2> HIDE DEF end, left
    <2> QED BY <2>1, <2>2, <1>3, OrderType DEF Note, NoteRecs
  <1>7. m \in NoteRecs /\ m.o = o /\ m.on = "trade"
    <2> HIDE DEF left
    <2> QED BY <1>3, OrderType DEF Note, NoteRecs
  <1>8. stage \in {"sent", "live", "done"} OBVIOUS
  <1>9. in = orders[o].in /\ v = Amount(in, 1) OBVIOUS
  <1> HIDE DEF left, fills, stage, n, m, in, v
  <1>10. v \in Int
    <2>1. 1 \in Int OBVIOUS
    <2> QED BY <2>1, <1>9, AmountInt
  <1>11. n \in NoteSet(orders) /\ m \in NoteSet(orders) BY <1>6, <1>7 DEF NoteSet
  <1>12. /\ orders' \in Seq(OrderRecs) /\ DOMAIN orders' = DOMAIN orders
         /\ \A i \in DOMAIN orders : orders'[i].in = orders[i].in
    BY <1>3, <1>4, <1>5, <1>8, ChangedKeeps, SMTT(30)
  <1>13. orders \in Seq(OrderRecs) BY DEF TypeInv
  <1>14. Pending(orders) \in Weights(NoteSet(orders)) /\ Pending(orders)[n] = 0 /\ Pending(orders)[m] = v
    BY <1>6, <1>7, <1>9, <1>11, <1>13, PendingType
  <1>15. more \in Seq(NoteSet(orders)) BY <1>11
  <1>16. SumOf(Pending(orders), more) = v
    <2> DEFINE ns == << n >>
               ms == << m >>
    <2>1. ns \in Seq(NoteSet(orders)) /\ ms \in Seq(NoteSet(orders)) /\ more = ns \o ms BY <1>11, PairIs
    <2>2. SumOf(Pending(orders), ns) = 0 /\ SumOf(Pending(orders), ms) = v BY <1>11, <1>14, SumOfOne
    <2> HIDE DEF ns, ms, more
    <2>3. SumOf(Pending(orders), ns \o ms) = 0 + v BY <1>14, <2>1, <2>2, SumOfConcat
    <2> QED BY <1>10, <2>1, <2>3
  <1> HIDE DEF more
  <1>17. SumOf(Pending(orders'), notes') = SumOf(Pending(orders), notes) + v
    BY <1>5, <1>12, <1>15, <1>16, PendingMore
  <1>18. Total(SignedSeq(orders')) = Total(SignedSeq(orders)) + (0 + v)
    <2> DEFINE x == Amount(in, Traded(orders[o].fills))
               y == Amount(in, Traded(fills))
               q == Total(SignedSeq(orders))
    <2>1. Total(SignedSeq(orders')) = q - x + y BY <1>3, <1>4, <1>5, <1>8, <1>9, SignedChanged
    <2>2. x \in Int /\ y = x + v
      <3>1. Traded(orders[o].fills) \in Int /\ 1 \in Int BY OrderType, TradedNat
      <3>2. Amount(in, Traded(orders[o].fills) + 1) = Amount(in, Traded(orders[o].fills)) + Amount(in, 1)
        BY <3>1, AmountInt
      <3>3. x \in Int BY <3>1, AmountInt
      <3> QED BY <3>2, <3>3, <1>4, <1>9
    <2>3. SignedSeq(orders) \in Seq(Int) BY <1>13, SignedType
    <2>4. q \in Int BY <2>3, TotalInt
    <2> HIDE DEF x, y, q
    <2>5. Total(SignedSeq(orders')) = q + (0 + v) BY <2>1, <2>2, <2>4, <1>10
    <2> QED BY <2>5 DEF q
  <1> QED BY <1>2, <1>10, <1>17, <1>18, ToldNotesNet

LEMMA ReqNet ==
  ASSUME TypeInv, TypeInv', NetInv, ctp_req_order_trade
  PROVE  NetInv'
  <1> DEFINE A == OrderAnswers
             B == FlattenSeq(TradeAnswers)
  <1>1. notes' = (notes \o A) \o B BY DEF ctp_req_order_trade, OrderAnswers, TradeAnswers
  <1>2. setup' = setup /\ orders' = orders /\ odd' = odd /\ book' = book BY DEF ctp_req_order_trade
  <1>3. A \in Seq(Answers) /\ B \in Seq(Answers) BY AnswersType
  <1>4. notes \in Seq(NoteSet(orders)) /\ orders \in Seq(OrderRecs) BY NotesOf
  <1> HIDE DEF A, B
  <1>5. Answers \subseteq NoteSet(orders) /\ \A n \in Answers : n.on # "trade" BY DEF Answers, NoteSet
  <1>6. A \in Seq(NoteSet(orders)) /\ B \in Seq(NoteSet(orders)) BY <1>3, <1>5
  <1>7. Pending(orders) \in Weights(NoteSet(orders)) BY <1>4, PendingType
  <1>8. \A n \in Answers : Pending(orders)[n] = 0 BY <1>4, <1>5, PendingType
  <1>9. /\ \A i \in 1 .. Len(A) : Pending(orders)[A[i]] = 0
        /\ \A i \in 1 .. Len(B) : Pending(orders)[B[i]] = 0
    <2>1. \A i \in 1 .. Len(A) : A[i] \in Answers BY <1>3
    <2>2. \A i \in 1 .. Len(B) : B[i] \in Answers BY <1>3
    <2> QED BY <2>1, <2>2, <1>8
  <1>10. SumOf(Pending(orders), A) = 0 BY <1>6, <1>7, <1>9, SumOfZero
  <1>11. SumOf(Pending(orders), B) = 0 BY <1>6, <1>7, <1>9, SumOfZero
  <1> DEFINE p == SumOf(Pending(orders), notes)
  <1>12. p \in Int BY <1>4, <1>7, AlongType
  <1>13. SumOf(Pending(orders), notes \o A) = p + 0 BY <1>4, <1>6, <1>7, <1>10, SumOfConcat
  <1>14. notes \o A \in Seq(NoteSet(orders)) BY <1>4, <1>6, ConcatOf
  <1>15. SumOf(Pending(orders), (notes \o A) \o B) = SumOf(Pending(orders), notes \o A) + 0
    BY <1>6, <1>7, <1>11, <1>14, SumOfConcat
  <1> HIDE DEF p
  <1>16. SumOf(Pending(orders'), notes') = p + 0 BY <1>1, <1>2, <1>12, <1>13, <1>15
  <1>17. SignedSeq(orders) \in Seq(Int) BY <1>4, SignedType
  <1>18. Total(SignedSeq(orders)) \in Int BY <1>17, TotalInt
  <1>19. Total(SignedSeq(orders')) = Total(SignedSeq(orders)) + (0 + 0) BY <1>2, <1>18
  <1>20. 0 \in Int OBVIOUS
  <1> QED BY <1>2, <1>16, <1>19, <1>20, ToldNotesNet DEF p

LEMMA HandleNet ==
  ASSUME TypeInv, TypeInv', NetInv, ctp_handle
  PROVE  NetInv'
  <1> DEFINE note == notes[1]
             frame == ReportFrame(note)
             source == (note.o \in mapped)
             in == orders[note.o].in
             p == SumOf(Pending(orders), notes)
             w == Pending(orders)[note]
  <1>1. /\ notes # <<>> /\ notes' = Tail(notes) /\ note \in NoteRecs /\ note.o \in DOMAIN orders
        /\ setup.broker = "ctp"
        /\ note.on = "insert_rejected" /\ note.o \notin mapped => book' = book
        /\ ~(note.on = "insert_rejected" /\ note.o \notin mapped) => book' = write_both(book, frame, source)
        /\ odd' = odd \cup Oddities(note) /\ Sound(frame)
        /\ setup' = setup /\ orders' = orders
        /\ note.on \in {"trade", "qry_trade"} =>
              frame = TradeFrame(resolve_order_id(note.o), in, 1, note.price)
        /\ note.on \notin {"trade", "qry_trade"} =>
              frame = OrderFrame(resolve_order_id(note.o), in, note.left, note.final)
    BY HandleUnfold
  <1>2. notes \in Seq(NoteSet(orders)) /\ orders \in Seq(OrderRecs) BY NotesOf
  <1>3. Pending(orders) \in Weights(NoteSet(orders)) BY <1>2, PendingType
  <1>4. p \in Int BY <1>2, <1>3, AlongType
  <1>5. note \in NoteSet(orders) BY <1>1 DEF NoteSet
  <1>6. p = w + SumOf(Pending(orders), Tail(notes)) BY <1>1, <1>2, <1>3, SumOfTail
  <1>7. Tail(notes) \in Seq(NoteSet(orders)) BY <1>1, <1>2
  <1>8. SumOf(Pending(orders), Tail(notes)) \in Int BY <1>3, <1>7, AlongType
  <1>9. /\ note.on # "trade" => w = 0
        /\ note.on = "trade" => w = Amount(in, 1)
    BY <1>2, <1>5, PendingType
  <1>10. w \in Int /\ Amount(in, 1) \in Int
    <2>1. 1 \in Int OBVIOUS
    <2>2. Amount(in, 1) \in Int BY <2>1, AmountInt
    <2> QED BY <2>2, <1>9
  <1>11. /\ in \in Requests /\ note.left \in Nat /\ note.final \in BOOLEAN /\ note.price \in Nat /\ 1 \in Nat
         /\ resolve_order_id(note.o) \in Int
    <2>1. note.o \in Int BY <1>1, OrderType
    <2>2. note.left \in Nat /\ note.final \in BOOLEAN /\ note.price \in Nat BY <1>1 DEF NoteRecs
    <2>3. orders[note.o].in \in Requests BY <1>1, OrderType
    <2> QED BY <2>1, <2>2, <2>3 DEF resolve_order_id
  <1>12. Told = {"strategy"} /\ "strategy" \in Holders BY <1>1 DEF Told, Holders
  <1>13. book["strategy"] \in Books /\ book \in BookSets BY <1>12, BookOf DEF TypeInv
  <1>14. Net(book["strategy"]) \in Int
    <2>1. SameVolume(book["strategy"], book["strategy"]) BY DEF SameVolume
    <2> QED BY <2>1, <1>13, SameNet
  <1>15. source \in BOOLEAN OBVIOUS
  <1>16. /\ note.on = "trade" /\ ~source => Odd({"late", "again"})'
         /\ note.on = "qry_trade" /\ source => Odd({"late", "again"})'
    <2>1. note.on = "trade" /\ ~source => <<"late", note.o>> \in odd' BY <1>1 DEF Oddities
    <2>2. note.on = "qry_trade" /\ source => <<"again", note.o>> \in odd' BY <1>1 DEF Oddities
    <2> QED BY <2>1, <2>2 DEF Odd
  <1>17. /\ note.on \in {"trade", "qry_trade"} =>
               Net(Apply(book["strategy"], frame)) = Net(book["strategy"]) + Amount(in, 1)
         /\ note.on \notin {"trade", "qry_trade"} =>
               Net(Apply(book["strategy"], frame)) = Net(book["strategy"])
    <2>1. Net(Apply(book["strategy"], TradeFrame(resolve_order_id(note.o), in, 1, note.price)))
            = Net(book["strategy"]) + Amount(in, 1)
      BY <1>11, <1>13, TradeNet
    <2>2. Net(Apply(book["strategy"], OrderFrame(resolve_order_id(note.o), in, note.left, note.final)))
            = Net(book["strategy"])
      BY <1>11, <1>13, OrderNet
    <2> HIDE DEF note, frame, in
    <2> QED BY <2>1, <2>2, <1>1
  <1> HIDE DEF note, frame, in, source, p, w
  <1>18. /\ ~(note.on = "insert_rejected" /\ note.o \notin mapped) =>
               book'["strategy"] = IF source THEN Apply(book["strategy"], frame) ELSE book["strategy"]
    <2>1. SUFFICES ASSUME ~(note.on = "insert_rejected" /\ note.o \notin mapped)
                   PROVE  book'["strategy"] = IF source THEN Apply(book["strategy"], frame) ELSE book["strategy"]
      OBVIOUS
    <2>2. book' = write_both(book, frame, source) BY <1>1, <2>1
    <2> QED BY <1>1, <1>13, <1>15, <2>2, WriteBothSound
  <1> DEFINE u == IF note.on = "trade" THEN Amount(in, 1) ELSE 0
  <1>19. u = w BY <1>9
  <1>20. Odd({"late", "again"})' \/ Net(book'["strategy"]) = Net(book["strategy"]) + u
    <2>1. CASE note.on = "trade"
      <3>1. CASE source BY <2>1, <3>1, <1>17, <1>18
      <3>2. CASE ~source BY <2>1, <3>2, <1>16
      <3> QED BY <3>1, <3>2
    <2>2. CASE note.on = "qry_trade"
      <3>1. CASE source BY <2>2, <3>1, <1>16
      <3>2. CASE ~source BY <2>2, <3>2, <1>14, <1>18
      <3> QED BY <3>1, <3>2
    <2>3. CASE note.on \notin {"trade", "qry_trade"}
      <3>1. CASE note.on = "insert_rejected" /\ note.o \notin mapped BY <2>3, <3>1, <1>1, <1>14
      <3>2. CASE ~(note.on = "insert_rejected" /\ note.o \notin mapped)
        <4>1. Net(book'["strategy"]) = Net(book["strategy"]) BY <2>3, <3>2, <1>17, <1>18
        <4> QED BY <4>1, <2>3, <1>14
      <3> QED BY <3>1, <3>2
    <2> QED BY <2>1, <2>2, <2>3
  <1> HIDE DEF u
  <1> DEFINE v == -w
  <1>21. v \in Int /\ u \in Int /\ u + v = 0 /\ (u + v) \in Int BY <1>10, <1>19
  <1>22. SumOf(Pending(orders'), notes') = p + v
    <2>1. SumOf(Pending(orders'), notes') = SumOf(Pending(orders), Tail(notes)) BY <1>1
    <2> QED BY <2>1, <1>6, <1>8, <1>10
  <1>23. SignedSeq(orders) \in Seq(Int) BY <1>2, SignedType
  <1>24. Total(SignedSeq(orders)) \in Int BY <1>23, TotalInt
  <1>25. Total(SignedSeq(orders')) = Total(SignedSeq(orders)) + (u + v) BY <1>1, <1>21, <1>24
  <1> HIDE DEF v
  <1>26. Odd({"late", "again"})' \/ \A h \in Told : Net(book'[h]) = Net(book[h]) + u BY <1>12, <1>20
  <1>27. odd \subseteq odd' /\ setup' = setup BY <1>1
  <1>28. SumOf(Pending(orders'), notes') = SumOf(Pending(orders), notes) + v BY <1>22 DEF p
  <1> QED BY <1>21, <1>25, <1>26, <1>27, <1>28, NetFrom

LEMMA SimBooksNet ==
  ASSUME TypeInv, NEW o \in DOMAIN orders, NEW match \in Matches(orders[o].in), NEW g, SimBooks(o, match, g)
  PROVE  \A h \in Holders :
            Net(g[Len(match.fills)][h]) = Net(book[h]) + Amount(orders[o].in, Traded(match.fills))
  <1> DEFINE in == orders[o].in
             fills == match.fills
             n == Len(fills)
             left == in.volume - Traded(fills)
             vs == FillVolumes(fills)
  <1>1. /\ in \in Requests /\ o \in Int /\ fills \in FillSeqs /\ match.final \in BOOLEAN
        /\ Traded(fills) \in 0 .. in.volume /\ in.volume \in Nat
    BY OrderType, MatchType, RequestType
  <1>2. left \in Nat BY <1>1
  <1>3. n \in Nat BY <1>1 DEF FillSeqs
  <1>4. /\ g \in [0 .. n -> BookSets]
        /\ g[0] = update_book(book, OrderFrame(o, in, left, match.final), "strategy")
        /\ \A k \in 1 .. n : g[k] = update_book(g[k - 1], TradeFrame(o, in, fills[k][1], fills[k][2]), "strategy")
    BY DEF SimBooks
  <1>5. /\ vs \in Seq(Int) /\ Len(vs) = n
        /\ \A k \in 1 .. n : vs[k] = fills[k][1] /\ fills[k][1] \in Nat /\ fills[k][2] \in Nat
    BY <1>1, FillVolumesType
  <1>6. Traded(fills) = Total(vs) BY DEF Traded, FillVolumes
  <1> HIDE DEF in, left, n, vs, fills
  <1>7. PICK t : Sums(t, vs) BY <1>5, SumsExist
  <1>8. Total(vs) = t[n] BY <1>5, <1>7, TotalIs
  <1>9. t \in [0 .. n -> Int] /\ t[0] = 0 /\ \A k \in 1 .. n : t[k] = t[k - 1] + vs[k] BY <1>5, <1>7 DEF Sums
  <1>10. \A h \in Holders : Net(book[h]) \in Int
    <2> TAKE h \in Holders
    <2>1. book[h] \in Books /\ SameVolume(book[h], book[h]) BY BookOf DEF SameVolume
    <2> QED BY <2>1, SameNet
  <1> DEFINE Right(k) == \A h \in Holders : Net(g[k][h]) = Net(book[h]) + Amount(in, t[k])
             D == {k \in 0 .. n : ~Right(k)}
  <1>11. Right(0)
    <2>1. Sound(OrderFrame(o, in, left, match.final)) BY <1>1, <1>2, SoundOrder
    <2>2. book \in BookSets BY DEF TypeInv
    <2>3. \A h \in Holders : g[0][h] = Apply(book[h], OrderFrame(o, in, left, match.final))
      BY <2>1, <2>2, <1>4, UpdateSound
    <2>4. Amount(in, t[0]) = 0 /\ t[0] \in Int BY <1>9, AmountInt
    <2> TAKE h \in Holders
    <2>5. book[h] \in Books BY BookOf
    <2>6. Net(g[0][h]) = Net(book[h]) BY <1>1, <1>2, <2>3, <2>5, OrderNet
    <2> QED BY <1>10, <2>4, <2>6
  <1>12. D \in SUBSET Nat BY <1>3
  <1>13. D = {}
    <2>1. SUFFICES ASSUME D # {} PROVE FALSE OBVIOUS
    <2>2. PICK k \in D : \A i \in D : k <= i
      <3> HIDE DEF D
      <3> QED BY <1>12, <2>1, LeastNat
    <2>3. k # 0 BY <1>11
    <2>4. k \in 1 .. n /\ k - 1 \in 0 .. n /\ k - 1 \notin D BY <1>3, <2>2, <2>3
    <2>5. Right(k - 1) BY <2>4
    <2>6. g[k - 1] \in BookSets BY <1>4, <2>4
    <2>7. fills[k][1] \in Nat /\ fills[k][2] \in Nat /\ vs[k] = fills[k][1] BY <1>5, <2>4
    <2>8. Sound(TradeFrame(o, in, fills[k][1], fills[k][2])) BY <1>1, <2>7, SoundTrade
    <2>9. g[k] = update_book(g[k - 1], TradeFrame(o, in, fills[k][1], fills[k][2]), "strategy") BY <1>4, <2>4
    <2>10. \A h \in Holders : g[k][h] = Apply(g[k - 1][h], TradeFrame(o, in, fills[k][1], fills[k][2]))
      BY <2>6, <2>8, <2>9, UpdateSound
    <2>11. t[k] = t[k - 1] + vs[k] /\ t[k - 1] \in Int /\ vs[k] \in Int BY <1>9, <2>4, <2>7
    <2>12. /\ Amount(in, t[k]) = Amount(in, t[k - 1]) + Amount(in, vs[k])
           /\ Amount(in, t[k - 1]) \in Int /\ Amount(in, vs[k]) \in Int
      <3> DEFINE x == t[k - 1]
                 y == vs[k]
      <3>1. t[k] = x + y /\ x \in Int /\ y \in Int BY <2>11
      <3> HIDE DEF x, y
      <3>2. Amount(in, x + y) = Amount(in, x) + Amount(in, y) /\ Amount(in, x) \in Int /\ Amount(in, y) \in Int
        BY <3>1, AmountInt
      <3>3. Amount(in, t[k]) = Amount(in, x) + Amount(in, y) BY <3>1, <3>2
      <3> QED BY <3>2, <3>3 DEF x, y
    <2>13. Right(k)
      <3> TAKE h \in Holders
      <3>1. g[k - 1][h] \in Books BY <2>6 DEF BookSets
      <3>2. Net(g[k][h]) = Net(g[k - 1][h]) + Amount(in, vs[k]) BY <1>1, <2>7, <2>10, <3>1, TradeNet
      <3>3. Net(g[k - 1][h]) = Net(book[h]) + Amount(in, t[k - 1]) BY <2>5
      <3> QED BY <1>10, <2>12, <3>2, <3>3
    <2> HIDE DEF Right
    <2> QED BY <2>2, <2>13
  <1>14. n \in 0 .. n BY <1>3
  <1>15. Right(n)
    <2> HIDE DEF Right
    <2> QED BY <1>13, <1>14
  <1> QED BY <1>6, <1>8, <1>15 DEF n, in, fills

LEMMA SimInsertNet ==
  ASSUME TypeInv, TypeInv', NetInv, NEW o \in DOMAIN orders, sim_insert_order(o)
  PROVE  NetInv'
  <1>1. PICK match : \E g : SimStep(o, match, g) BY SimUnfold
  <1>2. PICK g : SimStep(o, match, g) BY <1>1
  <1> DEFINE left == orders[o].in.volume - Traded(match.fills)
             stage == IF match.final THEN "done" ELSE "live"
             u == Amount(orders[o].in, Traded(match.fills))
  <1>3. match \in Matches(orders[o].in) /\ SimBooks(o, match, g) BY <1>2 DEF SimStep
  <1>4. /\ match.fills \in FillSeqs /\ Traded(match.fills) \in 0 .. orders[o].in.volume
        /\ orders[o].in.volume \in Nat
    BY <1>3, OrderType, MatchType, RequestType
  <1>5. left \in Nat BY <1>4
  <1>6. stage \in {"sent", "live", "done"} OBVIOUS
  <1>7. /\ setup.broker = "sim" /\ orders[o].stage = "sent" /\ setup' = setup /\ notes' = notes
    BY DEF sim_insert_order
  <1>8. orders' = Changed(o, left, match.fills, stage)
    <2>1. orders' = SetOrder(o, left, match.fills, stage) BY <1>2 DEF SimStep, SetOrder
    <2> HIDE DEF left, stage
    <2> QED BY <2>1, <1>4, <1>5, <1>6, SetIs, Zenon
  <1>9. u = Amount(orders[o].in, Traded(match.fills)) /\ u \in Int
    <2>1. Traded(match.fills) \in Int BY <1>4
    <2> QED BY <2>1, AmountInt
  <1>10. \A h \in Holders : Net(book'[h]) = Net(book[h]) + u
    <2>1. book' = g[Len(match.fills)] BY <1>2 DEF SimStep
    <2> QED BY <2>1, <1>3, SimBooksNet
  <1> HIDE DEF left, stage, u
  <1>11. notes = <<>> /\ odd \subseteq odd'
    <2>1. notes = <<>> BY <1>7 DEF TypeInv, NotesInv
    <2>2. odd \subseteq odd' BY <1>2 DEF SimStep
    <2> QED BY <2>1, <2>2
  <1>12. SumOf(Pending(orders'), notes') = SumOf(Pending(orders), notes) + 0 BY <1>7, <1>11, SumOfNone
  <1>13. Total(SignedSeq(orders')) = Total(SignedSeq(orders)) + (u + 0)
    <2> DEFINE x == Amount(orders[o].in, Traded(orders[o].fills))
               q == Total(SignedSeq(orders))
    <2>1. Total(SignedSeq(orders')) = q - x + u BY <1>4, <1>5, <1>6, <1>8, <1>9, SignedChanged
    <2>2. x = 0
      <3>1. orders[o].fills = <<>> BY <1>7, OrderType
      <3>2. Traded(orders[o].fills) = 0 /\ 0 \in Int BY <3>1, TradedNone
      <3> QED BY <3>2, AmountInt
    <2>3. orders \in Seq(OrderRecs) BY DEF TypeInv
    <2>4. SignedSeq(orders) \in Seq(Int) BY <2>3, SignedType
    <2>5. q \in Int BY <2>4, TotalInt
    <2> HIDE DEF x, q
    <2>6. Total(SignedSeq(orders')) = q + (u + 0) BY <2>1, <2>2, <2>5, <1>9
    <2> QED BY <2>6 DEF q
  <1>14. \A h \in Told : Net(book'[h]) = Net(book[h]) + u BY <1>10 DEF Told, Holders
  <1>15. 0 \in Int OBVIOUS
  <1> QED BY <1>7, <1>9, <1>11, <1>12, <1>13, <1>14, <1>15, NetFrom

LEMMA NextNet == TypeInv /\ TypeInv' /\ NetInv /\ [Next]_vars => NetInv'
  <1> SUFFICES ASSUME TypeInv, TypeInv', NetInv, [Next]_vars PROVE NetInv' OBVIOUS
  <1>1. ASSUME NEW in \in Requests, insert_order(in) PROVE NetInv' BY <1>1, InsertNet
  <1>2. ASSUME NEW price \in Quotes, Quote(price) PROVE NetInv' BY <1>2, QuoteNet
  <1>3. ASSUME NEW o \in DOMAIN orders, sim_insert_order(o) PROVE NetInv' BY <1>3, SimInsertNet
  <1>4. ASSUME NEW o \in DOMAIN orders, sim_cancel_order(o) PROVE NetInv' BY <1>4, SimCancelNet
  <1>5. ASSUME NEW o \in DOMAIN orders, ctp_insert_refused(o) PROVE NetInv' BY <1>5, RefusedNet
  <1>6. ASSUME NEW o \in DOMAIN orders, ctp_insert_order(o) \/ ctp_reject(o) \/ ctp_cancel_order(o) PROVE NetInv'
    <2>1. \E n : \E stage : OneNote(o, n, stage) BY <1>6, OneNoteUnfold
    <2> QED BY <2>1, OneNoteNet
  <1>7. ASSUME NEW o \in DOMAIN orders, ctp_fill(o) PROVE NetInv' BY <1>7, FillNet
  <1>8. CASE ctp_req_order_trade BY <1>8, ReqNet
  <1>9. CASE ctp_handle BY <1>9, HandleNet
  <1>10. CASE UNCHANGED vars
    <2>1. /\ setup' = setup /\ orders' = orders /\ notes' = notes /\ book' = book /\ odd' = odd
      BY <1>10 DEF vars, broker
    <2>2. \A h \in Told : Net(book'[h]) = Net(book[h]) BY <2>1
    <2>3. odd \subseteq odd' BY <2>1
    <2> QED BY <2>1, <2>2, <2>3, QuietNet
  <1> QED BY <1>1, <1>2, <1>3, <1>4, <1>5, <1>6, <1>7, <1>8, <1>9, <1>10 DEF Next

LEMMA InitNet == Init => NetInv
  <1> SUFFICES ASSUME Init PROVE NetInv OBVIOUS
  <1>1. orders = <<>> /\ notes = <<>> /\ setup \in Setups BY DEF Init
  <1>2. setup.holding \in Nat BY <1>1, SetupType
  <1>3. NetTraded = setup.holding + 0
    <2>1. [o \in DOMAIN <<>> |-> Signed(o)] = <<>> OBVIOUS
    <2> QED BY <2>1, <1>1, TotalEmpty DEF NetTraded
  <1>4. SumOf(Pending(orders), notes) = 0 BY <1>1, SumOfNone
  <1>5. \A h \in Told : Net(book[h]) = setup.holding
    <2> TAKE h \in Told
    <2>1. h \in Holders BY DEF Told, Holders
    <2>2. book[h] = Restored(setup.holding) BY <2>1 DEF Init
    <2>3. /\ "Long" \in Directions /\ "Short" \in Directions BY DEF Directions
    <2> DEFINE n == setup.holding
    <2>4. n \in Nat BY <1>2
    <2> HIDE DEF n
    <2>5. Restored(n).pos["Short"] = NoPosition BY <2>3 DEF Restored
    <2>6. Restored(n).pos["Long"] = [NoPosition EXCEPT !.volume = n, !.yesterday_volume = n, !.margin = n]
      BY <2>3 DEF Restored
    <2>7. Restored(n).pos["Short"].volume = 0 BY <2>5 DEF NoPosition
    <2>8. Restored(n).pos["Long"].volume = n BY <2>6 DEF NoPosition
    <2>9. Net(Restored(n)) = n BY <2>4, <2>7, <2>8 DEF Net
    <2> QED BY <2>2, <2>9 DEF n
  <1> QED BY <1>2, <1>3, <1>4, <1>5 DEF NetInv

\* Once every notification is handled, long minus short of a book is what was held and
\* traded, whichever way get_offset merged each order, unless a trade came after its
\* order's mapping was erased or an answer to a query told it again.
THEOREM NetIsExact == Spec => []NetExact
  <1>1. TypeInv /\ NetInv => NetExact
    <2> SUFFICES ASSUME TypeInv, NetInv, notes = <<>>, ~Odd({"late", "again"}), NEW h \in Told
                 PROVE  book[h].pos["Long"].volume - book[h].pos["Short"].volume = NetTraded
      BY DEF NetExact
    <2>1. SumOf(Pending(orders), notes) = 0 BY SumOfNone
    <2>2. Net(book[h]) + 0 = NetTraded BY <2>1 DEF NetInv
    <2>3. book[h] \in Books /\ SameVolume(book[h], book[h]) BY BookOf DEF Told, Holders, SameVolume
    <2>4. Net(book[h]) \in Int BY <2>3, SameNet
    <2> QED BY <2>2, <2>4 DEF Net
  <1>2. TypeInv /\ NetInv /\ [Next]_vars => NetInv' BY NextType, NextNet
  <1> QED BY <1>1, <1>2, InitNet, AlwaysTyped, PTL DEF Spec

----------------------------------------------------------------------------
(***************************************************************************)
(* Released and NotOversold: what the orders may still release, order by   *)
(* order, is what the books hold frozen for them.                          *)
(***************************************************************************)

\* n amounts, each counted at a rate of its own
Products(R, D) == [i \in DOMAIN R |-> R[i] * D[i]]

Weighted(R, D) == Total(Products(R, D))

ProductsAre(n, R, D, s) ==
  /\ s \in Seq(Int) /\ Len(s) = n
  /\ \A i \in 1 .. n : s[i] = R[i] * D[i] /\ s[i] \in Nat
  /\ Weighted(R, D) = Total(s) /\ Total(s) \in Nat

LEMMA WeightedSeq ==
  ASSUME NEW n \in Nat, NEW R \in [1 .. n -> Nat], NEW D \in [1 .. n -> Nat], NEW s,
         s = Products(R, D)
  PROVE  ProductsAre(n, R, D, s)
  <1>1. \A i \in 1 .. n : s[i] = R[i] * D[i] /\ s[i] \in Nat
    <2> TAKE i \in 1 .. n
    <2>1. R[i] \in Nat /\ D[i] \in Nat OBVIOUS
    <2>2. s[i] = R[i] * D[i] BY DEF Products
    <2> QED BY <2>1, <2>2, ProductNat
  <1>2. s \in [1 .. n -> Int]
    <2>1. \A i \in 1 .. n : s[i] \in Int BY <1>1
    <2>2. s = [i \in 1 .. n |-> R[i] * D[i]] BY DEF Products
    <2> QED BY <2>1, <2>2
  <1>3. s \in Seq(Int) /\ Len(s) = n BY <1>2, IntSeqOf
  <1>4. Weighted(R, D) = Total(s) BY DEF Weighted
  <1>5. Total(s) \in Nat
    <2>1. \A k \in 1 .. Len(s) : s[k] >= 0 BY <1>1, <1>3
    <2> QED BY <2>1, <1>3, TotalNat
  <1> QED BY <1>1, <1>3, <1>4, <1>5 DEF ProductsAre

LEMMA WeightedBound ==
  ASSUME NEW n \in Nat, NEW R \in [1 .. n -> Nat], NEW D \in [1 .. n -> Nat], NEW o \in 1 .. n
  PROVE  R[o] * D[o] <= Weighted(R, D)
  <1> DEFINE s == Products(R, D)
  <1>1. s = Products(R, D) OBVIOUS
  <1> HIDE DEF s
  <1>2. /\ s \in Seq(Int) /\ Len(s) = n /\ Weighted(R, D) = Total(s)
        /\ \A i \in 1 .. n : s[i] = R[i] * D[i] /\ s[i] \in Nat
    <2>1. ProductsAre(n, R, D, s) BY <1>1, WeightedSeq
    <2> QED BY <2>1 DEF ProductsAre
  <1>3. \A k \in 1 .. Len(s) : s[k] >= 0 BY <1>2
  <1>4. o \in 1 .. Len(s) BY <1>2
  <1>5. s[o] <= Total(s) BY <1>2, <1>3, <1>4, TotalBound
  <1> QED BY <1>2, <1>5

LEMMA WeightedZero ==
  ASSUME NEW n \in Nat, NEW R \in [1 .. n -> Nat], NEW D \in [1 .. n -> Nat],
         \A i \in 1 .. n : D[i] = 0
  PROVE  Weighted(R, D) = 0
  <1> DEFINE s == Products(R, D)
  <1>1. s = Products(R, D) OBVIOUS
  <1> HIDE DEF s
  <1>2. /\ s \in Seq(Int) /\ Len(s) = n /\ Weighted(R, D) = Total(s)
        /\ \A i \in 1 .. n : s[i] = R[i] * D[i]
    <2>1. ProductsAre(n, R, D, s) BY <1>1, WeightedSeq
    <2> QED BY <2>1 DEF ProductsAre
  <1>3. \A k \in 1 .. Len(s) : s[k] = 0
    <2> TAKE k \in 1 .. Len(s)
    <2>1. R[k] \in Nat /\ D[k] = 0 /\ s[k] = R[k] * D[k] BY <1>2
    <2> QED BY <2>1
  <1> QED BY <1>2, <1>3, TotalZero

\* one amount falls
\* one order's due falls by y
Falls(n, D, E, o, y) == /\ D \in [1 .. n -> Nat] /\ E \in [1 .. n -> Nat] /\ o \in 1 .. n
                        /\ D[o] = E[o] + y /\ \A i \in 1 .. n : i # o => E[i] = D[i]

LEMMA WeightedFall ==
  ASSUME NEW n \in Nat, NEW R \in [1 .. n -> Nat], NEW D, NEW E, NEW o, NEW y \in Nat, Falls(n, D, E, o, y)
  PROVE  Weighted(R, E) = Weighted(R, D) - R[o] * y
  <1>a. /\ D \in [1 .. n -> Nat] /\ E \in [1 .. n -> Nat] /\ o \in 1 .. n
        /\ D[o] = E[o] + y /\ \A i \in 1 .. n : i # o => E[i] = D[i]
    BY DEF Falls
  <1> SUFFICES ASSUME D \in [1 .. n -> Nat], E \in [1 .. n -> Nat], o \in 1 .. n,
                      D[o] = E[o] + y, \A i \in 1 .. n : i # o => E[i] = D[i]
               PROVE  Weighted(R, E) = Weighted(R, D) - R[o] * y
    BY <1>a
  <1> DEFINE s == Products(R, D)
             t == Products(R, E)
             u == [s EXCEPT ![o] = t[o]]
  <1>1. s = Products(R, D) /\ t = Products(R, E) OBVIOUS
  <1> HIDE DEF s, t
  <1>2. /\ s \in Seq(Int) /\ Len(s) = n /\ Weighted(R, D) = Total(s) /\ Total(s) \in Nat
        /\ \A i \in 1 .. n : s[i] = R[i] * D[i] /\ s[i] \in Nat
    <2>1. ProductsAre(n, R, D, s) BY <1>1, WeightedSeq
    <2> QED BY <2>1 DEF ProductsAre
  <1>3. /\ t \in Seq(Int) /\ Len(t) = n /\ Weighted(R, E) = Total(t)
        /\ \A i \in 1 .. n : t[i] = R[i] * E[i] /\ t[i] \in Nat
    <2>1. ProductsAre(n, R, E, t) BY <1>1, WeightedSeq
    <2> QED BY <2>1 DEF ProductsAre
  <1>4. o \in 1 .. Len(s) /\ t[o] \in Int BY <1>2, <1>3
  <1>5. Total(u) = Total(s) - s[o] + t[o] BY <1>2, <1>4, TotalExcept
  <1>6. u \in Seq(Int) /\ Len(u) = n /\ u[o] = t[o] /\ \A i \in 1 .. n : i # o => u[i] = s[i] BY <1>2, <1>4
  <1> HIDE DEF u
  <1>7. \A i \in 1 .. Len(u) : u[i] = t[i]
    <2> TAKE i \in 1 .. Len(u)
    <2>1. CASE i = o BY <2>1, <1>6
    <2>2. CASE i # o BY <2>2, <1>2, <1>3, <1>6
    <2> QED BY <2>1, <2>2
  <1>8. u = t BY <1>3, <1>6, <1>7, SameSeq
  <1>9. s[o] = t[o] + R[o] * y
    <2>1. R[o] \in Nat /\ E[o] \in Nat OBVIOUS
    <2>2. R[o] * (E[o] + y) = R[o] * E[o] + R[o] * y BY <2>1
    <2> QED BY <2>2, <1>2, <1>3
  <1>10. R[o] * y \in Nat
    <2>1. R[o] \in Nat OBVIOUS
    <2> QED BY <2>1, ProductNat
  <1> DEFINE x == s[o]
             z == t[o]
             w == R[o] * y
  <1>11. x \in Int /\ z \in Int /\ w \in Int /\ x = z + w /\ Total(t) = Total(s) - x + z
    BY <1>2, <1>3, <1>5, <1>8, <1>9, <1>10
  <1> HIDE DEF x, z, w
  <1>12. Total(t) = Total(s) - w BY <1>2, <1>11
  <1> QED BY <1>2, <1>3, <1>12 DEF w

\* one amount more
LEMMA WeightedMore ==
  ASSUME NEW n \in Nat, NEW R \in [1 .. n -> Nat], NEW D \in [1 .. n -> Nat],
         NEW Q \in [1 .. n + 1 -> Nat], NEW E \in [1 .. n + 1 -> Nat],
         \A i \in 1 .. n : Q[i] = R[i] /\ E[i] = D[i]
  PROVE  Weighted(Q, E) = Weighted(R, D) + Q[n + 1] * E[n + 1]
  <1> DEFINE s == Products(R, D)
             t == Products(Q, E)
             m == n + 1
             u == Append(s, t[m])
  <1>1. s = Products(R, D) /\ t = Products(Q, E) /\ m \in Nat OBVIOUS
  <1> HIDE DEF s, t
  <1>2. /\ s \in Seq(Int) /\ Len(s) = n /\ Weighted(R, D) = Total(s)
        /\ \A i \in 1 .. n : s[i] = R[i] * D[i]
    <2>1. ProductsAre(n, R, D, s) BY <1>1, WeightedSeq
    <2> QED BY <2>1 DEF ProductsAre
  <1>3. Q \in [1 .. m -> Nat] /\ E \in [1 .. m -> Nat] OBVIOUS
  <1>4. m = n + 1 OBVIOUS
  <1> HIDE DEF m
  <1>5. /\ t \in Seq(Int) /\ Len(t) = m /\ Weighted(Q, E) = Total(t)
        /\ \A i \in 1 .. m : t[i] = Q[i] * E[i] /\ t[i] \in Nat
    <2>1. ProductsAre(m, Q, E, t) BY <1>1, <1>3, WeightedSeq
    <2> QED BY <2>1 DEF ProductsAre
  <1>6. m \in 1 .. m /\ t[m] \in Int BY <1>1, <1>4, <1>5
  <1>7. Total(u) = Total(s) + t[m] BY <1>2, <1>6, TotalAppend
  <1>8. u \in Seq(Int) /\ Len(u) = m /\ u[m] = t[m] /\ \A i \in 1 .. n : u[i] = s[i]
    <2> DEFINE x == t[m]
    <2>1. x \in Int BY <1>6
    <2> HIDE DEF x
    <2>2. /\ Append(s, x) \in Seq(Int) /\ Len(Append(s, x)) = m /\ Append(s, x)[m] = x
          /\ \A i \in 1 .. n : Append(s, x)[i] = s[i]
      BY <2>1, <1>2, <1>4
    <2> QED BY <2>2 DEF x
  <1> HIDE DEF u
  <1>9. \A i \in 1 .. Len(u) : u[i] = t[i]
    <2> TAKE i \in 1 .. Len(u)
    <2>1. CASE i = m BY <2>1, <1>8
    <2>2. CASE i # m
      <3>1. i \in 1 .. n /\ i \in 1 .. m BY <2>2, <1>4, <1>8
      <3> QED BY <3>1, <1>2, <1>5, <1>8
    <2> QED BY <2>1, <2>2
  <1>10. u = t BY <1>5, <1>8, <1>9, SameSeq
  <1>11. t[m] = Q[m] * E[m] BY <1>5, <1>6
  <1> QED BY <1>2, <1>4, <1>5, <1>7, <1>10, <1>11

\* a notification that ends its order
IsEnd(n) == n.on \in {"order", "insert_rejected"} /\ n.final

Ending(ns, o) == \E i \in DOMAIN ns : ns[i].o = o /\ IsEnd(ns[i])

LotOf(o) == [n \in NoteRecs |-> IF n.on = "trade" /\ n.o = o THEN 1 ELSE 0]

\* the trades of an order not told yet
Lots(ns, o) == SumOf(LotOf(o), ns)

Rest(os, ns, o) == IF os[o].stage # "done" \/ Ending(ns, o) THEN os[o].left ELSE 0

\* the volume that the reports of an order still to come release
Due(os, ns, o) == Rest(os, ns, o) + Lots(ns, o)

Dues(os, ns) == [o \in DOMAIN os |-> Due(os, ns, o)]

\* the position a closing order closes, however its offset was merged
CloseSide(in) == IF in.side = "Buy" THEN "Short" ELSE "Long"

\* what one lot of each order holds frozen: cash, volume, volume of yesterday
CashRates(os, bk) == [o \in DOMAIN os |-> IF bk[o] THEN os[o].in.price ELSE 0]

VolumeRates(os, bk, d) == [o \in DOMAIN os |-> IF ~bk[o] /\ CloseSide(os[o].in) = d THEN 1 ELSE 0]

OldRates(os, bk, d) ==
  [o \in DOMAIN os |->
     IF ~bk[o] /\ CloseSide(os[o].in) = d /\ os[o].in.offset # "CloseToday" THEN 1 ELSE 0]

LEMMA LotsType ==
  ASSUME NEW o, NEW ns \in Seq(NoteRecs)
  PROVE  /\ LotOf(o) \in Weights(NoteRecs) /\ Lots(ns, o) \in Nat
         /\ \A n \in NoteRecs : LotOf(o)[n] = IF n.on = "trade" /\ n.o = o THEN 1 ELSE 0
  <1>1. LotOf(o) \in Weights(NoteRecs) BY DEF LotOf, Weights
  <1>2. \A n \in NoteRecs : LotOf(o)[n] = IF n.on = "trade" /\ n.o = o THEN 1 ELSE 0 BY DEF LotOf
  <1>3. \A i \in 1 .. Len(ns) : LotOf(o)[ns[i]] >= 0
    <2> TAKE i \in 1 .. Len(ns)
    <2>1. ns[i] \in NoteRecs OBVIOUS
    <2>2. LotOf(o)[ns[i]] \in {0, 1} BY <2>1, <1>2
    <2> QED BY <2>2
  <1>4. Lots(ns, o) \in Nat BY <1>1, <1>3, SumOfNat DEF Lots
  <1> QED BY <1>1, <1>2, <1>4

LEMMA DueType ==
  ASSUME NEW os \in Seq(OrderRecs), NEW ns \in Seq(NoteRecs)
  PROVE  /\ \A o \in DOMAIN os : /\ Rest(os, ns, o) \in Nat /\ Lots(ns, o) \in Nat
                                 /\ Due(os, ns, o) \in Nat
                                 /\ Due(os, ns, o) = Rest(os, ns, o) + Lots(ns, o)
         /\ Dues(os, ns) \in [1 .. Len(os) -> Nat]
         /\ \A o \in DOMAIN os : Dues(os, ns)[o] = Due(os, ns, o)
  <1>1. ASSUME NEW o \in DOMAIN os
        PROVE  /\ Rest(os, ns, o) \in Nat /\ Lots(ns, o) \in Nat /\ Due(os, ns, o) \in Nat
               /\ Due(os, ns, o) = Rest(os, ns, o) + Lots(ns, o)
    <2>1. os[o] \in OrderRecs OBVIOUS
    <2>2. os[o].left \in Nat BY <2>1 DEF OrderRecs
    <2>3. Rest(os, ns, o) \in Nat BY <2>2 DEF Rest
    <2>4. Lots(ns, o) \in Nat BY LotsType
    <2> QED BY <2>3, <2>4 DEF Due
  <1>2. DOMAIN os = 1 .. Len(os) OBVIOUS
  <1> QED BY <1>1, <1>2 DEF Dues

LEMMA RatesType ==
  ASSUME NEW os \in Seq(OrderRecs), NEW bk \in Seq(BOOLEAN), Len(bk) = Len(os), NEW d
  PROVE  /\ CashRates(os, bk) \in [1 .. Len(os) -> Nat]
         /\ VolumeRates(os, bk, d) \in [1 .. Len(os) -> Nat]
         /\ OldRates(os, bk, d) \in [1 .. Len(os) -> Nat]
         /\ \A o \in DOMAIN os :
               /\ CashRates(os, bk)[o] = IF bk[o] THEN os[o].in.price ELSE 0
               /\ VolumeRates(os, bk, d)[o] = IF ~bk[o] /\ CloseSide(os[o].in) = d THEN 1 ELSE 0
               /\ OldRates(os, bk, d)[o] = IF ~bk[o] /\ CloseSide(os[o].in) = d
                                              /\ os[o].in.offset # "CloseToday" THEN 1 ELSE 0
  <1>1. DOMAIN os = 1 .. Len(os) OBVIOUS
  <1>2. \A o \in DOMAIN os : os[o].in.price \in Nat
    <2> TAKE o \in DOMAIN os
    <2>1. os[o] \in OrderRecs OBVIOUS
    <2>2. os[o].in \in Requests BY <2>1 DEF OrderRecs
    <2> QED BY <2>2, RequestType
  <1>3. CashRates(os, bk) \in [1 .. Len(os) -> Nat] BY <1>1, <1>2 DEF CashRates
  <1>4. VolumeRates(os, bk, d) \in [1 .. Len(os) -> Nat] BY <1>1 DEF VolumeRates
  <1>5. OldRates(os, bk, d) \in [1 .. Len(os) -> Nat] BY <1>1 DEF OldRates
  <1> QED BY <1>3, <1>4, <1>5 DEF CashRates, VolumeRates, OldRates

\* the rates do not change with what is left of the orders
LEMMA RatesSame ==
  ASSUME NEW os, NEW ot, DOMAIN ot = DOMAIN os, \A i \in DOMAIN os : ot[i].in = os[i].in, NEW bk, NEW d
  PROVE  /\ CashRates(ot, bk) = CashRates(os, bk)
         /\ VolumeRates(ot, bk, d) = VolumeRates(os, bk, d)
         /\ OldRates(ot, bk, d) = OldRates(os, bk, d)
  BY DEF CashRates, VolumeRates, OldRates

LEMMA EndingMore ==
  ASSUME NEW ns \in Seq(NoteRecs), NEW more \in Seq(NoteRecs), NEW o
  PROVE  /\ Ending(ns \o more, o) <=> Ending(ns, o) \/ Ending(more, o)
         /\ Lots(ns \o more, o) = Lots(ns, o) + Lots(more, o)
  <1> DEFINE all == ns \o more
  <1>1. /\ Len(all) = Len(ns) + Len(more) /\ DOMAIN all = 1 .. Len(all)
        /\ DOMAIN ns = 1 .. Len(ns) /\ DOMAIN more = 1 .. Len(more)
        /\ Len(ns) \in Nat /\ Len(more) \in Nat
        /\ \A i \in 1 .. Len(ns) : all[i] = ns[i]
        /\ \A i \in 1 .. Len(more) : all[Len(ns) + i] = more[i]
    OBVIOUS
  <1>2. LotOf(o) \in Weights(NoteRecs) BY LotsType
  <1>3. Lots(all, o) = Lots(ns, o) + Lots(more, o) BY <1>2, SumOfConcat DEF Lots
  <1> HIDE DEF all
  <1>4. ASSUME Ending(all, o) PROVE Ending(ns, o) \/ Ending(more, o)
    <2>1. PICK i \in DOMAIN all : all[i].o = o /\ IsEnd(all[i]) BY <1>4 DEF Ending
    <2>2. CASE i <= Len(ns)
      <3>1. i \in DOMAIN ns /\ all[i] = ns[i] BY <2>2, <1>1
      <3> QED BY <3>1, <2>1 DEF Ending
    <2>3. CASE i > Len(ns)
      <3> DEFINE j == i - Len(ns)
      <3>1. j \in 1 .. Len(more) /\ i = Len(ns) + j BY <2>3, <1>1
      <3>2. all[i] = more[j] /\ j \in DOMAIN more BY <3>1, <1>1
      <3> HIDE DEF j
      <3> QED BY <3>2, <2>1 DEF Ending
    <2> QED BY <2>2, <2>3, <1>1
  <1>5. ASSUME Ending(ns, o) PROVE Ending(all, o)
    <2>1. PICK i \in DOMAIN ns : ns[i].o = o /\ IsEnd(ns[i]) BY <1>5 DEF Ending
    <2>2. i \in DOMAIN all /\ all[i] = ns[i] BY <1>1
    <2> QED BY <2>1, <2>2 DEF Ending
  <1>6. ASSUME Ending(more, o) PROVE Ending(all, o)
    <2>1. PICK i \in DOMAIN more : more[i].o = o /\ IsEnd(more[i]) BY <1>6 DEF Ending
    <2>2. Len(ns) + i \in DOMAIN all /\ all[Len(ns) + i] = more[i] BY <1>1
    <2> QED BY <2>1, <2>2 DEF Ending
  <1> QED BY <1>3, <1>4, <1>5, <1>6 DEF all

LEMMA EndingHead ==
  ASSUME NEW ns \in Seq(NoteRecs), ns # <<>>, NEW o
  PROVE  /\ Ending(ns, o) <=> (ns[1].o = o /\ IsEnd(ns[1])) \/ Ending(Tail(ns), o)
         /\ Lots(ns, o) = (IF ns[1].on = "trade" /\ ns[1].o = o THEN 1 ELSE 0) + Lots(Tail(ns), o)
         /\ Tail(ns) \in Seq(NoteRecs) /\ Len(Tail(ns)) = Len(ns) - 1
         /\ \A i \in DOMAIN Tail(ns) : i + 1 \in DOMAIN ns /\ Tail(ns)[i] = ns[i + 1]
  <1> DEFINE t == Tail(ns)
  <1>1. /\ t \in Seq(NoteRecs) /\ Len(t) = Len(ns) - 1 /\ DOMAIN t = 1 .. Len(t) /\ DOMAIN ns = 1 .. Len(ns)
        /\ Len(ns) \in Nat /\ Len(ns) >= 1 /\ ns[1] \in NoteRecs
        /\ \A i \in 1 .. Len(t) : t[i] = ns[i + 1]
    OBVIOUS
  <1>2. /\ LotOf(o) \in Weights(NoteRecs)
        /\ LotOf(o)[ns[1]] = IF ns[1].on = "trade" /\ ns[1].o = o THEN 1 ELSE 0
    BY <1>1, LotsType
  <1>3. Lots(ns, o) = LotOf(o)[ns[1]] + Lots(t, o) BY <1>2, SumOfTail DEF Lots
  <1> HIDE DEF t
  <1>4. \A i \in DOMAIN t : i + 1 \in DOMAIN ns /\ t[i] = ns[i + 1] BY <1>1
  <1>5. ASSUME Ending(ns, o), ~(ns[1].o = o /\ IsEnd(ns[1])) PROVE Ending(t, o)
    <2>1. PICK i \in DOMAIN ns : ns[i].o = o /\ IsEnd(ns[i]) BY <1>5 DEF Ending
    <2>2. i # 1 BY <2>1, <1>5
    <2> DEFINE j == i - 1
    <2>3. j \in DOMAIN t /\ j + 1 = i BY <2>2, <1>1
    <2> HIDE DEF j
    <2>4. t[j] = ns[i] BY <2>3, <1>4
    <2> QED BY <2>1, <2>3, <2>4 DEF Ending
  <1>6. ASSUME Ending(t, o) PROVE Ending(ns, o)
    <2>1. PICK i \in DOMAIN t : t[i].o = o /\ IsEnd(t[i]) BY <1>6 DEF Ending
    <2>2. i + 1 \in DOMAIN ns /\ t[i] = ns[i + 1] BY <1>4
    <2> QED BY <2>1, <2>2 DEF Ending
  <1>7. 1 \in DOMAIN ns BY <1>1
  <1>8. ASSUME ns[1].o = o, IsEnd(ns[1]) PROVE Ending(ns, o) BY <1>7, <1>8 DEF Ending
  <1> QED BY <1>1, <1>2, <1>3, <1>4, <1>5, <1>6, <1>8 DEF t

\* an order is booked now as it was at its input
Steady(b, in, opening) == (get_offset(b, in) = "Open") = opening

\* a report of an order releases x lots of it from a book
FreedAt(p, q, in, x) ==
  /\ p.frozen_total >= x => /\ q.frozen_total = p.frozen_total - x
                            /\ q.volume - q.frozen_total >= p.volume - p.frozen_total
  /\ q.frozen_yesterday <= IF in.offset = "CloseToday" THEN p.frozen_yesterday ELSE Older(p.frozen_yesterday, x)

KeptAt(p, q) ==
  /\ q.frozen_total = p.frozen_total /\ q.frozen_yesterday = p.frozen_yesterday /\ q.volume >= p.volume

Freed(b, c, in, opening, x) ==
  /\ c.frozen_cash = b.frozen_cash - (IF opening THEN in.price * x ELSE 0)
  /\ \A d \in Directions : IF opening \/ d # CloseSide(in) THEN KeptAt(b.pos[d], c.pos[d])
                                                           ELSE FreedAt(b.pos[d], c.pos[d], in, x)

LEMMA ClosingOffset ==
  ASSUME NEW b, NEW in \in Requests, get_offset(b, in) # "Open"
  PROVE  /\ get_direction(in.side, get_offset(b, in)) = CloseSide(in)
         /\ in.offset # "CloseToday" => get_offset(b, in) = "Close"
  <1>1. in.offset \in Offsets /\ in.side \in {"Buy", "Sell"} BY RequestType
  <1> QED BY <1>1 DEF get_direction, CloseSide, get_offset, Offsets

LEMMA FreedOrder ==
  ASSUME NEW b \in Books, NEW id \in Int, NEW in \in Requests, NEW left \in Nat, NEW final \in BOOLEAN,
         NEW opening \in BOOLEAN, Steady(b, in, opening),
         NEW c, c = Apply(b, OrderFrame(id, in, left, final)), NEW x, x = IF final THEN left ELSE 0
  PROVE  Freed(b, c, in, opening, x) /\ c \in Books /\ c.known = b.known \cup {id}
  <1> DEFINE offset == get_offset(b, in)
             d == get_direction(in.side, offset)
  <1>1. offset = get_offset(b, in) /\ d = get_direction(in.side, offset) OBVIOUS
  <1>2. c = apply_order(b, id, in, left, final) BY ApplyOrder
  <1>3. opening <=> offset = "Open" BY DEF Steady
  <1>4. offset # "Open" => d = CloseSide(in) /\ (in.offset # "CloseToday" => offset = "Close") BY ClosingOffset
  <1>5. d \in Directions BY DirectionType
  <1> HIDE DEF offset, d
  <1>6. /\ c \in Books /\ Balance(c) = Balance(b) /\ c.known = b.known \cup {id} /\ SameVolume(c, b)
        /\ ~final => c.frozen_cash = b.frozen_cash /\ c.pos = b.pos
        /\ final /\ offset = "Open" => /\ c.frozen_cash = b.frozen_cash - in.price * left
                                       /\ c.pos = b.pos
        /\ final /\ offset # "Open" => /\ c.frozen_cash = b.frozen_cash /\ SameElse(c, b, d)
                                       /\ b.pos[d].frozen_total >= left
                                            => c.pos[d].frozen_total = b.pos[d].frozen_total - left
                                       /\ c.pos[d].frozen_yesterday <= b.pos[d].frozen_yesterday
        /\ final /\ offset = "Close" => c.pos[d].frozen_yesterday = Older(b.pos[d].frozen_yesterday, left)
    BY <1>1, <1>2, OrderEffect
  <1>7. in.price \in Nat /\ x \in Nat BY RequestType
  <1>8. b.frozen_cash \in Int BY <1>5, BookType
  <1>9. c.frozen_cash = b.frozen_cash - (IF opening THEN in.price * x ELSE 0)
    <2>1. in.price * 0 = 0 BY <1>7
    <2>2. CASE final /\ opening BY <2>2, <1>3, <1>6
    <2>3. CASE final /\ ~opening
      <3>1. c.frozen_cash = b.frozen_cash BY <2>3, <1>3, <1>6
      <3> QED BY <3>1, <2>3, <1>8
    <2>4. CASE ~final
      <3>1. x = 0 /\ c.frozen_cash = b.frozen_cash BY <2>4, <1>6
      <3> QED BY <3>1, <2>1, <1>8
    <2> QED BY <2>2, <2>3, <2>4
  <1>10. ASSUME NEW e \in Directions
         PROVE  IF opening \/ e # CloseSide(in) THEN KeptAt(b.pos[e], c.pos[e]) ELSE FreedAt(b.pos[e], c.pos[e], in, x)
    <2>1. /\ b.pos[e].frozen_total \in Int /\ b.pos[e].frozen_yesterday \in Nat /\ b.pos[e].volume \in Int
          /\ c.pos[e].frozen_total \in Int /\ c.pos[e].frozen_yesterday \in Nat /\ c.pos[e].volume \in Int
      BY <1>6, BookType
    <2>2. c.pos[e].volume = b.pos[e].volume BY <1>6 DEF SameVolume
    <2>3. Older(b.pos[e].frozen_yesterday, 0) = b.pos[e].frozen_yesterday
      <3> DEFINE f == b.pos[e].frozen_yesterday
      <3>1. f \in Int /\ f >= 0 /\ 0 \in Int BY <2>1
      <3> HIDE DEF f
      <3>2. Older(f, 0) = IF f >= 0 THEN f - 0 ELSE 0 BY <3>1, OlderValue
      <3>3. Older(f, 0) = f BY <3>1, <3>2
      <3> QED BY <3>3 DEF f
    <2>4. CASE ~final
      <3>1. c.pos[e] = b.pos[e] /\ x = 0 BY <2>4, <1>6
      <3> QED BY <3>1, <2>1, <2>3 DEF KeptAt, FreedAt
    <2>5. CASE final /\ opening
      <3>1. c.pos[e] = b.pos[e] BY <2>5, <1>3, <1>6
      <3> QED BY <3>1, <2>1, <2>5 DEF KeptAt
    <2>6. CASE final /\ ~opening /\ e # d
      <3>1. c.pos[e] = b.pos[e] /\ e # CloseSide(in) BY <2>6, <1>3, <1>4, <1>6 DEF SameElse
      <3> QED BY <3>1, <2>1 DEF KeptAt
    <2>7. CASE final /\ ~opening /\ e = d
      <3>1. /\ b.pos[e].frozen_total >= x => c.pos[e].frozen_total = b.pos[e].frozen_total - x
            /\ c.pos[e].frozen_yesterday <= b.pos[e].frozen_yesterday
            /\ in.offset # "CloseToday" => c.pos[e].frozen_yesterday = Older(b.pos[e].frozen_yesterday, x)
            /\ ~opening /\ e = CloseSide(in)
        BY <2>7, <1>3, <1>4, <1>6
      <3>2. FreedAt(b.pos[e], c.pos[e], in, x) BY <3>1, <2>1, <2>2, <1>7 DEF FreedAt
      <3> QED BY <3>1, <3>2
    <2> QED BY <2>4, <2>5, <2>6, <2>7
  <1> QED BY <1>6, <1>9, <1>10 DEF Freed

LEMMA FreedTrade ==
  ASSUME NEW b \in Books, NEW id \in Int, NEW in \in Requests, NEW volume \in Nat, NEW price \in Nat,
         NEW opening \in BOOLEAN, Steady(b, in, opening), id \in b.known,
         NEW c, c = Apply(b, TradeFrame(id, in, volume, price))
  PROVE  Freed(b, c, in, opening, volume) /\ c \in Books /\ c.known = b.known
  <1> DEFINE offset == get_offset(b, in)
             d == get_direction(in.side, offset)
  <1>1. offset = get_offset(b, in) /\ d = get_direction(in.side, offset) OBVIOUS
  <1>2. c = apply_trade(b, id, in, volume, price) BY ApplyTrade
  <1>3. opening <=> offset = "Open" BY DEF Steady
  <1>4. offset # "Open" => d = CloseSide(in) BY ClosingOffset
  <1>5. d \in Directions BY DirectionType
  <1> HIDE DEF offset, d
  <1>6. /\ c \in Books /\ Balance(c) = Balance(b) /\ c.known = b.known /\ SameElse(c, b, d)
        /\ offset = "Open" =>
              /\ c.frozen_cash = b.frozen_cash - Unfrozen(b, id, in, volume)
              /\ SameFrozen(c, b)
              /\ c.pos[d].volume = b.pos[d].volume + volume
              /\ c.pos[d].yesterday_volume = b.pos[d].yesterday_volume
        /\ offset # "Open" =>
              /\ c.frozen_cash = b.frozen_cash
              /\ c.pos[d].volume = b.pos[d].volume - volume
              /\ c.pos[d].frozen_total = b.pos[d].frozen_total - volume
              /\ in.offset = "CloseToday" => /\ c.pos[d].yesterday_volume = b.pos[d].yesterday_volume
                                            /\ c.pos[d].frozen_yesterday = b.pos[d].frozen_yesterday
              /\ in.offset # "CloseToday" =>
                     /\ c.pos[d].yesterday_volume = Older(b.pos[d].yesterday_volume, volume)
                     /\ c.pos[d].frozen_yesterday = Older(b.pos[d].frozen_yesterday, volume)
    BY <1>1, <1>2, TradeEffect
  <1>7. Unfrozen(b, id, in, volume) = in.price * volume BY DEF Unfrozen, get_frozen_price
  <1>8. b.frozen_cash \in Int BY <1>5, BookType
  <1>9. c.frozen_cash = b.frozen_cash - (IF opening THEN in.price * volume ELSE 0)
    BY <1>3, <1>6, <1>7, <1>8
  <1>10. ASSUME NEW e \in Directions
         PROVE  IF opening \/ e # CloseSide(in) THEN KeptAt(b.pos[e], c.pos[e])
                                                ELSE FreedAt(b.pos[e], c.pos[e], in, volume)
    <2>1. /\ b.pos[e].frozen_total \in Int /\ b.pos[e].frozen_yesterday \in Nat /\ b.pos[e].volume \in Int
          /\ c.pos[e].frozen_total \in Int /\ c.pos[e].frozen_yesterday \in Nat /\ c.pos[e].volume \in Int
      BY <1>6, BookType
    <2>2. CASE opening /\ e = d
      <3>1. c.pos[e].volume = b.pos[e].volume + volume /\ SameFrozen(c, b) BY <2>2, <1>3, <1>6
      <3>2. KeptAt(b.pos[e], c.pos[e]) BY <3>1, <2>1 DEF KeptAt, SameFrozen
      <3> QED BY <3>2, <2>2
    <2>3. CASE e # d
      <3>1. c.pos[e] = b.pos[e] BY <2>3, <1>6 DEF SameElse
      <3>2. opening \/ e # CloseSide(in) BY <2>3, <1>3, <1>4
      <3>3. KeptAt(b.pos[e], c.pos[e]) BY <3>1, <2>1 DEF KeptAt
      <3> QED BY <3>2, <3>3
    <2>4. CASE ~opening /\ e = d
      <3>1. /\ e = CloseSide(in) /\ c.pos[e].volume = b.pos[e].volume - volume
            /\ c.pos[e].frozen_total = b.pos[e].frozen_total - volume
            /\ in.offset = "CloseToday" => c.pos[e].frozen_yesterday = b.pos[e].frozen_yesterday
            /\ in.offset # "CloseToday" => c.pos[e].frozen_yesterday = Older(b.pos[e].frozen_yesterday, volume)
        BY <2>4, <1>3, <1>4, <1>6
      <3>2. FreedAt(b.pos[e], c.pos[e], in, volume) BY <3>1, <2>1 DEF FreedAt
      <3> QED BY <3>1, <3>2, <2>4
    <2> QED BY <2>2, <2>3, <2>4
  <1> QED BY <1>6, <1>9, <1>10 DEF Freed

\* what two reports release, one after the other
LEMMA FreedSum ==
  ASSUME NEW b \in Books, NEW c \in Books, NEW e \in Books, NEW in \in Requests, NEW opening \in BOOLEAN,
         NEW x \in Nat, NEW y \in Nat, Freed(b, c, in, opening, x), Freed(c, e, in, opening, y)
  PROVE  Freed(b, e, in, opening, x + y)
  <1>1. in.price \in Nat BY RequestType
  <1>2. "Long" \in Directions BY DEF Directions
  <1>3. b.frozen_cash \in Int /\ c.frozen_cash \in Int BY <1>2, BookType
  <1>4. e.frozen_cash = b.frozen_cash - (IF opening THEN in.price * (x + y) ELSE 0)
    <2>1. in.price * (x + y) = in.price * x + in.price * y BY <1>1
    <2>2. in.price * x \in Nat /\ in.price * y \in Nat BY <1>1, ProductNat
    <2>3. c.frozen_cash = b.frozen_cash - (IF opening THEN in.price * x ELSE 0) BY DEF Freed
    <2>4. e.frozen_cash = c.frozen_cash - (IF opening THEN in.price * y ELSE 0) BY DEF Freed
    <2> DEFINE u == in.price * x
               v == in.price * y
    <2>5. /\ u \in Nat /\ v \in Nat /\ in.price * (x + y) = u + v
          /\ c.frozen_cash = b.frozen_cash - (IF opening THEN u ELSE 0)
          /\ e.frozen_cash = c.frozen_cash - (IF opening THEN v ELSE 0)
      BY <2>1, <2>2, <2>3, <2>4
    <2> HIDE DEF u, v
    <2> QED BY <2>5, <1>3
  <1>5. ASSUME NEW d \in Directions
        PROVE  IF opening \/ d # CloseSide(in) THEN KeptAt(b.pos[d], e.pos[d])
                                               ELSE FreedAt(b.pos[d], e.pos[d], in, x + y)
    <2> DEFINE p == b.pos[d]
               q == c.pos[d]
               r == e.pos[d]
    <2>1. /\ p.frozen_total \in Int /\ p.frozen_yesterday \in Nat /\ p.volume \in Int
          /\ q.frozen_total \in Int /\ q.frozen_yesterday \in Nat /\ q.volume \in Int
          /\ r.frozen_total \in Int /\ r.frozen_yesterday \in Nat /\ r.volume \in Int
      BY BookType
    <2> HIDE DEF p, q, r
    <2>2. CASE opening \/ d # CloseSide(in)
      <3>1. KeptAt(p, q) /\ KeptAt(q, r) BY <2>2 DEF Freed, p, q, r
      <3>2. KeptAt(p, r) BY <3>1, <2>1 DEF KeptAt
      <3> QED BY <3>2, <2>2 DEF p, r
    <2>3. CASE ~(opening \/ d # CloseSide(in))
      <3>1. FreedAt(p, q, in, x) /\ FreedAt(q, r, in, y) BY <2>3 DEF Freed, p, q, r
      <3>2. p.frozen_total >= x + y => /\ r.frozen_total = p.frozen_total - (x + y)
                                       /\ r.volume - r.frozen_total >= p.volume - p.frozen_total
        BY <3>1, <2>1 DEF FreedAt
      <3>3. /\ Older(p.frozen_yesterday, x) = IF p.frozen_yesterday >= x THEN p.frozen_yesterday - x ELSE 0
            /\ Older(q.frozen_yesterday, y) = IF q.frozen_yesterday >= y THEN q.frozen_yesterday - y ELSE 0
            /\ Older(p.frozen_yesterday, x + y)
                 = IF p.frozen_yesterday >= x + y THEN p.frozen_yesterday - (x + y) ELSE 0
        <4>1. x + y \in Int /\ x \in Int /\ y \in Int /\ p.frozen_yesterday \in Int /\ q.frozen_yesterday \in Int BY <2>1
        <4> QED BY <4>1, OlderValue
      <3>4. CASE in.offset = "CloseToday"
        <4>1. r.frozen_yesterday <= p.frozen_yesterday BY <3>1, <3>4, <2>1 DEF FreedAt
        <4>2. FreedAt(p, r, in, x + y) BY <4>1, <3>2, <3>4 DEF FreedAt
        <4> QED BY <4>2, <2>3 DEF p, r
      <3>5. CASE in.offset # "CloseToday"
        <4>1. q.frozen_yesterday <= Older(p.frozen_yesterday, x) /\ r.frozen_yesterday <= Older(q.frozen_yesterday, y)
          BY <3>1, <3>5 DEF FreedAt
        <4>2. r.frozen_yesterday <= Older(p.frozen_yesterday, x + y) BY <4>1, <3>3, <2>1
        <4>3. FreedAt(p, r, in, x + y) BY <4>2, <3>2, <3>5 DEF FreedAt
        <4> QED BY <4>3, <2>3 DEF p, r
      <3> QED BY <3>4, <3>5
    <2> QED BY <2>2, <2>3
  <1> QED BY <1>4, <1>5 DEF Freed

LEMMA FreedNone ==
  ASSUME NEW b \in Books, NEW in \in Requests, NEW opening \in BOOLEAN
  PROVE  Freed(b, b, in, opening, 0)
  <1>1. in.price * 0 = 0
    <2>1. in.price \in Nat BY RequestType
    <2> QED BY <2>1
  <1>2. "Long" \in Directions BY DEF Directions
  <1>3. b.frozen_cash \in Int BY <1>2, BookType
  <1>4. b.frozen_cash = b.frozen_cash - (IF opening THEN in.price * 0 ELSE 0) BY <1>1, <1>3
  <1>5. ASSUME NEW d \in Directions PROVE KeptAt(b.pos[d], b.pos[d]) /\ FreedAt(b.pos[d], b.pos[d], in, 0)
    <2>1. b.pos[d].frozen_total \in Int /\ b.pos[d].frozen_yesterday \in Nat /\ b.pos[d].volume \in Int BY BookType
    <2>2. Older(b.pos[d].frozen_yesterday, 0) = b.pos[d].frozen_yesterday
      <3> DEFINE f == b.pos[d].frozen_yesterday
      <3>1. f \in Int /\ f >= 0 /\ 0 \in Int BY <2>1
      <3> HIDE DEF f
      <3>2. Older(f, 0) = IF f >= 0 THEN f - 0 ELSE 0 BY <3>1, OlderValue
      <3>3. Older(f, 0) = f BY <3>1, <3>2
      <3> QED BY <3>3 DEF f
    <2> QED BY <2>1, <2>2 DEF KeptAt, FreedAt
  <1> QED BY <1>4, <1>5 DEF Freed

\* a match of the simulated broker releases what is traded and, at its end, what is left
LEMMA SimBooksFreed ==
  ASSUME TypeInv, NEW o \in DOMAIN orders, NEW match \in Matches(orders[o].in), NEW g, SimBooks(o, match, g),
         NEW opening \in BOOLEAN, NEW h \in Holders, Steady(book[h], orders[o].in, opening),
         \A k \in 1 .. Len(match.fills) : Steady(g[k - 1][h], orders[o].in, opening),
         NEW x, x = IF match.final THEN orders[o].in.volume - Traded(match.fills) ELSE 0
  PROVE  Freed(book[h], g[Len(match.fills)][h], orders[o].in, opening, x + Traded(match.fills))
  <1> DEFINE in == orders[o].in
             fills == match.fills
             n == Len(fills)
             left == in.volume - Traded(fills)
             vs == FillVolumes(fills)
  <1>1. /\ in \in Requests /\ o \in Int /\ fills \in FillSeqs /\ match.final \in BOOLEAN
        /\ Traded(fills) \in 0 .. in.volume /\ in.volume \in Nat
    BY OrderType, MatchType, RequestType
  <1>2. left \in Nat /\ x = (IF match.final THEN left ELSE 0) /\ x \in Nat BY <1>1
  <1>3. n \in Nat BY <1>1 DEF FillSeqs
  <1>4. /\ g \in [0 .. n -> BookSets]
        /\ g[0] = update_book(book, OrderFrame(o, in, left, match.final), "strategy")
        /\ \A k \in 1 .. n : g[k] = update_book(g[k - 1], TradeFrame(o, in, fills[k][1], fills[k][2]), "strategy")
    BY DEF SimBooks
  <1>5. /\ vs \in Seq(Int) /\ Len(vs) = n
        /\ \A k \in 1 .. n : vs[k] = fills[k][1] /\ fills[k][1] \in Nat /\ fills[k][2] \in Nat
    BY <1>1, FillVolumesType
  <1>6. Traded(fills) = Total(vs) BY DEF Traded, FillVolumes
  <1>7. Steady(book[h], in, opening) /\ \A k \in 1 .. n : Steady(g[k - 1][h], in, opening) OBVIOUS
  <1> HIDE DEF in, left, n, vs, fills
  <1>8. PICK t : Sums(t, vs) BY <1>5, SumsExist
  <1>9. Total(vs) = t[n] BY <1>5, <1>8, TotalIs
  <1>10. t \in [0 .. n -> Int] /\ t[0] = 0 /\ \A k \in 1 .. n : t[k] = t[k - 1] + vs[k] BY <1>5, <1>8 DEF Sums
  <1>11. book[h] \in Books BY BookOf
  <1> DEFINE Right(k) == /\ t[k] \in Nat /\ o \in g[k][h].known
                         /\ Freed(book[h], g[k][h], in, opening, x + t[k])
             D == {k \in 0 .. n : ~Right(k)}
  <1>12. Right(0)
    <2>1. Sound(OrderFrame(o, in, left, match.final)) BY <1>1, <1>2, SoundOrder
    <2>2. book \in BookSets BY DEF TypeInv
    <2>3. g[0][h] = Apply(book[h], OrderFrame(o, in, left, match.final)) BY <2>1, <2>2, <1>4, UpdateSound
    <2>4. Freed(book[h], g[0][h], in, opening, x) /\ g[0][h].known = book[h].known \cup {o}
      <3> DEFINE b == book[h]
                 c == g[0][h]
                 final == match.final
      <3>1. /\ b \in Books /\ Steady(b, in, opening) /\ final \in BOOLEAN /\ x = (IF final THEN left ELSE 0)
            /\ c = Apply(b, OrderFrame(o, in, left, final))
        BY <1>1, <1>2, <1>7, <1>11, <2>3
      <3> HIDE DEF b, c, final
      <3>2. in \in Requests /\ o \in Int /\ left \in Nat /\ opening \in BOOLEAN BY <1>1, <1>2
      <3>3. Freed(b, c, in, opening, x) /\ c \in Books /\ c.known = b.known \cup {o}
        BY <3>1, <3>2, FreedOrder
      <3> QED BY <3>3 DEF b, c
    <2>5. x + t[0] = x BY <1>2, <1>10
    <2> QED BY <2>4, <2>5, <1>10
  <1>13. D \in SUBSET Nat BY <1>3
  <1>14. D = {}
    <2>1. SUFFICES ASSUME D # {} PROVE FALSE OBVIOUS
    <2>2. PICK k \in D : \A i \in D : k <= i
      <3> HIDE DEF D
      <3> QED BY <1>13, <2>1, LeastNat
    <2>3. k # 0 BY <1>12
    <2>4. k \in 1 .. n /\ k - 1 \in 0 .. n /\ k - 1 \notin D BY <1>3, <2>2, <2>3
    <2>5. Right(k - 1) BY <2>4
    <2>6. g[k - 1] \in BookSets BY <1>4, <2>4
    <2>7. fills[k][1] \in Nat /\ fills[k][2] \in Nat /\ vs[k] = fills[k][1] BY <1>5, <2>4
    <2>8. Sound(TradeFrame(o, in, fills[k][1], fills[k][2])) BY <1>1, <2>7, SoundTrade
    <2>9. g[k] = update_book(g[k - 1], TradeFrame(o, in, fills[k][1], fills[k][2]), "strategy") BY <1>4, <2>4
    <2> DEFINE a == g[k - 1][h]
               b == g[k][h]
               v == fills[k][1]
    <2>10. b = Apply(a, TradeFrame(o, in, fills[k][1], fills[k][2])) BY <2>6, <2>8, <2>9, UpdateSound
    <2>11. t[k] = t[k - 1] + v /\ t[k - 1] \in Nat /\ v \in Nat BY <1>10, <2>4, <2>5, <2>7
    <2>12. a \in Books /\ o \in a.known /\ Freed(book[h], a, in, opening, x + t[k - 1])
      BY <2>5, <2>6 DEF BookSets
    <2>13. Steady(a, in, opening) BY <1>7, <2>4
    <2>14. Freed(a, b, in, opening, v) /\ b \in Books /\ b.known = a.known
      <3> DEFINE price == fills[k][2]
      <3>1. /\ a \in Books /\ o \in a.known /\ Steady(a, in, opening) /\ v \in Nat /\ price \in Nat
            /\ b = Apply(a, TradeFrame(o, in, v, price))
        BY <2>7, <2>10, <2>12, <2>13
      <3> HIDE DEF a, b, v, price
      <3>2. in \in Requests /\ opening \in BOOLEAN /\ o \in Int BY <1>1
      <3>3. Freed(a, b, in, opening, v) /\ b \in Books /\ b.known = a.known BY <3>1, <3>2, FreedTrade
      <3> QED BY <3>3 DEF a, b, v
    <2>15. x + t[k - 1] \in Nat /\ (x + t[k - 1]) + v = x + t[k]
      <3> DEFINE r == t[k - 1]
                 q == t[k]
      <3>1. q = r + v /\ r \in Nat /\ v \in Nat /\ x \in Nat BY <1>2, <2>11
      <3> HIDE DEF r, q, v
      <3>2. x + r \in Nat /\ (x + r) + v = x + q BY <3>1
      <3> QED BY <3>2 DEF r, q, v
    <2>16. Freed(book[h], b, in, opening, x + t[k])
      <3> DEFINE y == x + t[k - 1]
      <3>1. y \in Nat /\ Freed(book[h], a, in, opening, y) /\ y + v = x + t[k] BY <2>12, <2>15
      <3> HIDE DEF y, a, b, v
      <3>2. v \in Nat BY <2>11
      <3>3. Freed(book[h], b, in, opening, y + v) BY <1>1, <1>11, <2>12, <2>14, <3>1, <3>2, FreedSum
      <3> QED BY <3>1, <3>3
    <2>17. t[k] \in Nat BY <2>11
    <2>18. Right(k) BY <2>12, <2>14, <2>16, <2>17
    <2> QED BY <2>2, <2>18
  <1>15. n \in 0 .. n BY <1>3
  <1>16. Right(n)
    <2> HIDE DEF Right
    <2> QED BY <1>14, <1>15
  <1> QED BY <1>6, <1>9, <1>16 DEF n, in, fills

\* the note that ends an order comes once, with what is left of it, while its mapping is there
EndsRight(os, mp, ns) ==
  /\ \A o \in DOMAIN os : os[o].stage = "sent" =>
        \A i \in DOMAIN ns : ns[i].o = o => ns[i].on \in {"qry_order", "qry_trade"}
  /\ \A o \in DOMAIN os : os[o].stage = "live" => o \in mp /\ ~Ending(ns, o)
  /\ \A i \in DOMAIN ns : IsEnd(ns[i]) =>
        /\ ns[i].o \in mp
        /\ ns[i].left = IF ns[i].on = "order" THEN os[ns[i].o].left ELSE 0
        /\ \A j \in DOMAIN ns : IsEnd(ns[j]) /\ ns[j].o = ns[i].o => j = i
  /\ \A i \in DOMAIN ns : ns[i].on = "insert_rejected" => ns[i].final

\* a book hears of an order before it hears of its trades
Announced(mp, ns, known) ==
  \A i \in DOMAIN ns : ns[i].on = "trade" /\ ns[i].o \in mp =>
     \/ ns[i].o \in known
     \/ \E j \in DOMAIN ns : j < i /\ ns[j].on = "order" /\ ns[j].o = ns[i].o

EndInv == setup.broker = "ctp" => /\ EndsRight(orders, mapped, notes)
                                  /\ Announced(mapped, notes, book["strategy"].known)

Spliced(all, ns, more) ==
  /\ \A i \in DOMAIN all : \/ i \in DOMAIN ns /\ all[i] = ns[i]
                           \/ \E k \in DOMAIN more : i = Len(ns) + k /\ all[i] = more[k]
  /\ \A i \in DOMAIN ns : i \in DOMAIN all /\ all[i] = ns[i] /\ i \in Nat /\ i <= Len(ns)
  /\ \A k \in DOMAIN more : /\ Len(ns) + k \in DOMAIN all /\ all[Len(ns) + k] = more[k]
                            /\ k \in Nat /\ k > 0
  /\ Len(ns) \in Nat

LEMMA SpliceOf ==
  ASSUME NEW ns \in Seq(NoteRecs), NEW more \in Seq(NoteRecs), NEW all, all = ns \o more
  PROVE  Spliced(all, ns, more)
  <1>1. /\ Len(all) = Len(ns) + Len(more) /\ DOMAIN all = 1 .. Len(all)
        /\ DOMAIN ns = 1 .. Len(ns) /\ DOMAIN more = 1 .. Len(more)
        /\ Len(ns) \in Nat /\ Len(more) \in Nat
        /\ \A i \in 1 .. Len(ns) : all[i] = ns[i]
        /\ \A i \in 1 .. Len(more) : all[Len(ns) + i] = more[i]
    OBVIOUS
  <1>2. ASSUME NEW i \in DOMAIN all
        PROVE  \/ i \in DOMAIN ns /\ all[i] = ns[i]
               \/ \E k \in DOMAIN more : i = Len(ns) + k /\ all[i] = more[k]
    <2>1. CASE i <= Len(ns) BY <2>1, <1>1
    <2>2. CASE i > Len(ns)
      <3> DEFINE k == i - Len(ns)
      <3>1. k \in DOMAIN more /\ i = Len(ns) + k BY <2>2, <1>1
      <3> HIDE DEF k
      <3>2. all[i] = more[k] BY <3>1, <1>1
      <3> QED BY <3>1, <3>2
    <2> QED BY <2>1, <2>2, <1>1
  <1>3. \A i \in DOMAIN ns : i \in DOMAIN all /\ all[i] = ns[i] /\ i \in Nat /\ i <= Len(ns) BY <1>1
  <1>4. \A k \in DOMAIN more : /\ Len(ns) + k \in DOMAIN all /\ all[Len(ns) + k] = more[k]
                               /\ k \in Nat /\ k > 0 BY <1>1
  <1> QED BY <1>1, <1>2, <1>3, <1>4 DEF Spliced

\* notes about one order, which at most one of them ends
Fresh(more, o, left, stage) ==
  /\ \A k \in DOMAIN more : more[k].o = o
  /\ \A k \in DOMAIN more : IsEnd(more[k]) => /\ more[k].left = IF more[k].on = "order" THEN left ELSE 0
                                              /\ stage # "live"
                                              /\ \A l \in DOMAIN more : IsEnd(more[l]) => l = k
  /\ \A k \in DOMAIN more : more[k].on = "insert_rejected" => more[k].final

\* its trades are told after it
TradesAfter(more) ==
  \A k \in DOMAIN more : more[k].on = "trade" =>
     \E j \in DOMAIN more : j < k /\ more[j].on = "order" /\ more[j].o = more[k].o

SameBeside(os, ot, o) == DOMAIN ot = DOMAIN os /\ \A i \in DOMAIN os : i # o => ot[i] = os[i]

\* notes of an order that has not ended
LEMMA EndsMore ==
  ASSUME NEW ns \in Seq(NoteRecs), NEW more \in Seq(NoteRecs), NEW all, all = ns \o more,
         NEW os, NEW ot, NEW o \in DOMAIN os, SameBeside(os, ot, o),
         NEW mp, NEW mq, mp \subseteq mq, o \in mq,
         EndsRight(os, mp, ns), ~Ending(ns, o), \A i \in DOMAIN ns : ns[i].o \in DOMAIN os,
         Fresh(more, o, ot[o].left, ot[o].stage),
         ot[o].stage # "sent"
  PROVE  EndsRight(ot, mq, all)
  <1> USE DEF Fresh, SameBeside
  <1>1. Spliced(all, ns, more) BY SpliceOf
  <1>2. ASSUME NEW i \in DOMAIN ot, ot[i].stage = "sent", NEW j \in DOMAIN all, all[j].o = i
        PROVE  all[j].on \in {"qry_order", "qry_trade"}
    <2>1. i # o /\ ot[i] = os[i] BY <1>2
    <2>2. j \in DOMAIN ns /\ all[j] = ns[j] BY <1>1, <1>2, <2>1 DEF Spliced
    <2> QED BY <1>2, <2>1, <2>2 DEF EndsRight
  <1>3. ASSUME NEW i \in DOMAIN ot, ot[i].stage = "live" PROVE i \in mq /\ ~Ending(all, i)
    <2>1. Ending(all, i) <=> Ending(ns, i) \/ Ending(more, i) BY EndingMore
    <2>2. CASE i = o
      <3>1. ~Ending(more, o) BY <1>3, <2>2 DEF Ending
      <3> QED BY <2>1, <2>2, <3>1
    <2>3. CASE i # o
      <3>1. ~Ending(more, i) BY <2>3 DEF Ending
      <3>2. i \in mp /\ ~Ending(ns, i) BY <1>3, <2>3 DEF EndsRight
      <3> QED BY <2>1, <3>1, <3>2
    <2> QED BY <2>2, <2>3
  <1>4. ASSUME NEW j \in DOMAIN ns, IsEnd(ns[j]) PROVE ns[j].o # o BY <1>4 DEF Ending
  <1>5. ASSUME NEW i \in DOMAIN all, IsEnd(all[i])
        PROVE  /\ all[i].o \in mq
               /\ all[i].left = IF all[i].on = "order" THEN ot[all[i].o].left ELSE 0
               /\ \A j \in DOMAIN all : IsEnd(all[j]) /\ all[j].o = all[i].o => j = i
    <2>1. CASE i \in DOMAIN ns /\ all[i] = ns[i]
      <3>1. ns[i].o # o BY <2>1, <1>4, <1>5
      <3>2. /\ ns[i].o \in mp
            /\ ns[i].left = IF ns[i].on = "order" THEN os[ns[i].o].left ELSE 0
            /\ \A j \in DOMAIN ns : IsEnd(ns[j]) /\ ns[j].o = ns[i].o => j = i
        BY <2>1, <1>5 DEF EndsRight
      <3>3. ot[ns[i].o] = os[ns[i].o] BY <2>1, <3>1
      <3>4. ASSUME NEW j \in DOMAIN all, IsEnd(all[j]), all[j].o = all[i].o PROVE j = i
        <4>1. j \in DOMAIN ns /\ all[j] = ns[j] BY <1>1, <2>1, <3>1, <3>4 DEF Spliced
        <4> QED BY <2>1, <3>2, <3>4, <4>1
      <3> QED BY <2>1, <3>2, <3>3, <3>4
    <2>2. ASSUME NEW k \in DOMAIN more, i = Len(ns) + k, all[i] = more[k]
          PROVE  /\ all[i].o \in mq
                 /\ all[i].left = IF all[i].on = "order" THEN ot[all[i].o].left ELSE 0
                 /\ \A j \in DOMAIN all : IsEnd(all[j]) /\ all[j].o = all[i].o => j = i
      <3>1. /\ all[i].o = o /\ all[i].left = IF all[i].on = "order" THEN ot[o].left ELSE 0
            /\ \A l \in DOMAIN more : IsEnd(more[l]) => l = k
        BY <1>5, <2>2
      <3>2. ASSUME NEW j \in DOMAIN all, IsEnd(all[j]), all[j].o = all[i].o PROVE j = i
        <4>1. j \notin DOMAIN ns \/ all[j] # ns[j] BY <1>4, <3>1, <3>2
        <4>2. PICK l \in DOMAIN more : j = Len(ns) + l /\ all[j] = more[l] BY <1>1, <4>1 DEF Spliced
        <4>3. l = k BY <3>1, <3>2, <4>2
        <4> QED BY <2>2, <4>2, <4>3
      <3> QED BY <3>1, <3>2
    <2> QED BY <1>1, <2>1, <2>2 DEF Spliced
  <1>6. ASSUME NEW i \in DOMAIN all, all[i].on = "insert_rejected" PROVE all[i].final
    <2>1. CASE i \in DOMAIN ns /\ all[i] = ns[i] BY <1>6, <2>1 DEF EndsRight
    <2>2. CASE \E k \in DOMAIN more : all[i] = more[k] BY <1>6, <2>2
    <2> QED BY <1>1, <2>1, <2>2 DEF Spliced
  <1> QED BY <1>2, <1>3, <1>5, <1>6 DEF EndsRight

\* answers to a query
LEMMA EndsQuery ==
  ASSUME NEW ns \in Seq(NoteRecs), NEW more \in Seq(NoteRecs), NEW all, all = ns \o more,
         NEW os, NEW mp, EndsRight(os, mp, ns),
         \A k \in DOMAIN more : more[k].on \in {"qry_order", "qry_trade"}
  PROVE  EndsRight(os, mp, all)
  <1>1. Spliced(all, ns, more) BY SpliceOf
  <1>2. \A k \in DOMAIN more : ~IsEnd(more[k]) /\ more[k].on # "insert_rejected" BY DEF IsEnd
  <1>3. ASSUME NEW i \in DOMAIN os, os[i].stage = "sent", NEW j \in DOMAIN all, all[j].o = i
        PROVE  all[j].on \in {"qry_order", "qry_trade"}
    <2>1. CASE j \in DOMAIN ns /\ all[j] = ns[j] BY <1>3, <2>1 DEF EndsRight
    <2>2. CASE \E k \in DOMAIN more : all[j] = more[k] BY <2>2
    <2> QED BY <1>1, <2>1, <2>2 DEF Spliced
  <1>4. ASSUME NEW i \in DOMAIN os, os[i].stage = "live" PROVE i \in mp /\ ~Ending(all, i)
    <2>1. Ending(all, i) <=> Ending(ns, i) \/ Ending(more, i) BY EndingMore
    <2>2. ~Ending(more, i) BY <1>2 DEF Ending
    <2>3. i \in mp /\ ~Ending(ns, i) BY <1>4 DEF EndsRight
    <2> QED BY <2>1, <2>2, <2>3
  <1>5. \A j \in DOMAIN all : IsEnd(all[j]) \/ all[j].on = "insert_rejected" => j \in DOMAIN ns /\ all[j] = ns[j]
    BY <1>1, <1>2 DEF Spliced
  <1>6. ASSUME NEW i \in DOMAIN all, IsEnd(all[i])
        PROVE  /\ all[i].o \in mp
               /\ all[i].left = IF all[i].on = "order" THEN os[all[i].o].left ELSE 0
               /\ \A j \in DOMAIN all : IsEnd(all[j]) /\ all[j].o = all[i].o => j = i
    <2>1. i \in DOMAIN ns /\ all[i] = ns[i] BY <1>5, <1>6
    <2>2. /\ ns[i].o \in mp
          /\ ns[i].left = IF ns[i].on = "order" THEN os[ns[i].o].left ELSE 0
          /\ \A j \in DOMAIN ns : IsEnd(ns[j]) /\ ns[j].o = ns[i].o => j = i
      BY <1>6, <2>1 DEF EndsRight
    <2> QED BY <1>5, <2>1, <2>2
  <1>7. ASSUME NEW i \in DOMAIN all, all[i].on = "insert_rejected" PROVE all[i].final
    BY <1>5, <1>7 DEF EndsRight
  <1> QED BY <1>3, <1>4, <1>6, <1>7 DEF EndsRight

\* the first note is handled
LEMMA EndsTail ==
  ASSUME NEW ns \in Seq(NoteRecs), ns # <<>>, NEW os, NEW mp, NEW mq,
         mq = IF IsEnd(ns[1]) THEN mp \ {ns[1].o} ELSE mp, EndsRight(os, mp, ns)
  PROVE  EndsRight(os, mq, Tail(ns)) /\ (IsEnd(ns[1]) => ~Ending(Tail(ns), ns[1].o))
  <1> DEFINE t == Tail(ns)
  <1>1. /\ \A i \in DOMAIN t : i + 1 \in DOMAIN ns /\ t[i] = ns[i + 1] /\ i \in Nat /\ i + 1 # 1
        /\ 1 \in DOMAIN ns
    OBVIOUS
  <1>2. \A o : Ending(ns, o) <=> (ns[1].o = o /\ IsEnd(ns[1])) \/ Ending(t, o) BY EndingHead
  <1> HIDE DEF t
  <1>3. ASSUME NEW i \in DOMAIN os, os[i].stage = "sent", NEW j \in DOMAIN t, t[j].o = i
        PROVE  t[j].on \in {"qry_order", "qry_trade"}
    BY <1>1, <1>3 DEF EndsRight
  <1>4. ASSUME NEW i \in DOMAIN os, os[i].stage = "live" PROVE i \in mq /\ ~Ending(t, i)
    <2>1. i \in mp /\ ~Ending(ns, i) BY <1>4 DEF EndsRight
    <2>2. ~(ns[1].o = i /\ IsEnd(ns[1])) /\ ~Ending(t, i) BY <1>2, <2>1
    <2> QED BY <2>1, <2>2
  <1>5. ASSUME NEW i \in DOMAIN t, IsEnd(t[i])
        PROVE  /\ t[i].o \in mp
               /\ t[i].left = IF t[i].on = "order" THEN os[t[i].o].left ELSE 0
               /\ \A j \in DOMAIN ns : IsEnd(ns[j]) /\ ns[j].o = t[i].o => j = i + 1
    <2>1. i + 1 \in DOMAIN ns /\ t[i] = ns[i + 1] BY <1>1
    <2> DEFINE m == i + 1
    <2>2. m \in DOMAIN ns /\ t[i] = ns[m] /\ IsEnd(ns[m]) BY <1>5, <2>1
    <2> HIDE DEF m
    <2>3. /\ ns[m].o \in mp
          /\ ns[m].left = IF ns[m].on = "order" THEN os[ns[m].o].left ELSE 0
          /\ \A j \in DOMAIN ns : IsEnd(ns[j]) /\ ns[j].o = ns[m].o => j = m
      BY <2>2 DEF EndsRight
    <2>4. /\ t[i].o \in mp
          /\ t[i].left = IF t[i].on = "order" THEN os[t[i].o].left ELSE 0
          /\ \A j \in DOMAIN ns : IsEnd(ns[j]) /\ ns[j].o = t[i].o => j = m
      BY <2>2, <2>3
    <2> QED BY <2>4 DEF m
  <1>6. ASSUME NEW i \in DOMAIN t, IsEnd(t[i])
        PROVE  /\ t[i].o \in mq
               /\ \A j \in DOMAIN t : IsEnd(t[j]) /\ t[j].o = t[i].o => j = i
    <2>1. IsEnd(ns[1]) => ns[1].o # t[i].o BY <1>1, <1>5, <1>6
    <2>2. t[i].o \in mq BY <1>5, <1>6, <2>1
    <2>3. ASSUME NEW j \in DOMAIN t, IsEnd(t[j]), t[j].o = t[i].o PROVE j = i
      <3>1. j + 1 \in DOMAIN ns /\ t[j] = ns[j + 1] /\ j \in Nat /\ i \in Nat BY <1>1
      <3>2. j + 1 = i + 1
        <4> DEFINE m == j + 1
        <4>1. m \in DOMAIN ns /\ IsEnd(ns[m]) /\ ns[m].o = t[i].o BY <2>3, <3>1
        <4> HIDE DEF m
        <4>2. m = i + 1 BY <1>5, <1>6, <4>1
        <4> QED BY <4>2 DEF m
      <3> QED BY <3>1, <3>2
    <2> QED BY <2>2, <2>3
  <1>7. ASSUME NEW i \in DOMAIN t, t[i].on = "insert_rejected" PROVE t[i].final
    BY <1>1, <1>7 DEF EndsRight
  <1>8. ASSUME IsEnd(ns[1]), Ending(t, ns[1].o) PROVE FALSE
    <2>1. PICK i \in DOMAIN t : t[i].o = ns[1].o /\ IsEnd(t[i]) BY <1>8 DEF Ending
    <2>2. 1 = i + 1 BY <1>1, <1>5, <1>8, <2>1
    <2> QED BY <1>1, <2>2
  <1>9. EndsRight(os, mq, t) BY <1>3, <1>4, <1>5, <1>6, <1>7 DEF EndsRight
  <1> QED BY <1>8, <1>9 DEF t

LEMMA AnnouncedMore ==
  ASSUME NEW ns \in Seq(NoteRecs), NEW more \in Seq(NoteRecs), NEW all, all = ns \o more,
         NEW mp, NEW mq, NEW known, Announced(mp, ns, known),
         \A i \in DOMAIN ns : ns[i].on = "trade" /\ ns[i].o \in mq => ns[i].o \in mp,
         TradesAfter(more)
  PROVE  Announced(mq, all, known)
  <1>1. Spliced(all, ns, more) BY SpliceOf
  <1>2. SUFFICES ASSUME NEW i \in DOMAIN all, all[i].on = "trade", all[i].o \in mq, all[i].o \notin known
                 PROVE  \E j \in DOMAIN all : j < i /\ all[j].on = "order" /\ all[j].o = all[i].o
    BY DEF Announced
  <1>3. CASE i \in DOMAIN ns /\ all[i] = ns[i]
    <2>1. ns[i].o \in mp BY <1>2, <1>3
    <2>2. PICK j \in DOMAIN ns : j < i /\ ns[j].on = "order" /\ ns[j].o = ns[i].o
      BY <1>2, <1>3, <2>1 DEF Announced
    <2>3. j \in DOMAIN all /\ all[j] = ns[j] BY <1>1 DEF Spliced
    <2> QED BY <1>3, <2>2, <2>3
  <1>4. ASSUME NEW k \in DOMAIN more, i = Len(ns) + k, all[i] = more[k]
        PROVE  \E j \in DOMAIN all : j < i /\ all[j].on = "order" /\ all[j].o = all[i].o
    <2>1. PICK l \in DOMAIN more : l < k /\ more[l].on = "order" /\ more[l].o = more[k].o BY <1>2, <1>4 DEF TradesAfter
    <2> DEFINE j == Len(ns) + l
    <2>2. j \in DOMAIN all /\ all[j] = more[l] /\ l \in Nat /\ k \in Nat /\ Len(ns) \in Nat BY <1>1 DEF Spliced
    <2>3. j < i BY <1>4, <2>1, <2>2
    <2> HIDE DEF j
    <2> QED BY <1>4, <2>1, <2>2, <2>3
  <1> QED BY <1>1, <1>3, <1>4 DEF Spliced

LEMMA AnnouncedTail ==
  ASSUME NEW ns \in Seq(NoteRecs), ns # <<>>, NEW mp, NEW mq, mq \subseteq mp, NEW known, NEW more,
         known \subseteq more, ns[1].on = "order" /\ ns[1].o \in mp => ns[1].o \in more,
         Announced(mp, ns, known)
  PROVE  Announced(mq, Tail(ns), more)
  <1> DEFINE t == Tail(ns)
  <1>1. /\ \A i \in DOMAIN t : i + 1 \in DOMAIN ns /\ t[i] = ns[i + 1] /\ i \in Nat
        /\ \A i \in DOMAIN ns : i # 1 => i - 1 \in DOMAIN t /\ i \in Nat
    OBVIOUS
  <1> HIDE DEF t
  <1>2. SUFFICES ASSUME NEW i \in DOMAIN t, t[i].on = "trade", t[i].o \in mq, t[i].o \notin more
                 PROVE  \E j \in DOMAIN t : j < i /\ t[j].on = "order" /\ t[j].o = t[i].o
    BY DEF Announced, t
  <1> DEFINE m == i + 1
  <1>3. m \in DOMAIN ns /\ t[i] = ns[m] /\ i \in Nat BY <1>1
  <1>4. PICK j \in DOMAIN ns : j < m /\ ns[j].on = "order" /\ ns[j].o = ns[m].o
    <2> HIDE DEF m
    <2> QED BY <1>2, <1>3 DEF Announced
  <1>5. j # 1 BY <1>2, <1>3, <1>4
  <1> DEFINE l == j - 1
  <1>6. l \in DOMAIN t /\ l + 1 = j /\ l < i BY <1>1, <1>3, <1>4, <1>5
  <1> HIDE DEF l, m
  <1>7. t[l] = ns[j] BY <1>1, <1>6
  <1> QED BY <1>3, <1>4, <1>6, <1>7

LEMMA InsertEnd ==
  ASSUME TypeInv, EndInv, NEW in \in Requests, insert_order(in)
  PROVE  EndInv'
  <1> DEFINE r == [in |-> in, left |-> in.volume, fills |-> <<>>, stage |-> "sent"]
             n == Len(orders) + 1
  <1>1. orders \in Seq(OrderRecs) BY DEF TypeInv
  <1>2. orders' = Append(orders, r) /\ r.stage = "sent" BY DEF insert_order
  <1>3. setup' = setup /\ mapped' = mapped /\ notes' = notes BY DEF insert_order
  <1> HIDE DEF r
  <1>4. /\ DOMAIN orders' = DOMAIN orders \cup {n} /\ n \notin DOMAIN orders
        /\ orders'[n] = r /\ \A i \in DOMAIN orders : orders'[i] = orders[i]
    <2>1. Len(orders) \in Nat /\ DOMAIN orders = 1 .. Len(orders) BY <1>1
    <2>2. DOMAIN orders' = 1 .. n BY <1>1, <1>2
    <2>3. orders'[n] = r /\ \A i \in DOMAIN orders : orders'[i] = orders[i] BY <1>1, <1>2
    <2> QED BY <2>1, <2>2, <2>3
  <1> HIDE DEF n
  <1>5. \A i \in DOMAIN notes : notes[i].o \in DOMAIN orders BY DEF TypeInv, NotesInv
  <1>6. SUFFICES ASSUME setup.broker = "ctp"
                 PROVE  EndsRight(orders', mapped, notes) /\ Announced(mapped, notes, book'["strategy"].known)
    BY <1>3 DEF EndInv
  <1>7. EndsRight(orders, mapped, notes) /\ Announced(mapped, notes, book["strategy"].known) BY <1>6 DEF EndInv
  <1>8. EndsRight(orders', mapped, notes)
    <2>1. ASSUME NEW o \in DOMAIN orders', orders'[o].stage = "sent", NEW i \in DOMAIN notes, notes[i].o = o
          PROVE  notes[i].on \in {"qry_order", "qry_trade"}
      <3>1. o \in DOMAIN orders /\ orders'[o] = orders[o] BY <2>1, <1>4, <1>5
      <3> QED BY <2>1, <3>1, <1>7 DEF EndsRight
    <2>2. ASSUME NEW o \in DOMAIN orders', orders'[o].stage = "live" PROVE o \in mapped /\ ~Ending(notes, o)
      <3>1. o \in DOMAIN orders /\ orders'[o] = orders[o] BY <2>2, <1>2, <1>4
      <3> QED BY <2>2, <3>1, <1>7 DEF EndsRight
    <2>3. \A i \in DOMAIN notes : orders'[notes[i].o].left = orders[notes[i].o].left BY <1>4, <1>5
    <2>4. ASSUME NEW i \in DOMAIN notes, IsEnd(notes[i])
          PROVE  /\ notes[i].o \in mapped
                 /\ notes[i].left = IF notes[i].on = "order" THEN orders'[notes[i].o].left ELSE 0
                 /\ \A j \in DOMAIN notes : IsEnd(notes[j]) /\ notes[j].o = notes[i].o => j = i
      BY <2>3, <2>4, <1>7 DEF EndsRight
    <2>5. \A i \in DOMAIN notes : notes[i].on = "insert_rejected" => notes[i].final BY <1>7 DEF EndsRight
    <2> QED BY <2>1, <2>2, <2>4, <2>5 DEF EndsRight
  <1>9. book'["strategy"].known = book["strategy"].known
    <2> DEFINE b == book["strategy"]
               c == book'["strategy"]
               offset == get_offset(b, in)
               d == get_direction(in.side, offset)
    <2>1. "strategy" \in Holders BY DEF Holders
    <2>2. c = apply_order_input(b, in) BY <2>1 DEF insert_order
    <2>3. b \in Books BY <2>1, BookOf
    <2>4. offset = get_offset(b, in) /\ d = get_direction(in.side, offset) OBVIOUS
    <2> HIDE DEF b, c, offset, d
    <2>5. c.known = b.known BY <2>2, <2>3, <2>4, InputEffect
    <2> QED BY <2>5 DEF b, c
  <1> QED BY <1>7, <1>8, <1>9

LEMMA QuoteEnd ==
  ASSUME TypeInv, EndInv, NEW price \in Quotes, Quote(price)
  PROVE  EndInv'
  <1>1. setup' = setup /\ orders' = orders /\ mapped' = mapped /\ notes' = notes BY DEF Quote, broker
  <1>2. book'["strategy"].known = book["strategy"].known
    <2> DEFINE b == book["strategy"]
               c == book'["strategy"]
    <2>1. "strategy" \in Holders BY DEF Holders
    <2>2. c = apply_quote(b, price) \/ c = b BY <2>1 DEF Quote
    <2>3. b \in Books /\ price \in Nat BY <2>1, BookOf, FutureAssumption
    <2> HIDE DEF b, c
    <2>4. CASE c = apply_quote(b, price)
      <3>1. c.known = b.known BY <2>3, <2>4, QuoteEffect
      <3> QED BY <3>1 DEF b, c
    <2>5. CASE c = b BY <2>5 DEF b, c
    <2> QED BY <2>2, <2>4, <2>5
  <1> QED BY <1>1, <1>2 DEF EndInv

\* an order in the broker's hands gets notes
LEMMA MoreEnd ==
  ASSUME TypeInv, EndInv, NEW o \in DOMAIN orders, setup.broker = "ctp", setup' = setup,
         orders[o].stage \in {"sent", "live"},
         NEW left \in Nat, NEW fills \in FillSeqs, NEW stage \in {"live", "done"},
         orders' = Changed(o, left, fills, stage),
         mapped' = (IF orders[o].stage = "sent" THEN mapped \cup {o} ELSE mapped), book' = book,
         NEW more \in Seq(NoteRecs), notes' = notes \o more, Fresh(more, o, left, stage), TradesAfter(more)
  PROVE  EndInv'
  <1>1. EndsRight(orders, mapped, notes) /\ Announced(mapped, notes, book["strategy"].known) BY DEF EndInv
  <1>2. notes \in Seq(NoteRecs) /\ \A i \in DOMAIN notes : notes[i].o \in DOMAIN orders BY DEF TypeInv, NotesInv
  <1>3. ~Ending(notes, o)
    <2>1. CASE orders[o].stage = "live" BY <2>1, <1>1 DEF EndsRight
    <2>2. CASE orders[o].stage = "sent"
      <3>1. \A i \in DOMAIN notes : notes[i].o = o => notes[i].on \in {"qry_order", "qry_trade"}
        BY <2>2, <1>1 DEF EndsRight
      <3> QED BY <3>1 DEF Ending, IsEnd
    <2> QED BY <2>1, <2>2
  <1>4. o \in mapped' /\ mapped \subseteq mapped'
    <2>1. orders[o].stage = "live" => o \in mapped BY <1>1 DEF EndsRight
    <2> QED BY <2>1
  <1>5. SameBeside(orders, orders', o) /\ orders'[o].left = left /\ orders'[o].stage = stage
    <2>1. stage \in {"sent", "live", "done"} OBVIOUS
    <2>2. /\ DOMAIN orders' = DOMAIN orders /\ \A i \in DOMAIN orders \ {o} : orders'[i] = orders[i]
          /\ orders'[o].left = left /\ orders'[o].stage = stage
      BY <2>1, OrderChanged
    <2> QED BY <2>2 DEF SameBeside
  <1> DEFINE ot == orders'
             mq == mapped'
             all == notes'
             known == book["strategy"].known
  <1>8. EndsRight(ot, mq, all)
    <2>1. /\ SameBeside(orders, ot, o) /\ Fresh(more, o, ot[o].left, ot[o].stage) /\ ot[o].stage # "sent"
          /\ o \in mq /\ mapped \subseteq mq /\ all = notes \o more
      BY <1>4, <1>5
    <2> HIDE DEF ot, mq, all
    <2> QED BY <1>1, <1>2, <1>3, <2>1, EndsMore
  <1>9. \A i \in DOMAIN notes : notes[i].on = "trade" /\ notes[i].o \in mapped' => notes[i].o \in mapped
    <2>1. CASE orders[o].stage = "live" BY <2>1
    <2>2. CASE orders[o].stage = "sent"
      <3>1. \A i \in DOMAIN notes : notes[i].o = o => notes[i].on \in {"qry_order", "qry_trade"}
        BY <2>2, <1>1 DEF EndsRight
      <3> QED BY <3>1
    <2> QED BY <2>1, <2>2
  <1>10. Announced(mq, all, known)
    <2>1. all = notes \o more /\ Announced(mapped, notes, known) BY <1>1
    <2>2. \A i \in DOMAIN notes : notes[i].on = "trade" /\ notes[i].o \in mq => notes[i].o \in mapped BY <1>9
    <2> HIDE DEF mq, all, known
    <2> QED BY <1>2, <2>1, <2>2, AnnouncedMore
  <1> QED BY <1>8, <1>10 DEF EndInv

LEMMA FreshOne ==
  ASSUME NEW o, NEW n, n.o = o, n.on \in {"order", "insert_rejected"}, NEW left, NEW stage,
         IsEnd(n) => n.left = (IF n.on = "order" THEN left ELSE 0) /\ stage # "live",
         n.on = "insert_rejected" => n.final
  PROVE  Fresh(<< n >>, o, left, stage) /\ TradesAfter(<< n >>)
  <1> DEFINE more == << n >>
  <1>1. \A k \in DOMAIN more : k = 1 /\ more[k] = n OBVIOUS
  <1> HIDE DEF more
  <1>2. Fresh(more, o, left, stage)
    <2>1. \A k \in DOMAIN more : more[k].o = o BY <1>1
    <2>2. ASSUME NEW k \in DOMAIN more, IsEnd(more[k])
          PROVE  /\ more[k].left = IF more[k].on = "order" THEN left ELSE 0
                 /\ stage # "live"
                 /\ \A l \in DOMAIN more : IsEnd(more[l]) => l = k
      BY <1>1, <2>2
    <2>3. \A k \in DOMAIN more : more[k].on = "insert_rejected" => more[k].final BY <1>1
    <2> QED BY <2>1, <2>2, <2>3 DEF Fresh
  <1>3. TradesAfter(more) BY <1>1 DEF TradesAfter
  <1> QED BY <1>2, <1>3 DEF more

LEMMA OneNoteEnd ==
  ASSUME TypeInv, EndInv, NEW o \in DOMAIN orders, NEW n, NEW stage \in {"live", "done"}, OneNote(o, n, stage),
         setup.broker = "ctp", orders[o].stage \in {"sent", "live"},
         mapped' = (IF orders[o].stage = "sent" THEN mapped \cup {o} ELSE mapped),
         n.on \in {"order", "insert_rejected"}, n.on = "insert_rejected" => n.final,
         IsEnd(n) => n.left = (IF n.on = "order" THEN orders[o].left ELSE 0) /\ stage # "live"
  PROVE  EndInv'
  <1>1. /\ n \in NoteRecs /\ n.o = o /\ orders' = Changed(o, orders[o].left, orders[o].fills, stage)
        /\ notes' = notes \o << n >> /\ setup' = setup /\ book' = book
    BY DEF OneNote, NoteSet
  <1> DEFINE more == << n >>
             left == orders[o].left
             fills == orders[o].fills
  <1>2. left \in Nat /\ fills \in FillSeqs BY OrderType
  <1>3. Fresh(more, o, left, stage) /\ TradesAfter(more) BY <1>1, FreshOne
  <1>4. more \in Seq(NoteRecs) /\ notes' = notes \o more BY <1>1
  <1>5. orders' = Changed(o, left, fills, stage) BY <1>1
  <1> HIDE DEF more, left, fills
  <1> QED BY <1>1, <1>2, <1>3, <1>4, <1>5, MoreEnd

LEMMA CtpNoteEnd ==
  ASSUME TypeInv, EndInv, NEW o \in DOMAIN orders, ctp_insert_order(o) \/ ctp_reject(o) \/ ctp_cancel_order(o)
  PROVE  EndInv'
  <1>1. CASE ctp_insert_order(o)
    <2> DEFINE n == Note("order", o, orders[o].left, FALSE, 0)
    <2>1. OneNote(o, n, "live") BY <1>1, OneNoteUnfold
    <2>2. n.on = "order" /\ ~IsEnd(n) BY DEF Note, IsEnd
    <2>3. /\ setup.broker = "ctp" /\ orders[o].stage = "sent" /\ mapped' = mapped \cup {o}
      BY <1>1 DEF ctp_insert_order, Ctp
    <2> HIDE DEF n
    <2> QED BY <2>1, <2>2, <2>3, OneNoteEnd
  <1>2. CASE ctp_reject(o)
    <2> DEFINE n == Note("insert_rejected", o, 0, TRUE, 0)
    <2>1. OneNote(o, n, "done") BY <1>2, OneNoteUnfold
    <2>2. n.on = "insert_rejected" /\ n.final /\ n.left = 0 BY DEF Note
    <2>3. setup.broker = "ctp" /\ orders[o].stage = "live" /\ mapped' = mapped
      BY <1>2 DEF ctp_reject, Ctp
    <2> HIDE DEF n
    <2> QED BY <2>1, <2>2, <2>3, OneNoteEnd
  <1>3. CASE ctp_cancel_order(o)
    <2> DEFINE n == Note("order", o, orders[o].left, TRUE, 0)
    <2>1. OneNote(o, n, "done") BY <1>3, OneNoteUnfold
    <2>2. n.on = "order" /\ n.left = orders[o].left BY DEF Note
    <2>3. setup.broker = "ctp" /\ orders[o].stage = "live" /\ mapped' = mapped
      BY <1>3 DEF ctp_cancel_order, Ctp
    <2> HIDE DEF n
    <2> QED BY <2>1, <2>2, <2>3, OneNoteEnd
  <1> QED BY <1>1, <1>2, <1>3

LEMMA FillEnd ==
  ASSUME TypeInv, EndInv, NEW o \in DOMAIN orders, ctp_fill(o)
  PROVE  EndInv'
  <1> DEFINE left == orders[o].left - 1
  <1>1. PICK price : FillStep(o, price, left) BY FillUnfold
  <1> DEFINE fills == Append(orders[o].fills, <<1, price>>)
             stage == IF left = 0 THEN "done" ELSE "live"
             end == (left = 0)
             n == Note("order", o, left, end, 0)
             m == Note("trade", o, left, FALSE, price)
             more == << n, m >>
  <1>2. setup.broker = "ctp" /\ orders[o].stage = "live" /\ setup' = setup /\ mapped' = mapped /\ book' = book
    BY DEF ctp_fill, Ctp
  <1>3. left \in Nat /\ price \in Nat
    <2>1. orders[o].left \in Nat /\ orders[o].left >= 1 BY <1>2, OrderType
    <2> QED BY <2>1, <1>1 DEF FillStep
  <1>4. fills \in FillSeqs
    <2>1. 1 \in Nat OBVIOUS
    <2> QED BY <2>1, <1>3, OrderType, TradedAppend
  <1>5. orders' = Changed(o, left, fills, stage) /\ notes' = notes \o more BY <1>1 DEF FillStep
  <1>6. end \in BOOLEAN /\ n = Note("order", o, left, end, 0) /\ m = Note("trade", o, left, FALSE, price) OBVIOUS
  <1>7. stage \in {"live", "done"} /\ (end => left = 0) /\ (left = 0 => stage # "live") OBVIOUS
  <1> HIDE DEF left, fills, stage, end, n, m
  <1>8. /\ n \in NoteRecs /\ n.o = o /\ n.on = "order" /\ n.left = left /\ n.final = end
        /\ m \in NoteRecs /\ m.o = o /\ m.on = "trade"
    <2>1. o \in Nat /\ 0 \in Nat BY OrderType
    <2>2. n \in NoteRecs /\ n.o = o /\ n.on = "order" /\ n.left = left /\ n.final = end
      BY <1>3, <1>6, <2>1 DEF Note, NoteRecs
    <2>3. m \in NoteRecs /\ m.o = o /\ m.on = "trade" BY <1>3, <1>6, <2>1 DEF Note, NoteRecs
    <2> QED BY <2>2, <2>3
  <1>9. more \in Seq(NoteRecs) /\ DOMAIN more = {1, 2} /\ more[1] = n /\ more[2] = m
    <2>1. more \in Seq(NoteRecs) BY <1>8
    <2>2. DOMAIN more = 1 .. 2 /\ more[1] = n /\ more[2] = m OBVIOUS
    <2> QED BY <2>1, <2>2
  <1> HIDE DEF more
  <1>10. ~IsEnd(m) BY <1>8 DEF IsEnd
  <1>11. IsEnd(n) => left = 0 BY <1>7, <1>8 DEF IsEnd
  <1>12. Fresh(more, o, left, stage)
    <2>1. \A k \in DOMAIN more : more[k].o = o BY <1>8, <1>9
    <2>2. ASSUME NEW k \in DOMAIN more, IsEnd(more[k])
          PROVE  /\ more[k].left = IF more[k].on = "order" THEN left ELSE 0
                 /\ stage # "live"
                 /\ \A l \in DOMAIN more : IsEnd(more[l]) => l = k
      <3>1. k = 1 /\ IsEnd(n) BY <1>9, <1>10, <2>2
      <3>2. \A l \in DOMAIN more : IsEnd(more[l]) => l = 1 BY <1>9, <1>10
      <3> QED BY <1>7, <1>8, <1>9, <1>11, <3>1, <3>2
    <2>3. \A k \in DOMAIN more : more[k].on # "insert_rejected" BY <1>8, <1>9
    <2> QED BY <2>1, <2>2, <2>3 DEF Fresh
  <1>13. TradesAfter(more)
    <2> SUFFICES ASSUME NEW k \in DOMAIN more, more[k].on = "trade"
                 PROVE  \E j \in DOMAIN more : j < k /\ more[j].on = "order" /\ more[j].o = more[k].o
      BY DEF TradesAfter
    <2>1. k = 2 BY <1>8, <1>9
    <2>2. 1 \in DOMAIN more /\ 1 < 2 BY <1>9
    <2> QED BY <1>8, <1>9, <2>1, <2>2
  <1> QED BY <1>2, <1>3, <1>4, <1>5, <1>7, <1>9, <1>12, <1>13, MoreEnd

LEMMA ReqEnd ==
  ASSUME TypeInv, EndInv, ctp_req_order_trade
  PROVE  EndInv'
  <1> DEFINE A == OrderAnswers
             B == FlattenSeq(TradeAnswers)
             more == A \o B
             all == notes'
  <1>1. notes' = (notes \o A) \o B BY DEF ctp_req_order_trade, OrderAnswers, TradeAnswers
  <1>2. setup.broker = "ctp" /\ setup' = setup /\ orders' = orders /\ mapped' = mapped /\ book' = book
    BY DEF ctp_req_order_trade
  <1>3. A \in Seq(Answers) /\ B \in Seq(Answers) BY AnswersType
  <1>4. notes \in Seq(NoteRecs) BY DEF TypeInv
  <1> HIDE DEF A, B
  <1>5. Answers \subseteq NoteRecs /\ \A n \in Answers : n.on \in {"qry_order", "qry_trade"} BY DEF Answers
  <1>6. more \in Seq(Answers) BY <1>3, ConcatOf
  <1>7. all = notes \o more
    <2>1. A \in Seq(NoteRecs) /\ B \in Seq(NoteRecs) BY <1>3, <1>5
    <2>2. (notes \o A) \o B = notes \o (A \o B) BY <1>4, <2>1, ConcatAssoc
    <2> QED BY <1>1, <2>2
  <1> HIDE DEF more, all
  <1>8. more \in Seq(NoteRecs) BY <1>5, <1>6
  <1>9. \A k \in DOMAIN more : more[k].on \in {"qry_order", "qry_trade"}
    <2>1. \A k \in DOMAIN more : more[k] \in Answers BY <1>6
    <2> QED BY <1>5, <2>1
  <1>10. EndsRight(orders, mapped, notes) /\ Announced(mapped, notes, book["strategy"].known) BY <1>2 DEF EndInv
  <1>11. EndsRight(orders, mapped, all) BY <1>4, <1>7, <1>8, <1>9, <1>10, EndsQuery
  <1>12. TradesAfter(more) BY <1>9 DEF TradesAfter
  <1> DEFINE known == book["strategy"].known
  <1>13. Announced(mapped, notes, known) BY <1>10
  <1> HIDE DEF known
  <1>14. Announced(mapped, all, known) BY <1>4, <1>7, <1>8, <1>12, <1>13, AnnouncedMore
  <1> QED BY <1>2, <1>11, <1>14 DEF EndInv, all, known

\* no more of yesterday is frozen than there is
Aged(b) == \A d \in Directions : b.pos[d].frozen_yesterday <= b.pos[d].yesterday_volume

LEMMA OrderKnown ==
  ASSUME NEW b \in Books, NEW id \in Int, NEW in \in Requests, NEW left \in Nat, NEW final \in BOOLEAN,
         NEW c, c = Apply(b, OrderFrame(id, in, left, final))
  PROVE  c.known = b.known \cup {id} /\ c \in Books /\ (Aged(b) => Aged(c))
  <1> DEFINE offset == get_offset(b, in)
             d == get_direction(in.side, offset)
  <1>1. offset = get_offset(b, in) /\ d = get_direction(in.side, offset) OBVIOUS
  <1>2. c = apply_order(b, id, in, left, final) BY ApplyOrder
  <1>3. d \in Directions BY DirectionType
  <1> HIDE DEF offset, d
  <1>4. /\ c \in Books /\ c.known = b.known \cup {id} /\ SameVolume(c, b)
        /\ ~final => c.pos = b.pos
        /\ final /\ offset = "Open" => c.pos = b.pos
        /\ final /\ offset # "Open" => /\ SameElse(c, b, d)
                                       /\ c.pos[d].frozen_yesterday <= b.pos[d].frozen_yesterday
    BY <1>1, <1>2, OrderEffect
  <1>5. ASSUME Aged(b), NEW e \in Directions PROVE c.pos[e].frozen_yesterday <= c.pos[e].yesterday_volume
    <2>1. c.pos[e].yesterday_volume = b.pos[e].yesterday_volume BY <1>4 DEF SameVolume
    <2>2. b.pos[e].frozen_yesterday <= b.pos[e].yesterday_volume BY <1>5 DEF Aged
    <2>3. b.pos[e].frozen_yesterday \in Nat /\ b.pos[e].yesterday_volume \in Nat /\ c.pos[e].frozen_yesterday \in Nat
      BY <1>4, BookType
    <2>4. CASE c.pos = b.pos BY <2>4, <2>2
    <2>5. CASE e # d /\ SameElse(c, b, d)
      <3>1. c.pos[e] = b.pos[e] BY <2>5 DEF SameElse
      <3> QED BY <3>1, <2>2
    <2>6. CASE e = d /\ c.pos[d].frozen_yesterday <= b.pos[d].frozen_yesterday BY <2>1, <2>2, <2>3, <2>6
    <2> QED BY <1>4, <2>4, <2>5, <2>6
  <1> QED BY <1>4, <1>5 DEF Aged

LEMMA TradeKnown ==
  ASSUME NEW b \in Books, NEW id, NEW in \in Requests, NEW volume \in Nat, NEW price \in Nat,
         NEW c, c = Apply(b, TradeFrame(id, in, volume, price))
  PROVE  c.known = b.known /\ c \in Books /\ (Aged(b) => Aged(c))
  <1> DEFINE offset == get_offset(b, in)
             d == get_direction(in.side, offset)
  <1>1. offset = get_offset(b, in) /\ d = get_direction(in.side, offset) OBVIOUS
  <1>2. c = apply_trade(b, id, in, volume, price) BY ApplyTrade
  <1>3. d \in Directions BY DirectionType
  <1> HIDE DEF offset, d
  <1>4. /\ c \in Books /\ c.known = b.known /\ SameElse(c, b, d)
        /\ offset = "Open" => /\ SameFrozen(c, b)
                              /\ c.pos[d].yesterday_volume = b.pos[d].yesterday_volume
        /\ offset # "Open" =>
              /\ in.offset = "CloseToday" => /\ c.pos[d].yesterday_volume = b.pos[d].yesterday_volume
                                            /\ c.pos[d].frozen_yesterday = b.pos[d].frozen_yesterday
              /\ in.offset # "CloseToday" =>
                     /\ c.pos[d].yesterday_volume = Older(b.pos[d].yesterday_volume, volume)
                     /\ c.pos[d].frozen_yesterday = Older(b.pos[d].frozen_yesterday, volume)
    BY <1>1, <1>2, TradeEffect
  <1>5. ASSUME Aged(b), NEW e \in Directions PROVE c.pos[e].frozen_yesterday <= c.pos[e].yesterday_volume
    <2> DEFINE f == b.pos[e].frozen_yesterday
               y == b.pos[e].yesterday_volume
    <2>1. f <= y /\ f \in Nat /\ y \in Nat BY <1>5, BookType DEF Aged
    <2>2. CASE e # d
      <3>1. c.pos[e] = b.pos[e] BY <2>2, <1>4 DEF SameElse
      <3> QED BY <3>1, <2>1
    <2>3. CASE e = d /\ offset = "Open"
      <3>1. c.pos[e].frozen_yesterday = f /\ c.pos[e].yesterday_volume = y BY <2>3, <1>3, <1>4 DEF SameFrozen
      <3> QED BY <3>1, <2>1
    <2>4. CASE e = d /\ offset # "Open" /\ in.offset = "CloseToday"
      <3>1. c.pos[e].frozen_yesterday = f /\ c.pos[e].yesterday_volume = y BY <2>4, <1>4
      <3> QED BY <3>1, <2>1
    <2>5. CASE e = d /\ offset # "Open" /\ in.offset # "CloseToday"
      <3>1. c.pos[e].frozen_yesterday = Older(f, volume) /\ c.pos[e].yesterday_volume = Older(y, volume)
        BY <2>5, <1>4
      <3> HIDE DEF f, y
      <3>2. f \in Int /\ y \in Int /\ volume \in Int BY <2>1
      <3>3. /\ Older(f, volume) = IF f >= volume THEN f - volume ELSE 0
            /\ Older(y, volume) = IF y >= volume THEN y - volume ELSE 0
        BY <3>2, OlderValue
      <3>4. Older(f, volume) <= Older(y, volume) BY <3>2, <3>3, <2>1
      <3> QED BY <3>1, <3>4
    <2> QED BY <2>2, <2>3, <2>4, <2>5
  <1> QED BY <1>4, <1>5 DEF Aged

LEMMA RefusedEnd ==
  ASSUME TypeInv, EndInv, NEW o \in DOMAIN orders, ctp_insert_refused(o)
  PROVE  EndInv' /\ ~Ending(notes, o)
  <1> DEFINE frame == OrderFrame(o, orders[o].in, orders[o].left, TRUE)
  <1>1. /\ setup.broker = "ctp" /\ setup' = setup /\ mapped' = mapped /\ notes' = notes /\ orders[o].stage = "sent"
        /\ orders' = [orders EXCEPT ![o].stage = "done"] /\ book' = write_both(book, frame, TRUE)
    BY DEF ctp_insert_refused, Ctp
  <1>2. EndsRight(orders, mapped, notes) /\ Announced(mapped, notes, book["strategy"].known) BY <1>1 DEF EndInv
  <1>3. /\ DOMAIN orders' = DOMAIN orders /\ orders'[o].stage = "done"
        /\ \A i \in DOMAIN orders \ {o} : orders'[i] = orders[i]
        /\ \A i \in DOMAIN orders : orders'[i].left = orders[i].left
    <2>1. orders' = Changed(o, orders[o].left, orders[o].fills, "done") BY <1>1, OrderType, ChangedIs
    <2>2. /\ DOMAIN orders' = DOMAIN orders /\ orders'[o].stage = "done" /\ orders'[o].left = orders[o].left
          /\ \A i \in DOMAIN orders \ {o} : orders'[i] = orders[i]
      BY <2>1, OrderType, OrderChanged
    <2> QED BY <2>2
  <1>4. ~Ending(notes, o) BY <1>1, <1>2 DEF EndsRight, Ending, IsEnd
  <1>5. EndsRight(orders', mapped, notes)
    <2>1. ASSUME NEW i \in DOMAIN orders', orders'[i].stage = "sent", NEW j \in DOMAIN notes, notes[j].o = i
          PROVE  notes[j].on \in {"qry_order", "qry_trade"}
      <3>1. i \in DOMAIN orders /\ orders'[i] = orders[i] BY <2>1, <1>3
      <3> QED BY <2>1, <3>1, <1>2 DEF EndsRight
    <2>2. ASSUME NEW i \in DOMAIN orders', orders'[i].stage = "live" PROVE i \in mapped /\ ~Ending(notes, i)
      <3>1. i \in DOMAIN orders /\ orders'[i] = orders[i] BY <2>2, <1>3
      <3> QED BY <2>2, <3>1, <1>2 DEF EndsRight
    <2>3. \A i \in DOMAIN notes : orders'[notes[i].o].left = orders[notes[i].o].left BY <1>3 DEF TypeInv, NotesInv
    <2>4. ASSUME NEW i \in DOMAIN notes, IsEnd(notes[i])
          PROVE  /\ notes[i].o \in mapped
                 /\ notes[i].left = IF notes[i].on = "order" THEN orders'[notes[i].o].left ELSE 0
                 /\ \A j \in DOMAIN notes : IsEnd(notes[j]) /\ notes[j].o = notes[i].o => j = i
      BY <2>3, <2>4, <1>2 DEF EndsRight
    <2>5. \A i \in DOMAIN notes : notes[i].on = "insert_rejected" => notes[i].final BY <1>2 DEF EndsRight
    <2> QED BY <2>1, <2>2, <2>4, <2>5 DEF EndsRight
  <1>6. book["strategy"].known \subseteq book'["strategy"].known
    <2> DEFINE b == book["strategy"]
               c == book'["strategy"]
               in == orders[o].in
               left == orders[o].left
               final == TRUE
    <2>1. Sound(frame) BY OrderType, SoundOrder
    <2>2. book \in BookSets /\ TRUE \in BOOLEAN BY DEF TypeInv
    <2>3. c = Apply(b, OrderFrame(o, in, left, final)) BY <1>1, <2>1, <2>2, WriteBothSound
    <2>4. b \in Books /\ in \in Requests /\ left \in Nat /\ o \in Int
      <3>1. "strategy" \in Holders BY DEF Holders
      <3> QED BY <3>1, BookOf, OrderType
    <2>6. final \in BOOLEAN OBVIOUS
    <2> HIDE DEF b, c, in, left, final
    <2>5. c.known = b.known \cup {o} BY <2>3, <2>4, <2>6, OrderKnown
    <2> QED BY <2>5 DEF b, c
  <1>7. Announced(mapped, notes, book'["strategy"].known) BY <1>2, <1>6 DEF Announced
  <1> QED BY <1>1, <1>4, <1>5, <1>7 DEF EndInv

\* what a handled notification does to the book of the strategy
LEMMA HandleTold ==
  ASSUME TypeInv, ctp_handle, NEW note, note = notes[1]
  PROVE  book'["strategy"] = IF note.o \in mapped THEN Apply(book["strategy"], ReportFrame(note))
                             ELSE book["strategy"]
  <1> DEFINE frame == ReportFrame(note)
             source == (note.o \in mapped)
  <1>1. /\ note.on = "insert_rejected" /\ note.o \notin mapped => book' = book
        /\ ~(note.on = "insert_rejected" /\ note.o \notin mapped) => book' = write_both(book, frame, source)
        /\ Sound(frame)
    BY HandleUnfold
  <1>2. book \in BookSets /\ source \in BOOLEAN BY DEF TypeInv
  <1> HIDE DEF frame
  <1>3. CASE note.on = "insert_rejected" /\ note.o \notin mapped BY <1>3, <1>1
  <1>4. CASE ~(note.on = "insert_rejected" /\ note.o \notin mapped)
    <2> HIDE DEF source
    <2>1. book' = write_both(book, frame, source) BY <1>4, <1>1
    <2>2. book'["strategy"] = IF source THEN Apply(book["strategy"], frame) ELSE book["strategy"]
      BY <1>1, <1>2, <2>1, WriteBothSound
    <2> QED BY <2>2 DEF source, frame
  <1> QED BY <1>3, <1>4

LEMMA HandleEnd ==
  ASSUME TypeInv, EndInv, ctp_handle
  PROVE  EndInv'
  <1> DEFINE note == notes[1]
             b == book["strategy"]
             c == book'["strategy"]
             frame == ReportFrame(note)
             id == resolve_order_id(note.o)
             in == orders[note.o].in
  <1>1. /\ notes # <<>> /\ notes' = Tail(notes) /\ setup.broker = "ctp" /\ setup' = setup /\ orders' = orders
        /\ note \in NoteRecs /\ note.o \in DOMAIN orders /\ mapped' = Erased(note)
        /\ note.on \in {"trade", "qry_trade"} => frame = TradeFrame(id, in, 1, note.price)
        /\ note.on \notin {"trade", "qry_trade"} => frame = OrderFrame(id, in, note.left, note.final)
    BY HandleUnfold
  <1>2. c = IF note.o \in mapped THEN Apply(b, frame) ELSE b BY HandleTold
  <1>3. b \in Books
    <2>1. "strategy" \in Holders BY DEF Holders
    <2> QED BY <2>1, BookOf
  <1>4. /\ in \in Requests /\ note.left \in Nat /\ note.final \in BOOLEAN /\ note.price \in Nat /\ 1 \in Nat
        /\ id \in Int /\ (note.o \in mapped => id = note.o)
    <2>1. note.o \in Int /\ in \in Requests BY <1>1, OrderType
    <2>2. note.left \in Nat /\ note.final \in BOOLEAN /\ note.price \in Nat BY <1>1 DEF NoteRecs
    <2> HIDE DEF note, in
    <2> QED BY <2>1, <2>2 DEF resolve_order_id
  <1>5. note = notes[1] OBVIOUS
  <1>6. notes \in Seq(NoteRecs) BY DEF TypeInv
  <1>7. EndsRight(orders, mapped, notes) /\ Announced(mapped, notes, b.known) BY <1>1 DEF EndInv
  <1>8. mapped' = IF IsEnd(note) THEN mapped \ {note.o} ELSE mapped BY <1>1 DEF Erased, IsEnd
  <1> HIDE DEF note, b, c, frame, id, in
  <1>9. b.known \subseteq c.known /\ (note.on = "order" /\ note.o \in mapped => note.o \in c.known)
    <2>1. CASE note.o \notin mapped BY <2>1, <1>2
    <2>2. CASE note.o \in mapped /\ note.on \in {"trade", "qry_trade"}
      <3>1. c = Apply(b, TradeFrame(id, in, 1, note.price)) BY <2>2, <1>1, <1>2
      <3> DEFINE price == note.price
      <3>2. price \in Nat BY <1>4
      <3> HIDE DEF price
      <3>3. c = Apply(b, TradeFrame(id, in, 1, price)) BY <3>1 DEF price
      <3>4. c.known = b.known BY <1>3, <1>4, <3>2, <3>3, TradeKnown
      <3> QED BY <2>2, <3>4
    <2>3. CASE note.o \in mapped /\ note.on \notin {"trade", "qry_trade"}
      <3> DEFINE left == note.left
                 final == note.final
      <3>1. c = Apply(b, OrderFrame(id, in, left, final)) /\ left \in Nat /\ final \in BOOLEAN BY <2>3, <1>1, <1>2, <1>4
      <3> HIDE DEF left, final
      <3>2. c.known = b.known \cup {id} BY <1>3, <1>4, <3>1, OrderKnown, SMTT(30)
      <3> QED BY <2>3, <1>4, <3>2
    <2> QED BY <2>1, <2>2, <2>3
  <1>10. EndsRight(orders, mapped', notes')
    <2> DEFINE mq == mapped'
    <2>1. mq = IF IsEnd(notes[1]) THEN mapped \ {notes[1].o} ELSE mapped BY <1>5, <1>8
    <2> HIDE DEF mq
    <2>2. EndsRight(orders, mq, Tail(notes)) BY <1>1, <1>6, <1>7, <2>1, EndsTail
    <2> QED BY <2>2, <1>1 DEF mq
  <1>11. Announced(mapped', notes', c.known)
    <2> DEFINE mq == mapped'
               known == b.known
               more == c.known
    <2>1. mq \subseteq mapped BY <1>8
    <2>2. /\ known \subseteq more /\ Announced(mapped, notes, known)
          /\ notes[1].on = "order" /\ notes[1].o \in mapped => notes[1].o \in more
      BY <1>5, <1>7, <1>9
    <2> HIDE DEF mq, known, more
    <2>3. Announced(mq, Tail(notes), more) BY <1>1, <1>6, <2>1, <2>2, AnnouncedTail
    <2> QED BY <2>3, <1>1 DEF mq, more
  <1> QED BY <1>1, <1>10, <1>11 DEF EndInv, c

LEMMA NextEnd == TypeInv /\ EndInv /\ [Next]_vars => EndInv'
  <1> SUFFICES ASSUME TypeInv, EndInv, [Next]_vars PROVE EndInv' OBVIOUS
  <1>1. ASSUME NEW in \in Requests, insert_order(in) PROVE EndInv' BY <1>1, InsertEnd
  <1>2. ASSUME NEW price \in Quotes, Quote(price) PROVE EndInv' BY <1>2, QuoteEnd
  <1>3. ASSUME NEW o \in DOMAIN orders, sim_insert_order(o) \/ sim_cancel_order(o) PROVE EndInv'
    <2>1. CASE sim_insert_order(o)
      <3>1. setup.broker = "sim" /\ setup' = setup BY <2>1, Zenon DEF sim_insert_order
      <3> QED BY <3>1 DEF EndInv
    <2>2. CASE sim_cancel_order(o)
      <3>1. setup.broker = "sim" /\ setup' = setup BY <2>2, Zenon DEF sim_cancel_order
      <3> QED BY <3>1 DEF EndInv
    <2> QED BY <1>3, <2>1, <2>2
  <1>4. ASSUME NEW o \in DOMAIN orders, ctp_insert_refused(o) PROVE EndInv' BY <1>4, RefusedEnd
  <1>5. ASSUME NEW o \in DOMAIN orders, ctp_insert_order(o) \/ ctp_reject(o) \/ ctp_cancel_order(o) PROVE EndInv'
    BY <1>5, CtpNoteEnd
  <1>6. ASSUME NEW o \in DOMAIN orders, ctp_fill(o) PROVE EndInv' BY <1>6, FillEnd
  <1>7. CASE ctp_req_order_trade BY <1>7, ReqEnd
  <1>8. CASE ctp_handle BY <1>8, HandleEnd
  <1>9. CASE UNCHANGED vars BY <1>9 DEF vars, broker, EndInv
  <1> QED BY <1>1, <1>2, <1>3, <1>4, <1>5, <1>6, <1>7, <1>8, <1>9 DEF Next

LEMMA InitEnd == Init => EndInv
  <1> SUFFICES ASSUME Init PROVE EndInv OBVIOUS
  <1>1. orders = <<>> /\ notes = <<>> BY DEF Init
  <1>2. DOMAIN orders = {} /\ DOMAIN notes = {} BY <1>1
  <1> QED BY <1>2 DEF EndInv, EndsRight, Announced

\* with the simulated broker both books are told the same
Twin == setup.broker = "sim" => book["account"] = book["strategy"]

\* on an exchange that does not merge, an order is booked as it was asked
Unmerged == ~setup.merge => \A o \in DOMAIN orders : booked[o] = (orders[o].in.offset = "Open")

BooksInv == /\ Twin /\ Unmerged
            /\ \A h \in Holders : Aged(book[h])

\* both books get a frame
LEMMA UpdateTwin ==
  ASSUME NEW books \in BookSets, NEW frame, Sound(frame), NEW told, told = update_book(books, frame, "strategy"),
         books["account"] = books["strategy"]
  PROVE  told["account"] = told["strategy"] /\ told \in BookSets
  <1>1. \A h \in Holders : told[h] = Apply(books[h], frame) BY UpdateSound
  <1>2. told \in BookSets BY UpdateSound
  <1>3. "account" \in Holders /\ "strategy" \in Holders BY DEF Holders
  <1> QED BY <1>1, <1>2, <1>3

\* frames that keep the books aged
Ages(frame) == \A b \in Books : Aged(b) => Aged(Apply(b, frame))

LEMMA AgesOrder ==
  ASSUME NEW id \in Int, NEW in \in Requests, NEW left \in Nat, NEW final \in BOOLEAN
  PROVE  Ages(OrderFrame(id, in, left, final))
  <1> SUFFICES ASSUME NEW b \in Books, Aged(b) PROVE Aged(Apply(b, OrderFrame(id, in, left, final))) BY DEF Ages
  <1> DEFINE c == Apply(b, OrderFrame(id, in, left, final))
  <1>1. c = Apply(b, OrderFrame(id, in, left, final)) OBVIOUS
  <1> HIDE DEF c
  <1>2. Aged(c) BY <1>1, OrderKnown
  <1> QED BY <1>2 DEF c

LEMMA AgesTrade ==
  ASSUME NEW id \in Int, NEW in \in Requests, NEW volume \in Nat, NEW price \in Nat
  PROVE  Ages(TradeFrame(id, in, volume, price))
  <1> SUFFICES ASSUME NEW b \in Books, Aged(b) PROVE Aged(Apply(b, TradeFrame(id, in, volume, price))) BY DEF Ages
  <1> DEFINE c == Apply(b, TradeFrame(id, in, volume, price))
  <1>1. c = Apply(b, TradeFrame(id, in, volume, price)) OBVIOUS
  <1> HIDE DEF c
  <1>2. Aged(c) BY <1>1, TradeKnown
  <1> QED BY <1>2 DEF c

LEMMA UpdateAged ==
  ASSUME NEW books \in BookSets, NEW frame, Sound(frame), Ages(frame), NEW dest,
         NEW told, told = update_book(books, frame, dest), \A h \in Holders : Aged(books[h])
  PROVE  told \in BookSets /\ \A h \in Holders : Aged(told[h])
  <1>1. told \in BookSets BY UpdateSound
  <1>2. ASSUME NEW h \in Holders PROVE Aged(told[h])
    <2>1. told[h] = IF h = "account" \/ dest = "strategy" THEN Apply(books[h], frame) ELSE books[h] BY UpdateSound
    <2>2. books[h] \in Books /\ Aged(books[h]) BY DEF BookSets
    <2>3. Aged(Apply(books[h], frame)) BY <2>2 DEF Ages
    <2> QED BY <2>1, <2>2, <2>3
  <1> QED BY <1>1, <1>2

LEMMA WriteAged ==
  ASSUME NEW books \in BookSets, NEW frame, Sound(frame), Ages(frame), NEW source \in BOOLEAN,
         NEW told, told = write_both(books, frame, source), \A h \in Holders : Aged(books[h])
  PROVE  \A h \in Holders : Aged(told[h])
  <1> DEFINE first == IF source THEN update_book(books, frame, "strategy") ELSE books
             dest == "public"
  <1>1. first \in BookSets /\ \A h \in Holders : Aged(first[h])
    <2>1. CASE source
      <3> DEFINE to == "strategy"
                 one == update_book(books, frame, to)
      <3>1. one = update_book(books, frame, to) OBVIOUS
      <3>2. first = one BY <2>1
      <3> HIDE DEF one, to, first
      <3>3. one \in BookSets /\ \A h \in Holders : Aged(one[h]) BY <3>1, UpdateAged
      <3> QED BY <3>2, <3>3
    <2>2. CASE ~source BY <2>2
    <2> QED BY <2>1, <2>2
  <1>2. told = update_book(first, frame, dest) BY DEF write_both
  <1> HIDE DEF first, dest
  <1> QED BY <1>1, <1>2, UpdateAged

\* an order's request, and how it was booked, never change
LEMMA RequestsKept ==
  ASSUME TypeInv, [Next]_vars, ~(\E in \in Requests : insert_order(in))
  PROVE  /\ setup' = setup /\ booked' = booked /\ DOMAIN orders' = DOMAIN orders
         /\ \A i \in DOMAIN orders : orders'[i].in = orders[i].in
         /\ odd \subseteq odd'
  <1> DEFINE Kept == /\ setup' = setup /\ booked' = booked /\ DOMAIN orders' = DOMAIN orders
                     /\ \A i \in DOMAIN orders : orders'[i].in = orders[i].in
                     /\ odd \subseteq odd'
  <1> SUFFICES Kept OBVIOUS
  <1>a. ASSUME NEW o \in DOMAIN orders, NEW left \in Nat, NEW fills \in FillSeqs,
               NEW stage \in {"sent", "live", "done"}, orders' = Changed(o, left, fills, stage),
               setup' = setup, booked' = booked, odd \subseteq odd'
        PROVE  Kept
    <2> DEFINE ot == orders'
    <2>1. ot = Changed(o, left, fills, stage) BY <1>a
    <2> HIDE DEF ot
    <2>2. DOMAIN ot = DOMAIN orders /\ \A i \in DOMAIN orders : ot[i].in = orders[i].in BY <2>1, ChangedKeeps
    <2> QED BY <1>a, <2>2 DEF ot
  <1>b. ASSUME orders' = orders, setup' = setup, booked' = booked, odd \subseteq odd' PROVE Kept BY <1>b
  <1> HIDE DEF Kept
  <1>1. ASSUME NEW price \in Quotes, Quote(price) PROVE Kept BY <1>1, <1>b DEF Quote, broker
  <1>2. ASSUME NEW o \in DOMAIN orders, sim_insert_order(o) PROVE Kept
    <2>1. PICK match : \E g : SimStep(o, match, g) BY <1>2, SimUnfold
    <2>2. PICK g : SimStep(o, match, g) BY <2>1
    <2> DEFINE left == orders[o].in.volume - Traded(match.fills)
               fills == match.fills
               stage == IF match.final THEN "done" ELSE "live"
    <2>3. match \in Matches(orders[o].in) BY <2>2 DEF SimStep
    <2>4. /\ fills \in FillSeqs /\ Traded(fills) \in 0 .. orders[o].in.volume /\ orders[o].in.volume \in Nat
      BY <2>3, OrderType, MatchType, RequestType
    <2>5. left \in Nat /\ stage \in {"sent", "live", "done"} BY <2>4
    <2>6. orders' = SetOrder(o, left, fills, stage) BY <2>2 DEF SimStep, SetOrder
    <2>7. setup' = setup /\ booked' = booked BY <1>2 DEF sim_insert_order
    <2>8. odd \subseteq odd' BY <2>2 DEF SimStep
    <2> HIDE DEF left, fills, stage
    <2>9. orders' = Changed(o, left, fills, stage) BY <2>4, <2>5, <2>6, SetIs
    <2> QED BY <2>4, <2>5, <2>7, <2>8, <2>9, <1>a
  <1>3. ASSUME NEW o \in DOMAIN orders, sim_cancel_order(o) PROVE Kept
    <2>1. setup' = setup /\ booked' = booked /\ odd \subseteq odd' BY <1>3 DEF sim_cancel_order
    <2>2. orders' = orders \/ orders' = [orders EXCEPT ![o].stage = "done"] BY <1>3 DEF sim_cancel_order
    <2>3. CASE orders' = [orders EXCEPT ![o].stage = "done"]
      <3>1. orders' = Changed(o, orders[o].left, orders[o].fills, "done") BY <2>3, OrderType, ChangedIs
      <3>2. orders[o].left \in Nat /\ orders[o].fills \in FillSeqs /\ "done" \in {"sent", "live", "done"} BY OrderType
      <3> QED BY <3>1, <3>2, <2>1, <1>a
    <2> QED BY <2>1, <2>2, <2>3, <1>b
  <1>4. ASSUME NEW o \in DOMAIN orders, ctp_insert_refused(o) PROVE Kept
    <2>1. setup' = setup /\ booked' = booked /\ odd \subseteq odd' BY <1>4 DEF ctp_insert_refused
    <2>2. orders' = [orders EXCEPT ![o].stage = "done"] BY <1>4 DEF ctp_insert_refused
    <2>3. orders' = Changed(o, orders[o].left, orders[o].fills, "done") BY <2>2, OrderType, ChangedIs
    <2>4. orders[o].left \in Nat /\ orders[o].fills \in FillSeqs /\ "done" \in {"sent", "live", "done"} BY OrderType
    <2> QED BY <2>1, <2>3, <2>4, <1>a
  <1>5. ASSUME NEW o \in DOMAIN orders, ctp_insert_order(o) \/ ctp_reject(o) \/ ctp_cancel_order(o) PROVE Kept
    <2>1. PICK n : \E stage \in {"sent", "live", "done"} : OneNote(o, n, stage)
      <3>1. "live" \in {"sent", "live", "done"} /\ "done" \in {"sent", "live", "done"} OBVIOUS
      <3> QED BY <1>5, <3>1, OneNoteUnfold
    <2>2. PICK stage \in {"sent", "live", "done"} : OneNote(o, n, stage) BY <2>1
    <2>3. orders[o].left \in Nat /\ orders[o].fills \in FillSeqs BY OrderType
    <2>4. /\ orders' = Changed(o, orders[o].left, orders[o].fills, stage)
          /\ setup' = setup /\ odd' = odd /\ booked' = booked
      BY <2>2 DEF OneNote
    <2> QED BY <2>3, <2>4, <1>a
  <1>6. ASSUME NEW o \in DOMAIN orders, ctp_fill(o) PROVE Kept
    <2> DEFINE left == orders[o].left - 1
    <2>1. PICK price : FillStep(o, price, left) BY <1>6, FillUnfold
    <2> DEFINE fills == Append(orders[o].fills, <<1, price>>)
               stage == IF left = 0 THEN "done" ELSE "live"
    <2>2. setup' = setup /\ booked' = booked /\ odd' = odd BY <1>6 DEF ctp_fill
    <2>3. price \in Nat /\ orders' = Changed(o, left, fills, stage) BY <2>1 DEF FillStep
    <2>4. orders[o].left \in Nat /\ orders[o].left >= 1
      <3>1. setup.broker = "ctp" /\ orders[o].stage = "live" BY <1>6 DEF ctp_fill, Ctp
      <3> QED BY <3>1, OrderType
    <2>5. left \in Nat BY <2>4
    <2>6. fills \in FillSeqs BY <2>3, OrderType, TradedAppend
    <2>7. stage \in {"sent", "live", "done"} OBVIOUS
    <2> HIDE DEF left, fills, stage
    <2> QED BY <2>2, <2>3, <2>5, <2>6, <2>7, <1>a
  <1>7. CASE ctp_req_order_trade BY <1>7, <1>b DEF ctp_req_order_trade
  <1>8. CASE ctp_handle BY <1>8, <1>b DEF ctp_handle
  <1>9. CASE UNCHANGED vars BY <1>9, <1>b DEF vars, broker
  <1> QED BY <1>1, <1>2, <1>3, <1>4, <1>5, <1>6, <1>7, <1>8, <1>9 DEF Next

\* the matching of the simulated broker leaves the books twins, and aged
LEMMA SimBooksKept ==
  ASSUME TypeInv, NEW o \in DOMAIN orders, NEW match \in Matches(orders[o].in), NEW g, SimBooks(o, match, g),
         book["account"] = book["strategy"], \A h \in Holders : Aged(book[h])
  PROVE  \A k \in 0 .. Len(match.fills) :
            g[k]["account"] = g[k]["strategy"] /\ \A h \in Holders : Aged(g[k][h])
  <1> DEFINE in == orders[o].in
             fills == match.fills
             n == Len(fills)
             left == in.volume - Traded(fills)
             final == match.final
             Kept(books) == books["account"] = books["strategy"] /\ \A h \in Holders : Aged(books[h])
             first == OrderFrame(o, in, left, final)
             next(k) == TradeFrame(o, in, fills[k][1], fills[k][2])
             to == "strategy"
  <1>1. /\ in \in Requests /\ o \in Int /\ fills \in FillSeqs /\ final \in BOOLEAN
        /\ Traded(fills) \in 0 .. in.volume /\ in.volume \in Nat
    BY OrderType, MatchType, RequestType
  <1>2. left \in Nat BY <1>1
  <1>3. n \in Nat BY <1>1 DEF FillSeqs
  <1>4. /\ g \in [0 .. n -> BookSets]
        /\ g[0] = update_book(book, first, to)
        /\ \A k \in 1 .. n : g[k] = update_book(g[k - 1], next(k), to)
    BY DEF SimBooks
  <1>a. ASSUME NEW books \in BookSets, NEW frame, Sound(frame), Ages(frame), NEW told,
               told = update_book(books, frame, to), Kept(books)
        PROVE  Kept(told)
    <2>1. told["account"] = told["strategy"] BY <1>a, UpdateTwin
    <2>2. \A h \in Holders : Aged(told[h]) BY <1>a, UpdateAged
    <2> QED BY <2>1, <2>2
  <1> HIDE DEF in, left, n, final
  <1>5. Kept(g[0])
    <2>1. Sound(first) /\ Ages(first) BY <1>1, <1>2, SoundOrder, AgesOrder
    <2>2. book \in BookSets /\ Kept(book) BY DEF TypeInv
    <2> HIDE DEF first, Kept, to
    <2> QED BY <2>1, <2>2, <1>4, <1>a
  <1> DEFINE D == {k \in 0 .. n : ~Kept(g[k])}
  <1>6. D \in SUBSET Nat BY <1>3
  <1>7. SUFFICES ASSUME D # {} PROVE FALSE BY DEF n
  <1>8. PICK k \in D : \A i \in D : k <= i
    <2> HIDE DEF D
    <2> QED BY <1>6, <1>7, LeastNat
  <1>9. k # 0 BY <1>5
  <1>10. k \in 1 .. n /\ k - 1 \in 0 .. n /\ k - 1 \notin D BY <1>3, <1>8, <1>9
  <1>11. fills[k][1] \in Nat /\ fills[k][2] \in Nat BY <1>1, <1>10, FillVolumesType DEF n
  <1>12. Sound(next(k)) /\ Ages(next(k)) BY <1>1, <1>11, SoundTrade, AgesTrade
  <1>13. g[k - 1] \in BookSets BY <1>4, <1>10
  <1>14. g[k] = update_book(g[k - 1], next(k), to) BY <1>4, <1>10
  <1>15. Kept(g[k - 1]) BY <1>10
  <1>16. k \in D /\ ~Kept(g[k]) BY <1>8
  <1> HIDE DEF Kept, next, to, D
  <1> QED BY <1>12, <1>13, <1>14, <1>15, <1>16, <1>a

LEMMA InsertBooks ==
  ASSUME TypeInv, BooksInv, NEW in \in Requests, insert_order(in)
  PROVE  BooksInv'
  <1> DEFINE first == book["strategy"]
             x == (get_offset(first, in) = "Open")
             ot == orders'
             bt == booked'
  <1>1. /\ setup' = setup /\ booked' = Append(booked, x)
        /\ \A h \in Holders : book'[h] = apply_order_input(book[h], in)
    BY DEF insert_order
  <1>2. "account" \in Holders /\ "strategy" \in Holders BY DEF Holders
  <1>3. Twin' BY <1>1, <1>2 DEF BooksInv, Twin
  <1>4. \A h \in Holders : Aged(book'[h])
    <2> TAKE h \in Holders
    <2> DEFINE b == book[h]
               c == book'[h]
               offset == get_offset(b, in)
               d == get_direction(in.side, offset)
    <2>1. c = apply_order_input(b, in) BY <1>1
    <2>2. offset = get_offset(b, in) /\ d = get_direction(in.side, offset) OBVIOUS
    <2>3. b \in Books /\ Aged(b) BY BookOf DEF BooksInv
    <2> HIDE DEF b, c, offset, d
    <2>4. /\ c \in Books /\ SameVolume(c, b)
          /\ offset = "Open" => c.pos = b.pos
          /\ offset # "Open" => /\ SameElse(c, b, d)
                                /\ b.pos[d].frozen_yesterday <= b.pos[d].yesterday_volume
                                     => c.pos[d].frozen_yesterday <= b.pos[d].yesterday_volume
      BY <2>1, <2>2, <2>3, InputEffect
    <2>5. d \in Directions BY <2>2, DirectionType
    <2>6. ASSUME NEW e \in Directions PROVE c.pos[e].frozen_yesterday <= c.pos[e].yesterday_volume
      <3>1. c.pos[e].yesterday_volume = b.pos[e].yesterday_volume BY <2>4 DEF SameVolume
      <3>2. b.pos[e].frozen_yesterday <= b.pos[e].yesterday_volume BY <2>3 DEF Aged
      <3>3. CASE offset = "Open" \/ e # d
        <4>1. c.pos[e] = b.pos[e] BY <3>3, <2>4 DEF SameElse
        <4> QED BY <4>1, <3>2
      <3>4. CASE offset # "Open" /\ e = d BY <3>4, <3>1, <3>2, <2>4
      <3> QED BY <3>3, <3>4
    <2>7. Aged(c) BY <2>6 DEF Aged
    <2> QED BY <2>7 DEF c
  <1>5. Unmerged'
    <2> SUFFICES ASSUME ~setup'.merge, NEW o \in DOMAIN ot PROVE bt[o] = (ot[o].in.offset = "Open")
      BY DEF Unmerged
    <2> DEFINE r == [in |-> in, left |-> in.volume, fills |-> <<>>, stage |-> "sent"]
    <2>1. orders \in Seq(OrderRecs) /\ booked \in Seq(BOOLEAN) /\ Len(booked) = Len(orders) BY DEF TypeInv
    <2>2. r \in OrderRecs /\ r.in = in BY RequestType, TradedNone DEF OrderRecs
    <2>3. ot = Append(orders, r) /\ bt = Append(booked, x) BY DEF insert_order
    <2>4. x \in BOOLEAN OBVIOUS
    <2>5. x = (in.offset = "Open") BY <1>1 DEF get_offset
    <2> HIDE DEF r, x, ot, bt
    <2>6. /\ Len(orders) \in Nat /\ ot[Len(orders) + 1] = r /\ bt[Len(orders) + 1] = x
          /\ \A i \in 1 .. Len(orders) : ot[i] = orders[i] /\ bt[i] = booked[i]
          /\ DOMAIN orders = 1 .. Len(orders) /\ DOMAIN ot = 1 .. (Len(orders) + 1)
      BY <2>1, <2>2, <2>3, <2>4
    <2>7. CASE o \in DOMAIN orders
      <3>1. booked[o] = (orders[o].in.offset = "Open") BY <2>7, <1>1 DEF BooksInv, Unmerged
      <3> QED BY <3>1, <2>6, <2>7
    <2>8. CASE o \notin DOMAIN orders
      <3>1. o = Len(orders) + 1 BY <2>6, <2>8
      <3> QED BY <3>1, <2>2, <2>5, <2>6
    <2> QED BY <2>7, <2>8
  <1> QED BY <1>3, <1>4, <1>5 DEF BooksInv

LEMMA QuoteBooks ==
  ASSUME TypeInv, BooksInv, NEW price \in Quotes, Quote(price)
  PROVE  Twin' /\ \A h \in Holders : Aged(book'[h])
  <1>1. price \in Nat BY FutureAssumption
  <1>2. /\ setup' = setup
        /\ \A h \in Holders : book'[h] = IF \E d \in Directions : book[h].pos[d].volume # 0
                                         THEN apply_quote(book[h], price) ELSE book[h]
    BY DEF Quote
  <1>3. "account" \in Holders /\ "strategy" \in Holders BY DEF Holders
  <1>4. Twin' BY <1>2, <1>3 DEF BooksInv, Twin
  <1>5. \A h \in Holders : Aged(book'[h])
    <2> TAKE h \in Holders
    <2> DEFINE b == book[h]
               c == book'[h]
    <2>1. b \in Books /\ Aged(b) BY BookOf DEF BooksInv
    <2>2. c = apply_quote(b, price) \/ c = b BY <1>2
    <2> HIDE DEF b, c
    <2>3. CASE c = apply_quote(b, price)
      <3>1. c \in Books /\ SameVolume(c, b) /\ SameFrozen(c, b) BY <1>1, <2>1, <2>3, QuoteEffect
      <3>2. Aged(c) BY <3>1, <2>1 DEF SameVolume, SameFrozen, Aged
      <3> QED BY <3>2 DEF c
    <2>4. CASE c = b BY <2>1, <2>4 DEF c
    <2> QED BY <2>2, <2>3, <2>4
  <1> QED BY <1>4, <1>5

LEMMA SimInsertBooks ==
  ASSUME TypeInv, BooksInv, NEW o \in DOMAIN orders, sim_insert_order(o)
  PROVE  Twin' /\ \A h \in Holders : Aged(book'[h])
  <1>1. PICK match : \E g : SimStep(o, match, g) BY SimUnfold
  <1>2. PICK g : SimStep(o, match, g) BY <1>1
  <1>3. match \in Matches(orders[o].in) /\ SimBooks(o, match, g) /\ book' = g[Len(match.fills)]
    BY <1>2 DEF SimStep
  <1>4. setup.broker = "sim" BY Zenon DEF sim_insert_order
  <1>5. book["account"] = book["strategy"] /\ \A h \in Holders : Aged(book[h]) BY <1>4 DEF BooksInv, Twin
  <1>6. match.fills \in FillSeqs BY <1>3, OrderType, MatchType
  <1>7. Len(match.fills) \in 0 .. Len(match.fills) BY <1>6 DEF FillSeqs
  <1>8. \A k \in 0 .. Len(match.fills) : g[k]["account"] = g[k]["strategy"] /\ \A h \in Holders : Aged(g[k][h])
    BY <1>3, <1>5, SimBooksKept
  <1> QED BY <1>3, <1>7, <1>8 DEF Twin

LEMMA SimCancelBooks ==
  ASSUME TypeInv, BooksInv, NEW o \in DOMAIN orders, sim_cancel_order(o)
  PROVE  Twin' /\ \A h \in Holders : Aged(book'[h])
  <1> DEFINE frame == OrderFrame(o, orders[o].in, orders[o].left, TRUE)
             final == TRUE
             to == "strategy"
  <1>1. setup.broker = "sim" /\ setup' = setup BY DEF sim_cancel_order
  <1>2. book["account"] = book["strategy"] /\ \A h \in Holders : Aged(book[h]) BY <1>1 DEF BooksInv, Twin
  <1>3. book' = book \/ book' = update_book(book, frame, to) BY DEF sim_cancel_order
  <1>4. frame = OrderFrame(o, orders[o].in, orders[o].left, final) OBVIOUS
  <1>5. final \in BOOLEAN /\ book \in BookSets BY DEF TypeInv
  <1>6. CASE book' = book BY <1>2, <1>6 DEF Twin
  <1>7. CASE book' = update_book(book, frame, to)
    <2> HIDE DEF final
    <2>1. Sound(frame) /\ Ages(frame) BY <1>4, <1>5, OrderType, SoundOrder, AgesOrder
    <2> DEFINE told == book'
    <2>2. told = update_book(book, frame, to) BY <1>7
    <2> HIDE DEF frame, to, told
    <2>3. \A h \in Holders : Aged(told[h]) BY <1>2, <1>5, <2>1, <2>2, UpdateAged
    <2>4. told["account"] = told["strategy"] BY <1>2, <1>5, <2>1, <2>2, UpdateTwin DEF to
    <2> QED BY <2>3, <2>4 DEF told, Twin
  <1> QED BY <1>3, <1>6, <1>7

LEMMA RefusedBooks ==
  ASSUME TypeInv, BooksInv, NEW o \in DOMAIN orders, ctp_insert_refused(o)
  PROVE  Twin' /\ \A h \in Holders : Aged(book'[h])
  <1> DEFINE frame == OrderFrame(o, orders[o].in, orders[o].left, TRUE)
             final == TRUE
             told == book'
  <1>1. setup.broker = "ctp" /\ setup' = setup /\ told = write_both(book, frame, TRUE)
    BY DEF ctp_insert_refused, Ctp
  <1>2. frame = OrderFrame(o, orders[o].in, orders[o].left, final) OBVIOUS
  <1>3. final \in BOOLEAN /\ book \in BookSets /\ TRUE \in BOOLEAN /\ \A h \in Holders : Aged(book[h])
    BY DEF TypeInv, BooksInv
  <1> HIDE DEF final
  <1>4. Sound(frame) /\ Ages(frame) BY <1>2, <1>3, OrderType, SoundOrder, AgesOrder
  <1> HIDE DEF frame, told
  <1>5. \A h \in Holders : Aged(told[h]) BY <1>1, <1>3, <1>4, WriteAged
  <1>6. Twin' BY <1>1 DEF Twin
  <1> QED BY <1>5, <1>6 DEF told

LEMMA HandleBooks ==
  ASSUME TypeInv, BooksInv, ctp_handle
  PROVE  Twin' /\ \A h \in Holders : Aged(book'[h])
  <1> DEFINE note == notes[1]
             frame == ReportFrame(note)
             id == resolve_order_id(note.o)
             in == orders[note.o].in
             source == note.o \in mapped
             told == book'
  <1>1. note = notes[1] OBVIOUS
  <1> HIDE DEF note
  <1>2. /\ note \in NoteRecs /\ note.o \in DOMAIN orders /\ setup.broker = "ctp" /\ setup' = setup
        /\ told = book \/ told = write_both(book, frame, source)
        /\ Sound(frame)
        /\ note.on \in {"trade", "qry_trade"} => frame = TradeFrame(id, in, 1, note.price)
        /\ note.on \notin {"trade", "qry_trade"} => frame = OrderFrame(id, in, note.left, note.final)
    BY <1>1, HandleUnfold
  <1>3. note.left \in Nat /\ note.final \in BOOLEAN /\ note.price \in Nat BY <1>2 DEF NoteRecs
  <1>4. id \in Int /\ in \in Requests BY <1>2, OrderType DEF resolve_order_id
  <1>5. source \in BOOLEAN /\ book \in BookSets /\ \A h \in Holders : Aged(book[h]) BY DEF TypeInv, BooksInv
  <1> HIDE DEF id, in, source, told
  <1>6. Ages(frame)
    <2>1. CASE note.on \in {"trade", "qry_trade"}
      <3> DEFINE volume == 1
                 price == note.price
      <3>1. frame = TradeFrame(id, in, volume, price) /\ volume \in Nat /\ price \in Nat BY <2>1, <1>2, <1>3
      <3> HIDE DEF frame, volume, price
      <3> QED BY <3>1, <1>4, AgesTrade
    <2>2. CASE note.on \notin {"trade", "qry_trade"}
      <3> DEFINE left == note.left
                 final == note.final
      <3>1. frame = OrderFrame(id, in, left, final) /\ left \in Nat /\ final \in BOOLEAN BY <2>2, <1>2, <1>3
      <3> HIDE DEF frame, left, final
      <3> QED BY <3>1, <1>4, AgesOrder
    <2> QED BY <2>1, <2>2
  <1> HIDE DEF frame
  <1>7. \A h \in Holders : Aged(told[h])
    <2>1. CASE told = book BY <2>1, <1>5
    <2>2. CASE told = write_both(book, frame, source) BY <2>2, <1>2, <1>5, <1>6, WriteAged
    <2> QED BY <1>2, <2>1, <2>2
  <1>8. Twin' BY <1>2 DEF Twin
  <1> QED BY <1>7, <1>8 DEF told

LEMMA NextBooks == TypeInv /\ BooksInv /\ [Next]_vars => BooksInv'
  <1> SUFFICES ASSUME TypeInv, BooksInv, [Next]_vars PROVE BooksInv' OBVIOUS
  <1>1. ASSUME NEW in \in Requests, insert_order(in) PROVE BooksInv' BY <1>1, InsertBooks
  <1>2. CASE ~(\E in \in Requests : insert_order(in))
    <2> DEFINE Kept == Twin' /\ \A h \in Holders : Aged(book'[h])
    <2>1. ASSUME NEW price \in Quotes, Quote(price) PROVE Kept BY <2>1, QuoteBooks
    <2>2. ASSUME NEW o \in DOMAIN orders, sim_insert_order(o) PROVE Kept BY <2>2, SimInsertBooks
    <2>3. ASSUME NEW o \in DOMAIN orders, sim_cancel_order(o) PROVE Kept BY <2>3, SimCancelBooks
    <2>4. ASSUME NEW o \in DOMAIN orders, ctp_insert_refused(o) PROVE Kept BY <2>4, RefusedBooks
    <2>a. ASSUME book' = book, setup' = setup PROVE Kept BY <2>a DEF BooksInv, Twin
    <2>5. ASSUME NEW o \in DOMAIN orders,
                 ctp_insert_order(o) \/ ctp_reject(o) \/ ctp_cancel_order(o) \/ ctp_fill(o)
          PROVE  Kept
      <3>1. CASE ctp_insert_order(o) BY <3>1, <2>a DEF ctp_insert_order
      <3>2. CASE ctp_reject(o) BY <3>2, <2>a DEF ctp_reject
      <3>3. CASE ctp_cancel_order(o) BY <3>3, <2>a DEF ctp_cancel_order
      <3>4. CASE ctp_fill(o)
        <4>1. book' = book /\ setup' = setup BY <3>4, Zenon DEF ctp_fill
        <4> QED BY <4>1, <2>a
      <3> QED BY <2>5, <3>1, <3>2, <3>3, <3>4
    <2>6. ASSUME ctp_req_order_trade PROVE Kept BY <2>6, <2>a DEF ctp_req_order_trade
    <2>7. ASSUME ctp_handle PROVE Kept BY <2>7, HandleBooks
    <2>8. ASSUME UNCHANGED vars PROVE Kept BY <2>8, <2>a DEF vars
    <2> HIDE DEF Kept
    <2>9. Kept BY <1>2, <2>1, <2>2, <2>3, <2>4, <2>5, <2>6, <2>7, <2>8 DEF Next
    <2>10. Unmerged'
      <3> DEFINE ot == orders'
                 bt == booked'
                 st == setup'
      <3>1. /\ st = setup /\ bt = booked /\ DOMAIN ot = DOMAIN orders
            /\ \A i \in DOMAIN orders : ot[i].in = orders[i].in
        BY <1>2, RequestsKept
      <3>2. ~setup.merge => \A i \in DOMAIN orders : booked[i] = (orders[i].in.offset = "Open")
        BY DEF BooksInv, Unmerged
      <3> HIDE DEF ot, bt, st
      <3>3. ~st.merge => \A i \in DOMAIN ot : bt[i] = (ot[i].in.offset = "Open") BY <3>1, <3>2
      <3> QED BY <3>3 DEF ot, bt, st, Unmerged
    <2> QED BY <2>9, <2>10 DEF BooksInv, Kept
  <1> QED BY <1>1, <1>2

LEMMA InitBooks == Init => BooksInv
  <1> SUFFICES ASSUME Init PROVE BooksInv OBVIOUS
  <1>1. /\ setup \in Setups /\ book = [h \in Holders |-> Restored(setup.holding)] /\ orders = <<>>
    BY DEF Init
  <1>2. setup.holding \in Nat BY <1>1, SetupType
  <1> DEFINE holding == setup.holding
             b == Restored(holding)
  <1>3. \A h \in Holders : book[h] = b BY <1>1
  <1>4. Aged(b)
    <2>a. holding \in Nat BY <1>2
    <2> HIDE DEF holding
    <2>1. \A d \in Directions :
             b.pos[d] = IF d = "Long" THEN [NoPosition EXCEPT !.volume = holding,
                                               !.yesterday_volume = holding, !.margin = holding]
                        ELSE NoPosition
      BY <2>a, RestoredBook
    <2> HIDE DEF b
    <2>2. ASSUME NEW d \in Directions PROVE b.pos[d].frozen_yesterday <= b.pos[d].yesterday_volume
      <3>1. CASE d = "Long"
        <4>1. b.pos[d] = [NoPosition EXCEPT !.volume = holding, !.yesterday_volume = holding, !.margin = holding]
          BY <3>1, <2>1
        <4>2. b.pos[d].frozen_yesterday = 0 /\ b.pos[d].yesterday_volume = holding BY <4>1 DEF NoPosition
        <4> QED BY <4>2, <2>a
      <3>2. CASE d # "Long" BY <3>2, <2>1 DEF NoPosition
      <3> QED BY <3>1, <3>2
    <2> QED BY <2>2 DEF Aged
  <1>5. Twin BY <1>3 DEF Twin, Holders
  <1>6. Unmerged BY <1>1 DEF Unmerged
  <1> QED BY <1>3, <1>4, <1>5, <1>6 DEF BooksInv

\* what is frozen is what is due, and never less
OwedAt(os, bk, D, p, d) == /\ p.frozen_total = Weighted(VolumeRates(os, bk, d), D)
                           /\ p.frozen_yesterday <= Weighted(OldRates(os, bk, d), D)

OwedBy(os, bk, D, b) == /\ b.frozen_cash = Weighted(CashRates(os, bk), D)
                        /\ \A d \in Directions : OwedAt(os, bk, D, b.pos[d], d)

CoveredAt(os, bk, D, p, d) == /\ Weighted(VolumeRates(os, bk, d), D) <= p.frozen_total
                              /\ p.frozen_total <= p.volume

CoveredBy(os, bk, D, b) == \A d \in Directions : CoveredAt(os, bk, D, b.pos[d], d)

OwedInv ==
  \A h \in Told : /\ odd = {} => OwedBy(orders, booked, Dues(orders, notes), book[h])
                  /\ \/ setup.merge \/ Odd({"again"})
                     \/ CoveredBy(orders, booked, Dues(orders, notes), book[h])

LEMMA WeightedNat ==
  ASSUME NEW n \in Nat, NEW R \in [1 .. n -> Nat], NEW D \in [1 .. n -> Nat]
  PROVE  Weighted(R, D) \in Nat
  <1> DEFINE s == Products(R, D)
  <1>1. s = Products(R, D) OBVIOUS
  <1> HIDE DEF s
  <1>2. ProductsAre(n, R, D, s) BY <1>1, WeightedSeq
  <1> QED BY <1>2 DEF ProductsAre

\* a product with a rate of zero or one
UnitFalls(R, D, E, o, y) == /\ Weighted(R, D) \in Nat /\ Weighted(R, E) \in Nat
                            /\ R[o] = 0 => Weighted(R, E) = Weighted(R, D)
                            /\ R[o] = 1 => Weighted(R, E) = Weighted(R, D) - y /\ y <= Weighted(R, D)

LEMMA UnitFall ==
  ASSUME NEW n \in Nat, NEW R \in [1 .. n -> Nat], NEW D, NEW E, NEW o, NEW y \in Nat, Falls(n, D, E, o, y)
  PROVE  UnitFalls(R, D, E, o, y)
  <1>b. Weighted(R, E) = Weighted(R, D) - R[o] * y BY WeightedFall
  <1>a. /\ D \in [1 .. n -> Nat] /\ E \in [1 .. n -> Nat] /\ o \in 1 .. n
        /\ D[o] = E[o] + y /\ \A i \in 1 .. n : i # o => E[i] = D[i]
    BY DEF Falls
  <1> SUFFICES ASSUME D \in [1 .. n -> Nat], E \in [1 .. n -> Nat], o \in 1 .. n,
                      D[o] = E[o] + y, \A i \in 1 .. n : i # o => E[i] = D[i]
               PROVE  UnitFalls(R, D, E, o, y)
    BY <1>a
  <1> DEFINE v == Weighted(R, D)
             w == Weighted(R, E)
             r == R[o]
             e == D[o]
  <1>1. v \in Nat /\ w \in Nat BY WeightedNat
  <1>2. w = v - r * y BY <1>b
  <1>3. r * e <= v BY WeightedBound
  <1>4. r \in Nat /\ e \in Nat /\ e >= y OBVIOUS
  <1> HIDE DEF v, w, r, e
  <1>5. r = 0 => w = v
    <2> SUFFICES ASSUME r = 0 PROVE w = v OBVIOUS
    <2>1. r * y = 0 OBVIOUS
    <2> QED BY <2>1, <1>1, <1>2
  <1>6. r = 1 => w = v - y /\ y <= v
    <2> SUFFICES ASSUME r = 1 PROVE w = v - y /\ y <= v OBVIOUS
    <2>1. r * y = y /\ r * e = e BY <1>4
    <2> QED BY <2>1, <1>1, <1>2, <1>3, <1>4
  <1> QED BY <1>1, <1>5, <1>6 DEF v, w, r, UnitFalls

\* the same, of booked orders
Freeing(os, bk, D, E, o, y) == /\ os \in Seq(OrderRecs) /\ bk \in Seq(BOOLEAN) /\ Len(bk) = Len(os)
                               /\ y \in Nat /\ Falls(Len(os), D, E, o, y)

LEMMA FreedCash ==
  ASSUME NEW os, NEW bk, NEW o, NEW y, NEW D, NEW E, Freeing(os, bk, D, E, o, y), NEW b \in Books, NEW c \in Books,
         Freed(b, c, os[o].in, bk[o], y), b.frozen_cash = Weighted(CashRates(os, bk), D)
  PROVE  c.frozen_cash = Weighted(CashRates(os, bk), E)
  <1> DEFINE n == Len(os)
             R == CashRates(os, bk)
             v == Weighted(R, D)
             w == Weighted(R, E)
             r == R[o]
             p == os[o].in.price
  <1>c. os \in Seq(OrderRecs) /\ bk \in Seq(BOOLEAN) /\ Len(bk) = Len(os) /\ y \in Nat BY DEF Freeing
  <1>d. Falls(n, D, E, o, y) BY DEF Freeing
  <1>1. n \in Nat /\ DOMAIN os = 1 .. n BY <1>c
  <1>2. /\ D \in [1 .. n -> Nat] /\ E \in [1 .. n -> Nat] /\ o \in 1 .. n
        /\ D[o] = E[o] + y /\ \A i \in 1 .. n : i # o => E[i] = D[i]
    BY <1>d DEF Falls
  <1>a. os[o] \in OrderRecs BY <1>c, <1>2
  <1>b. os[o].in \in Requests BY <1>a DEF OrderRecs
  <1>3. p \in Nat BY <1>b, RequestType
  <1>4. R \in [1 .. n -> Nat] /\ r = (IF bk[o] THEN p ELSE 0)
    <2> DEFINE d == "Long"
    <2>1. /\ CashRates(os, bk) \in [1 .. Len(os) -> Nat]
          /\ VolumeRates(os, bk, d) \in [1 .. Len(os) -> Nat]
          /\ \A i \in DOMAIN os : CashRates(os, bk)[i] = IF bk[i] THEN os[i].in.price ELSE 0
      BY <1>c, RatesType
    <2> QED BY <2>1, <1>1, <1>2
  <1>5. c.frozen_cash = b.frozen_cash - (IF bk[o] THEN p * y ELSE 0) BY DEF Freed
  <1>6. b.frozen_cash = v OBVIOUS
  <1> HIDE DEF n, R
  <1>7. w = v - r * y BY <1>c, <1>d, <1>1, <1>4, WeightedFall
  <1>8. v \in Nat BY <1>c, <1>1, <1>2, <1>4, WeightedNat
  <1> HIDE DEF v, w, r, p
  <1>11. c.frozen_cash = w
    <2>1. CASE bk[o] BY <2>1, <1>4, <1>5, <1>6, <1>7
    <2>2. CASE ~bk[o]
      <3>1. r = 0 BY <1>4, <2>2
      <3>2. r * y = 0 BY <1>c, <3>1
      <3> QED BY <3>2, <1>5, <1>6, <1>7, <1>8, <2>2
    <2> QED BY <2>1, <2>2
  <1> QED BY <1>11 DEF w, R

LEMMA FreedVolumes ==
  ASSUME NEW os, NEW bk, NEW o, NEW y, NEW D, NEW E, Freeing(os, bk, D, E, o, y), NEW b \in Books, NEW c \in Books,
         NEW x \in Nat, x <= y, Freed(b, c, os[o].in, bk[o], x), NEW d \in Directions
  PROVE  /\ x = y /\ OwedAt(os, bk, D, b.pos[d], d) => OwedAt(os, bk, E, c.pos[d], d)
         /\ CoveredAt(os, bk, D, b.pos[d], d) => CoveredAt(os, bk, E, c.pos[d], d)
  <1> DEFINE n == Len(os)
             R == VolumeRates(os, bk, d)
             Q == OldRates(os, bk, d)
             v == Weighted(R, D)
             w == Weighted(R, E)
             u == Weighted(Q, D)
             t == Weighted(Q, E)
             in == os[o].in
             open == bk[o]
             ft == b.pos[d].frozen_total
             fy == b.pos[d].frozen_yesterday
             vol == b.pos[d].volume
             gt == c.pos[d].frozen_total
             gy == c.pos[d].frozen_yesterday
             wol == c.pos[d].volume
             mine == ~open /\ CloseSide(in) = d
             old == mine /\ in.offset # "CloseToday"
  <1>a. os \in Seq(OrderRecs) /\ bk \in Seq(BOOLEAN) /\ Len(bk) = Len(os) /\ y \in Nat BY DEF Freeing
  <1>b. Falls(n, D, E, o, y) BY DEF Freeing
  <1>1. n \in Nat /\ DOMAIN os = 1 .. n BY <1>a
  <1>2. /\ D \in [1 .. n -> Nat] /\ E \in [1 .. n -> Nat] /\ o \in 1 .. n
        /\ D[o] = E[o] + y /\ \A i \in 1 .. n : i # o => E[i] = D[i]
    BY <1>b DEF Falls
  <1>3. R \in [1 .. n -> Nat] /\ R[o] = IF mine THEN 1 ELSE 0 BY <1>a, <1>1, <1>2, RatesType
  <1>4. Q \in [1 .. n -> Nat] /\ Q[o] = IF old THEN 1 ELSE 0 BY <1>a, <1>1, <1>2, RatesType
  <1>5. /\ ft \in Int /\ fy \in Nat /\ vol \in Int /\ gt \in Int /\ gy \in Nat /\ wol \in Int BY BookType
  <1>6. ~mine => gt = ft /\ gy = fy /\ wol >= vol BY DEF Freed, KeptAt
  <1>7. mine => /\ ft >= x => gt = ft - x /\ wol - gt >= vol - ft
                /\ gy <= IF in.offset = "CloseToday" THEN fy ELSE Older(fy, x)
    BY DEF Freed, FreedAt
  <1>11. (old <=> mine /\ in.offset # "CloseToday") /\ mine \in BOOLEAN /\ old \in BOOLEAN OBVIOUS
  <1> HIDE DEF n, R, Q, ft, fy, vol, gt, gy, wol, mine, old
  <1>8. Older(fy, x) = IF fy >= x THEN fy - x ELSE 0
    <2>1. fy \in Int /\ x \in Int BY <1>5
    <2> QED BY <2>1, OlderValue
  <1>9. /\ v \in Nat /\ w \in Nat
        /\ ~mine => w = v
        /\ mine => w = v - y /\ y <= v
    <2>1. UnitFalls(R, D, E, o, y) BY <1>a, <1>1, <1>3, <1>b, UnitFall
    <2> QED BY <2>1, <1>3, <1>11 DEF UnitFalls
  <1>10. /\ u \in Nat /\ t \in Nat
         /\ ~old => t = u
         /\ old => t = u - y /\ y <= u
    <2>1. UnitFalls(Q, D, E, o, y) BY <1>a, <1>1, <1>4, <1>b, UnitFall
    <2> QED BY <2>1, <1>4, <1>11 DEF UnitFalls
  <1> HIDE DEF v, w, u, t, ft, fy, vol, gt, gy, wol, mine, old, in, open
  <1>12. x = y /\ ft = v /\ fy <= u => gt = w /\ gy <= t
    <2> SUFFICES ASSUME x = y, ft = v, fy <= u PROVE gt = w /\ gy <= t OBVIOUS
    <2>1. CASE ~mine BY <2>1, <1>6, <1>9, <1>10, <1>11
    <2>2. CASE mine /\ in.offset = "CloseToday"
      <3>1. gt = ft - x /\ gy <= fy BY <2>2, <1>a, <1>5, <1>7, <1>9
      <3>2. t = u BY <2>2, <1>10, <1>11
      <3> QED BY <3>1, <3>2, <2>2, <1>a, <1>5, <1>9, <1>10
    <2>3. CASE mine /\ in.offset # "CloseToday"
      <3>1. gt = ft - x /\ gy <= IF fy >= x THEN fy - x ELSE 0 BY <2>3, <1>7, <1>8, <1>9
      <3>2. t = u - y /\ y <= u BY <2>3, <1>10, <1>11
      <3> QED BY <3>1, <3>2, <2>3, <1>a, <1>5, <1>9, <1>10
    <2> QED BY <2>1, <2>2, <2>3
  <1>13. v <= ft /\ ft <= vol => w <= gt /\ gt <= wol
    <2> SUFFICES ASSUME v <= ft, ft <= vol PROVE w <= gt /\ gt <= wol OBVIOUS
    <2>1. CASE ~mine BY <2>1, <1>a, <1>5, <1>6, <1>9
    <2>2. CASE mine
      <3>1. ft >= x BY <2>2, <1>a, <1>5, <1>9
      <3>2. gt = ft - x /\ wol - gt >= vol - ft BY <3>1, <2>2, <1>7
      <3> QED BY <3>2, <2>2, <1>a, <1>5, <1>9
    <2> QED BY <2>1, <2>2
  <1>14. OwedAt(os, bk, D, b.pos[d], d) = (ft = v /\ fy <= u) /\ OwedAt(os, bk, E, c.pos[d], d) = (gt = w /\ gy <= t)
    BY DEF OwedAt, v, w, u, t, ft, fy, gt, gy, R, Q
  <1>15. /\ CoveredAt(os, bk, D, b.pos[d], d) = (v <= ft /\ ft <= vol)
         /\ CoveredAt(os, bk, E, c.pos[d], d) = (w <= gt /\ gt <= wol)
    BY DEF CoveredAt, v, w, ft, gt, vol, wol, R
  <1> QED BY <1>12, <1>13, <1>14, <1>15, Zenon

LEMMA FreedOwed ==
  ASSUME NEW os, NEW bk, NEW o, NEW y, NEW D, NEW E, Freeing(os, bk, D, E, o, y), NEW b \in Books, NEW c \in Books,
         NEW x \in Nat, x <= y, Freed(b, c, os[o].in, bk[o], x)
  PROVE  /\ x = y /\ OwedBy(os, bk, D, b) => OwedBy(os, bk, E, c)
         /\ CoveredBy(os, bk, D, b) => CoveredBy(os, bk, E, c)
  <1>1. ASSUME x = y, OwedBy(os, bk, D, b) PROVE OwedBy(os, bk, E, c)
    <2>1. Freed(b, c, os[o].in, bk[o], y) BY <1>1
    <2>a. b.frozen_cash = Weighted(CashRates(os, bk), D) BY <1>1 DEF OwedBy
    <2>2. c.frozen_cash = Weighted(CashRates(os, bk), E) BY <2>1, <2>a, FreedCash
    <2>3. \A d \in Directions : OwedAt(os, bk, E, c.pos[d], d)
      <3> TAKE d \in Directions
      <3>1. OwedAt(os, bk, D, b.pos[d], d) BY <1>1 DEF OwedBy
      <3> QED BY <1>1, <3>1, FreedVolumes, ZenonT(30)
    <2> QED BY <2>2, <2>3 DEF OwedBy
  <1>2. ASSUME CoveredBy(os, bk, D, b) PROVE CoveredBy(os, bk, E, c)
    <2> SUFFICES ASSUME NEW d \in Directions PROVE CoveredAt(os, bk, E, c.pos[d], d) BY DEF CoveredBy
    <2>1. CoveredAt(os, bk, D, b.pos[d], d) BY <1>2 DEF CoveredBy
    <2> QED BY <2>1, FreedVolumes, Zenon
  <1> QED BY <1>1, <1>2

SameRequests(os, ot) == DOMAIN ot = DOMAIN os /\ \A i \in DOMAIN os : ot[i].in = os[i].in

LEMMA OwedSame ==
  ASSUME NEW os, NEW ot, SameRequests(os, ot), NEW bk, NEW D, NEW b
  PROVE  (OwedBy(ot, bk, D, b) <=> OwedBy(os, bk, D, b)) /\ (CoveredBy(ot, bk, D, b) <=> CoveredBy(os, bk, D, b))
  <1>1. DOMAIN ot = DOMAIN os /\ \A i \in DOMAIN os : ot[i].in = os[i].in BY DEF SameRequests
  <1>2. \A d : /\ CashRates(ot, bk) = CashRates(os, bk)
               /\ VolumeRates(ot, bk, d) = VolumeRates(os, bk, d)
               /\ OldRates(ot, bk, d) = OldRates(os, bk, d)
    BY <1>1, RatesSame
  <1>3. CashRates(ot, bk) = CashRates(os, bk)
    <2> DEFINE d == "Long"
    <2>1. VolumeRates(ot, bk, d) = VolumeRates(os, bk, d) /\ CashRates(ot, bk) = CashRates(os, bk) BY <1>2
    <2> QED BY <2>1
  <1>4. \A d, p : /\ OwedAt(ot, bk, D, p, d) <=> OwedAt(os, bk, D, p, d)
                  /\ CoveredAt(ot, bk, D, p, d) <=> CoveredAt(os, bk, D, p, d)
    BY <1>2 DEF OwedAt, CoveredAt
  <1>5. OwedBy(ot, bk, D, b) <=> OwedBy(os, bk, D, b) BY <1>3, <1>4, Zenon DEF OwedBy
  <1>6. CoveredBy(ot, bk, D, b) <=> CoveredBy(os, bk, D, b) BY <1>4, Zenon DEF CoveredBy
  <1> QED BY <1>5, <1>6

\* the due of one order falls, and of no other
DueFalls(os, ns, ot, nt, o, y) == /\ Due(os, ns, o) = Due(ot, nt, o) + y
                                  /\ \A i \in DOMAIN os : i # o => Due(ot, nt, i) = Due(os, ns, i)

LEMMA DuesFall ==
  ASSUME NEW os \in Seq(OrderRecs), NEW ns \in Seq(NoteRecs), NEW ot \in Seq(OrderRecs), NEW nt \in Seq(NoteRecs),
         SameRequests(os, ot), NEW o \in DOMAIN os, NEW y \in Nat, DueFalls(os, ns, ot, nt, o, y)
  PROVE  Falls(Len(os), Dues(os, ns), Dues(ot, nt), o, y)
  <1> DEFINE D == Dues(os, ns)
             E == Dues(ot, nt)
             n == Len(os)
  <1>1. n \in Nat /\ DOMAIN os = 1 .. n /\ DOMAIN ot = 1 .. n BY DEF SameRequests
  <1>2. Len(ot) = n BY <1>1
  <1>3. D \in [1 .. n -> Nat] /\ \A i \in 1 .. n : D[i] = Due(os, ns, i) BY <1>1, DueType
  <1>4. E \in [1 .. n -> Nat] /\ \A i \in 1 .. n : E[i] = Due(ot, nt, i) BY <1>1, <1>2, DueType
  <1> HIDE DEF D, E
  <1>5. D[o] = E[o] + y BY <1>1, <1>3, <1>4 DEF DueFalls
  <1>6. \A i \in 1 .. n : i # o => E[i] = D[i] BY <1>1, <1>3, <1>4 DEF DueFalls
  <1>7. o \in 1 .. n BY <1>1
  <1>8. Falls(n, D, E, o, y) BY <1>3, <1>4, <1>5, <1>6, <1>7 DEF Falls
  <1> QED BY <1>8 DEF D, E

\* what a state needs of a book
OwesBook(os, bk, ns, b, exact, free) ==
  /\ exact => OwedBy(os, bk, Dues(os, ns), b)
  /\ free => CoveredBy(os, bk, Dues(os, ns), b)

LEMMA OwedIs ==
  /\ OwedInv <=> \A h \in Told : OwesBook(orders, booked, notes, book[h], odd = {}, ~(setup.merge \/ Odd({"again"})))
  /\ OwedInv' <=> \A h \in Told' : OwesBook(orders', booked', notes', book'[h], odd' = {},
                                            ~(setup'.merge \/ Odd({"again"})'))
  <1>1. OwedInv <=> \A h \in Told : OwesBook(orders, booked, notes, book[h], odd = {}, ~(setup.merge \/ Odd({"again"})))
    BY Zenon DEF OwedInv, OwesBook
  <1>2. OwedInv' <=> \A h \in Told' : OwesBook(orders', booked', notes', book'[h], odd' = {},
                                            ~(setup'.merge \/ Odd({"again"})'))
    BY Zenon DEF OwedInv, OwesBook
  <1> QED BY <1>1, <1>2

\* the oddities only grow
LEMMA OddGrows ==
  ASSUME odd \subseteq odd', NEW kinds
  PROVE  /\ odd' = {} => odd = {}
         /\ Odd(kinds) => Odd(kinds)'
  BY DEF Odd

LEMMA OwedStep ==
  ASSUME TypeInv, TypeInv', OwedInv, setup' = setup, booked' = booked, SameRequests(orders, orders'), odd \subseteq odd',
         NEW o \in DOMAIN orders, NEW x \in Nat, NEW y \in Nat, x <= y,
         DueFalls(orders, notes, orders', notes', o, y), odd' = {} => x = y,
         odd' = {} \/ ~(setup.merge \/ Odd({"again"})')
           => \A h \in Told : Freed(book[h], book'[h], orders[o].in, booked[o], x)
  PROVE  OwedInv'
  <1> DEFINE ot == orders'
             nt == notes'
             D == Dues(orders, notes)
             E == Dues(ot, nt)
             bt == book'
  <1>1. /\ orders \in Seq(OrderRecs) /\ notes \in Seq(NoteRecs) /\ ot \in Seq(OrderRecs) /\ nt \in Seq(NoteRecs)
        /\ booked \in Seq(BOOLEAN) /\ Len(booked) = Len(orders)
        /\ \A h \in Holders : book[h] \in Books /\ bt[h] \in Books
    BY DEF TypeInv, BookSets
  <1>2. SameRequests(orders, ot) /\ DueFalls(orders, notes, ot, nt, o, y) OBVIOUS
  <1>3. /\ \A h \in Told : h \in Holders
        /\ Told' = Told
    BY DEF Told, Holders
  <1> HIDE DEF ot, nt, D, E
  <1>4. Falls(Len(orders), D, E, o, y) BY <1>1, <1>2, DuesFall DEF D, E
  <1>5. Freeing(orders, booked, D, E, o, y) BY <1>1, <1>4 DEF Freeing
  <1>6. ASSUME NEW h \in Told
        PROVE  OwesBook(ot, booked, nt, bt[h], odd' = {}, ~(setup.merge \/ Odd({"again"})'))
    <2> DEFINE b == book[h]
               c == bt[h]
    <2>1. b \in Books /\ c \in Books BY <1>1, <1>3
    <2>2. OwesBook(orders, booked, notes, b, odd = {}, ~(setup.merge \/ Odd({"again"}))) BY OwedIs
    <2>3. odd' = {} \/ ~(setup.merge \/ Odd({"again"})') => Freed(b, c, orders[o].in, booked[o], x) OBVIOUS
    <2> HIDE DEF b, c
    <2>4. ASSUME odd' = {} PROVE OwedBy(ot, booked, E, c)
      <3>1. Freed(b, c, orders[o].in, booked[o], x) /\ x = y BY <2>3, <2>4
      <3>2. OwedBy(orders, booked, D, b) BY <2>2, <2>4 DEF OwesBook, D
      <3>3. OwedBy(orders, booked, E, c) BY <1>5, <2>1, <3>1, <3>2, FreedOwed
      <3> QED BY <1>2, <3>3, OwedSame
    <2>5. ASSUME ~(setup.merge \/ Odd({"again"})') PROVE CoveredBy(ot, booked, E, c)
      <3>1. Freed(b, c, orders[o].in, booked[o], x) BY <2>3, <2>5
      <3>2. ~(setup.merge \/ Odd({"again"})) BY <2>5, OddGrows
      <3>3. CoveredBy(orders, booked, D, b) BY <2>2, <3>2 DEF OwesBook, D
      <3>4. CoveredBy(orders, booked, E, c) BY <1>5, <2>1, <3>1, <3>3, FreedOwed
      <3> QED BY <1>2, <3>4, OwedSame
    <2> QED BY <2>4, <2>5 DEF OwesBook, E, c
  <1>7. \A h \in Told' : OwesBook(ot, booked', nt, bt[h], odd' = {}, ~(setup'.merge \/ Odd({"again"})'))
    BY <1>3, <1>6
  <1> QED BY <1>7, OwedIs DEF ot, nt, bt

\* a step that changes no due and no frozen part
SameShare(c, b) == c.frozen_cash = b.frozen_cash /\ SameVolume(c, b) /\ SameFrozen(c, b)

LEMMA ShareOwed ==
  ASSUME NEW b, NEW c, SameShare(c, b), NEW os, NEW bk, NEW D
  PROVE  (OwedBy(os, bk, D, b) => OwedBy(os, bk, D, c)) /\ (CoveredBy(os, bk, D, b) => CoveredBy(os, bk, D, c))
  <1>1. ASSUME NEW d \in Directions
        PROVE  /\ OwedAt(os, bk, D, b.pos[d], d) => OwedAt(os, bk, D, c.pos[d], d)
               /\ CoveredAt(os, bk, D, b.pos[d], d) => CoveredAt(os, bk, D, c.pos[d], d)
    BY DEF SameShare, SameVolume, SameFrozen, OwedAt, CoveredAt
  <1>2. c.frozen_cash = b.frozen_cash BY DEF SameShare
  <1>3. OwedBy(os, bk, D, b) => OwedBy(os, bk, D, c) BY <1>1, <1>2 DEF OwedBy
  <1>4. CoveredBy(os, bk, D, b) => CoveredBy(os, bk, D, c) BY <1>1 DEF CoveredBy
  <1> QED BY <1>3, <1>4

LEMMA OwedKept ==
  ASSUME OwedInv, setup' = setup, booked' = booked, SameRequests(orders, orders'), odd \subseteq odd',
         Dues(orders', notes') = Dues(orders, notes), \A h \in Told : SameShare(book'[h], book[h])
  PROVE  OwedInv'
  <1> DEFINE ot == orders'
             nt == notes'
             bt == book'
             D == Dues(orders, notes)
  <1>1. Told' = Told BY DEF Told
  <1>2. SameRequests(orders, ot) /\ Dues(ot, nt) = D OBVIOUS
  <1> HIDE DEF ot, nt
  <1>3. ASSUME NEW h \in Told
        PROVE  OwesBook(ot, booked, nt, bt[h], odd' = {}, ~(setup.merge \/ Odd({"again"})'))
    <2> DEFINE b == book[h]
               c == bt[h]
    <2>1. SameShare(c, b) OBVIOUS
    <2>2. OwesBook(orders, booked, notes, b, odd = {}, ~(setup.merge \/ Odd({"again"}))) BY OwedIs
    <2> HIDE DEF b, c, D
    <2>3. ASSUME odd' = {} PROVE OwedBy(ot, booked, D, c)
      <3>1. OwedBy(orders, booked, D, b) BY <2>2, <2>3 DEF OwesBook, D
      <3>2. OwedBy(orders, booked, D, c) BY <2>1, <3>1, ShareOwed
      <3> QED BY <1>2, <3>2, OwedSame
    <2>4. ASSUME ~(setup.merge \/ Odd({"again"})') PROVE CoveredBy(ot, booked, D, c)
      <3>1. ~(setup.merge \/ Odd({"again"})) BY <2>4, OddGrows
      <3>2. CoveredBy(orders, booked, D, b) BY <2>2, <3>1 DEF OwesBook, D
      <3>3. CoveredBy(orders, booked, D, c) BY <2>1, <3>2, ShareOwed
      <3> QED BY <1>2, <3>3, OwedSame
    <2> QED BY <1>2, <2>3, <2>4 DEF OwesBook, c
  <1>4. \A h \in Told' : OwesBook(ot, booked', nt, bt[h], odd' = {}, ~(setup'.merge \/ Odd({"again"})'))
    BY <1>1, <1>3
  <1> QED BY <1>4, OwedIs DEF ot, nt, bt

LEMMA OwedAgain ==
  ASSUME Odd({"again"})'
  PROVE  OwedInv'
  BY DEF OwedInv, Odd

\* where positions do not merge, and where no order flips, an order keeps its offset
LEMMA SteadyWhen ==
  ASSUME TypeInv, BooksInv, NEW books, NEW h \in Told, NEW o \in DOMAIN orders, Flips(books, o) = {} \/ ~setup.merge
  PROVE  Steady(books[h], orders[o].in, booked[o]) /\ booked[o] \in BOOLEAN
  <1> DEFINE in == orders[o].in
             b == books[h]
             x == (get_offset(b, in) = "Open")
  <1>1. booked[o] \in BOOLEAN
    <2>1. orders \in Seq(OrderRecs) /\ booked \in Seq(BOOLEAN) /\ Len(booked) = Len(orders) BY DEF TypeInv
    <2> QED BY <2>1
  <1>2. x = booked[o]
    <2>1. CASE Flips(books, o) = {}
      <3>1. ~(x # booked[o]) BY <2>1 DEF Flips
      <3> QED BY <3>1
    <2>2. CASE ~setup.merge
      <3>1. get_offset(b, in) = in.offset BY <2>2 DEF get_offset
      <3>2. booked[o] = (in.offset = "Open") BY <2>2 DEF BooksInv, Unmerged
      <3> QED BY <3>1, <3>2
    <2> QED BY <2>1, <2>2
  <1> QED BY <1>1, <1>2 DEF Steady

LEMMA DueBeside ==
  ASSUME NEW os, NEW ns, NEW ot, NEW nt, NEW i, ot[i] = os[i],
         Ending(nt, i) <=> Ending(ns, i), Lots(nt, i) = Lots(ns, i)
  PROVE  Due(ot, nt, i) = Due(os, ns, i)
  BY DEF Due, Rest

LEMMA OtherNotes ==
  ASSUME NEW more \in Seq(NoteRecs), NEW o, \A k \in DOMAIN more : more[k].o = o, NEW i, i # o
  PROVE  ~Ending(more, i) /\ Lots(more, i) = 0
  <1>1. ~Ending(more, i) BY DEF Ending
  <1> DEFINE W == LotOf(i)
             N == NoteRecs
  <1>2. W \in Weights(N) /\ \A n \in N : W[n] = IF n.on = "trade" /\ n.o = i THEN 1 ELSE 0 BY LotsType
  <1>3. \A k \in 1 .. Len(more) : W[more[k]] = 0
    <2> TAKE k \in 1 .. Len(more)
    <2>1. more[k] \in N /\ k \in DOMAIN more OBVIOUS
    <2> QED BY <2>1, <1>2
  <1>4. more \in Seq(N) OBVIOUS
  <1> HIDE DEF W, N
  <1>5. SumOf(W, more) = 0 BY <1>2, <1>3, <1>4, SumOfZero
  <1> QED BY <1>1, <1>5 DEF Lots, W

\* one order changes and the notifications stay
LEMMA QuietFalls ==
  ASSUME TypeInv, NEW o \in DOMAIN orders, NEW left \in Nat, NEW fills \in FillSeqs,
         NEW stage \in {"sent", "live", "done"}, orders' = Changed(o, left, fills, stage), notes' = notes,
         NEW y \in Nat, Rest(orders, notes, o) = Rest(orders', notes', o) + y
  PROVE  SameRequests(orders, orders') /\ DueFalls(orders, notes, orders', notes', o, y)
  <1> DEFINE ot == orders'
             nt == notes'
  <1>1. /\ ot \in Seq(OrderRecs) /\ DOMAIN ot = DOMAIN orders
        /\ \A i \in DOMAIN orders \ {o} : ot[i] = orders[i]
        /\ \A i \in DOMAIN orders : ot[i].in = orders[i].in
    <2>1. ot = Changed(o, left, fills, stage) OBVIOUS
    <2> HIDE DEF ot
    <2>2. ChangedTo(ot, o, left, fills, stage) BY <2>1, ChangedFacts
    <2> QED BY <2>2 DEF ChangedTo
  <1>2. nt = notes /\ Rest(orders, notes, o) = Rest(ot, nt, o) + y OBVIOUS
  <1>3. orders \in Seq(OrderRecs) /\ notes \in Seq(NoteRecs) BY DEF TypeInv
  <1> HIDE DEF ot, nt
  <1>4. SameRequests(orders, ot) BY <1>1 DEF SameRequests
  <1>5. \A i \in DOMAIN orders : i # o => Due(ot, nt, i) = Due(orders, notes, i) BY <1>1, <1>2, DueBeside
  <1>6. Due(orders, notes, o) = Due(ot, nt, o) + y
    <2>1. /\ Rest(orders, notes, o) \in Nat /\ Lots(notes, o) \in Nat
          /\ Due(orders, notes, o) = Rest(orders, notes, o) + Lots(notes, o)
      BY <1>3, DueType
    <2>2. /\ Rest(ot, notes, o) \in Nat
          /\ Due(ot, notes, o) = Rest(ot, notes, o) + Lots(notes, o)
      BY <1>1, <1>3, DueType
    <2> QED BY <2>1, <2>2, <1>2
  <1>7. DueFalls(orders, notes, ot, nt, o, y) BY <1>5, <1>6 DEF DueFalls
  <1> QED BY <1>4, <1>7 DEF ot, nt

LEMMA QuoteOwed ==
  ASSUME TypeInv, OwedInv, NEW price \in Quotes, Quote(price)
  PROVE  OwedInv'
  <1>1. setup' = setup /\ orders' = orders /\ notes' = notes /\ odd' = odd /\ booked' = booked BY DEF Quote, broker
  <1>2. price \in Nat BY FutureAssumption
  <1>3. \A h \in Told : SameShare(book'[h], book[h])
    <2> TAKE h \in Told
    <2>1. h \in Holders BY DEF Told, Holders
    <2> DEFINE b == book[h]
               c == book'[h]
    <2>2. b \in Books BY <2>1, BookOf
    <2>3. c = apply_quote(b, price) \/ c = b BY <2>1 DEF Quote
    <2> HIDE DEF b, c
    <2>4. SameShare(c, b)
      <3>1. CASE c = apply_quote(b, price)
        <4>1. c.frozen_cash = b.frozen_cash /\ SameVolume(c, b) /\ SameFrozen(c, b)
          BY <1>2, <2>2, <3>1, QuoteEffect
        <4> QED BY <4>1 DEF SameShare
      <3>2. CASE c = b BY <3>2 DEF SameShare, SameVolume, SameFrozen
      <3> QED BY <2>3, <3>1, <3>2
    <2> QED BY <2>4 DEF b, c
  <1>4. SameRequests(orders, orders') BY <1>1 DEF SameRequests
  <1>5. Dues(orders', notes') = Dues(orders, notes) BY <1>1
  <1>6. odd \subseteq odd' BY <1>1
  <1> QED BY <1>1, <1>3, <1>4, <1>5, <1>6, OwedKept

LEMMA SimInsertOwed ==
  ASSUME TypeInv, TypeInv', BooksInv, OwedInv, NEW o \in DOMAIN orders, sim_insert_order(o)
  PROVE  OwedInv'
  <1>1. PICK match : \E g : SimStep(o, match, g) BY SimUnfold
  <1>2. PICK g : SimStep(o, match, g) BY <1>1
  <1> DEFINE in == orders[o].in
             fills == match.fills
             left == in.volume - Traded(fills)
             stage == IF match.final THEN "done" ELSE "live"
             x == IF match.final THEN left ELSE 0
             y == x + Traded(fills)
  <1>3. /\ match \in Matches(orders[o].in) /\ SimBooks(o, match, g) /\ book' = g[Len(match.fills)]
        /\ odd' = odd \cup Flips(book, o) \cup UNION {Flips(g[k - 1], o) : k \in DOMAIN match.fills}
        /\ orders' = SetOrder(o, left, fills, stage)
    BY <1>2 DEF SimStep, SetOrder
  <1>4. /\ setup.broker = "sim" /\ orders[o].stage = "sent" /\ setup' = setup /\ notes' = notes /\ booked' = booked
    BY DEF sim_insert_order
  <1>5. /\ fills \in FillSeqs /\ Traded(fills) \in 0 .. in.volume /\ in.volume \in Nat /\ match.final \in BOOLEAN
    BY <1>3, OrderType, MatchType, RequestType
  <1>6. left \in Nat /\ stage \in {"sent", "live", "done"} /\ x \in Nat /\ y \in Nat /\ Traded(fills) \in Nat
    BY <1>5
  <1>7. orders' = Changed(o, left, fills, stage)
    <2> HIDE DEF left, fills, stage
    <2> QED BY <1>3, <1>5, <1>6, SetIs
  <1>8. Rest(orders, notes, o) = Rest(orders', notes', o) + y
    <2> DEFINE ot == orders'
    <2>1. orders[o].left = in.volume BY <1>4, OrderType
    <2>2. Rest(orders, notes, o) = in.volume BY <1>4, <2>1 DEF Rest
    <2>3. notes = <<>> BY <1>4 DEF TypeInv, NotesInv
    <2>4. ~Ending(notes, o) BY <2>3 DEF Ending
    <2>5. ot[o].left = left /\ ot[o].stage = stage
      <3>1. ot = Changed(o, left, fills, stage) BY <1>7
      <3> HIDE DEF ot, left, fills, stage
      <3> QED BY <1>5, <1>6, <3>1, OrderChanged
    <2>6. Rest(ot, notes, o) = IF match.final THEN 0 ELSE left
      <3> HIDE DEF ot, left
      <3> QED BY <2>4, <2>5 DEF Rest
    <2> QED BY <1>4, <1>5, <2>2, <2>6
  <1>9. odd \subseteq odd' BY <1>3
  <1>10. Told = Holders BY <1>4 DEF Told
  <1>11. odd' = {} \/ ~(setup.merge \/ Odd({"again"})')
           => \A h \in Told : Freed(book[h], book'[h], orders[o].in, booked[o], y)
    <2> SUFFICES ASSUME odd' = {} \/ ~setup.merge, NEW h \in Told
                 PROVE  Freed(book[h], g[Len(match.fills)][h], orders[o].in, booked[o], y)
      BY <1>3
    <2>1. Flips(book, o) = {} \/ ~setup.merge BY <1>3
    <2>2. Steady(book[h], orders[o].in, booked[o]) /\ booked[o] \in BOOLEAN BY <2>1, SteadyWhen
    <2>3. ASSUME NEW k \in 1 .. Len(match.fills) PROVE Steady(g[k - 1][h], orders[o].in, booked[o])
      <3> DEFINE books == g[k - 1]
      <3>1. k \in DOMAIN match.fills BY <1>5 DEF FillSeqs
      <3>2. Flips(books, o) = {} \/ ~setup.merge BY <1>3, <3>1
      <3> HIDE DEF books
      <3>3. Steady(books[h], orders[o].in, booked[o]) BY <3>2, SteadyWhen
      <3> QED BY <3>3 DEF books
    <2>4. h \in Holders BY <1>10
    <2>5. x = IF match.final THEN orders[o].in.volume - Traded(match.fills) ELSE 0 OBVIOUS
    <2> HIDE DEF x
    <2>6. Freed(book[h], g[Len(match.fills)][h], orders[o].in, booked[o], x + Traded(match.fills))
      BY <1>3, <2>2, <2>3, <2>4, <2>5, SimBooksFreed
    <2> QED BY <2>6
  <1> HIDE DEF left, fills, stage, x, y
  <1>12. SameRequests(orders, orders') /\ DueFalls(orders, notes, orders', notes', o, y)
    BY <1>4, <1>5, <1>6, <1>7, <1>8, QuietFalls
  <1>13. y <= y BY <1>6
  <1> QED BY <1>4, <1>6, <1>9, <1>11, <1>12, <1>13, OwedStep

LEMMA SimCancelOwed ==
  ASSUME TypeInv, TypeInv', BooksInv, OwedInv, NEW o \in DOMAIN orders, sim_cancel_order(o)
  PROVE  OwedInv'
  <1>1. setup.broker = "sim" /\ setup' = setup /\ notes' = notes /\ booked' = booked /\ odd \subseteq odd'
    BY DEF sim_cancel_order
  <1>2. CASE orders[o].left = 0
    <2>1. orders' = orders /\ book' = book BY <1>2 DEF sim_cancel_order
    <2>2. SameRequests(orders, orders') /\ Dues(orders', notes') = Dues(orders, notes) BY <1>1, <2>1 DEF SameRequests
    <2>3. \A h \in Told : SameShare(book'[h], book[h]) BY <2>1 DEF SameShare, SameVolume, SameFrozen
    <2> QED BY <1>1, <2>2, <2>3, OwedKept
  <1>3. CASE orders[o].left # 0 /\ orders[o].stage = "done"
    <2>1. <<"again", o>> \in odd' BY <1>3 DEF sim_cancel_order
    <2>2. Odd({"again"})' BY <2>1 DEF Odd
    <2> QED BY <2>2, OwedAgain
  <1>4. CASE orders[o].left # 0 /\ orders[o].stage # "done"
    <2> DEFINE in == orders[o].in
               left == orders[o].left
               fills == orders[o].fills
               stage == "done"
               final == TRUE
               frame == OrderFrame(o, in, left, final)
               to == "strategy"
    <2>1. /\ orders' = [orders EXCEPT ![o].stage = stage] /\ book' = update_book(book, frame, to)
          /\ Flips(book, o) \subseteq odd'
      BY <1>4 DEF sim_cancel_order
    <2>2. left \in Nat /\ fills \in FillSeqs /\ stage \in {"sent", "live", "done"} /\ in \in Requests /\ o \in Int
          /\ final \in BOOLEAN /\ book \in BookSets
      BY OrderType DEF TypeInv
    <2>3. orders' = Changed(o, left, fills, stage) BY <2>1, OrderType, ChangedIs
    <2>4. Rest(orders, notes, o) = Rest(orders', notes', o) + left
      <3> DEFINE ot == orders'
      <3>1. Rest(orders, notes, o) = left BY <1>4 DEF Rest
      <3>2. notes = <<>> BY <1>1 DEF TypeInv, NotesInv
      <3>3. ~Ending(notes, o) BY <3>2 DEF Ending
      <3>4. ot[o].stage = stage
        <4>1. ot = Changed(o, left, fills, stage) BY <2>3
        <4> HIDE DEF ot, left, fills, stage
        <4> QED BY <2>2, <4>1, OrderChanged
      <3>5. Rest(ot, notes, o) = 0
        <4> HIDE DEF ot
        <4> QED BY <3>3, <3>4 DEF Rest
      <3> QED BY <1>1, <2>2, <3>1, <3>5
    <2>5. odd' = {} \/ ~(setup.merge \/ Odd({"again"})')
             => \A h \in Told : Freed(book[h], book'[h], orders[o].in, booked[o], left)
      <3> SUFFICES ASSUME odd' = {} \/ ~setup.merge, NEW h \in Told
                   PROVE  Freed(book[h], book'[h], in, booked[o], left)
        OBVIOUS
      <3> DEFINE b == book[h]
                 c == book'[h]
                 x == left
                 opening == booked[o]
      <3>1. Flips(book, o) = {} \/ ~setup.merge BY <2>1
      <3>2. Steady(b, in, opening) /\ opening \in BOOLEAN BY <3>1, SteadyWhen
      <3>3. h \in Holders BY DEF Told, Holders
      <3>4. b \in Books BY <3>3, BookOf
      <3>a. x = IF final THEN left ELSE 0 OBVIOUS
      <3> HIDE DEF in, left, final, opening, x
      <3>5. Sound(frame) BY <2>2, SoundOrder
      <3>6. c = Apply(b, frame)
        <4> HIDE DEF frame, to
        <4> QED BY <2>1, <2>2, <3>3, <3>5, UpdateSound DEF to
      <3> HIDE DEF b, c
      <3>7. Freed(b, c, in, opening, x) BY <2>2, <3>2, <3>4, <3>6, <3>a, FreedOrder
      <3> QED BY <3>7 DEF b, c, x, opening
    <2> HIDE DEF in, left, fills, stage, final, frame, to
    <2>6. SameRequests(orders, orders') /\ DueFalls(orders, notes, orders', notes', o, left)
      BY <1>1, <2>2, <2>3, <2>4, QuietFalls
    <2>7. left <= left BY <2>2
    <2> QED BY <1>1, <2>2, <2>5, <2>6, <2>7, OwedStep
  <1> QED BY <1>2, <1>3, <1>4

LEMMA RefusedOwed ==
  ASSUME TypeInv, TypeInv', BooksInv, EndInv, OwedInv, NEW o \in DOMAIN orders, ctp_insert_refused(o)
  PROVE  OwedInv'
  <1> DEFINE in == orders[o].in
             left == orders[o].left
             fills == orders[o].fills
             stage == "done"
             final == TRUE
             frame == OrderFrame(o, in, left, final)
  <1>1. /\ setup.broker = "ctp" /\ setup' = setup /\ notes' = notes /\ booked' = booked /\ odd \subseteq odd'
        /\ orders' = [orders EXCEPT ![o].stage = stage] /\ book' = write_both(book, frame, TRUE)
        /\ Flips(book, o) \subseteq odd' /\ orders[o].stage = "sent"
    BY DEF ctp_insert_refused, Ctp
  <1>2. left \in Nat /\ fills \in FillSeqs /\ stage \in {"sent", "live", "done"} /\ in \in Requests /\ o \in Int
        /\ final \in BOOLEAN /\ book \in BookSets /\ TRUE \in BOOLEAN
    BY OrderType DEF TypeInv
  <1>3. orders' = Changed(o, left, fills, stage) BY <1>1, OrderType, ChangedIs
  <1>4. Rest(orders, notes, o) = Rest(orders', notes', o) + left
    <2> DEFINE ot == orders'
    <2>1. Rest(orders, notes, o) = left BY <1>1 DEF Rest
    <2>2. ~Ending(notes, o) BY RefusedEnd
    <2>3. ot[o].stage = stage
      <3>1. ot = Changed(o, left, fills, stage) BY <1>3
      <3> HIDE DEF ot, left, fills, stage
      <3>2. ChangedTo(ot, o, left, fills, stage) BY <1>2, <3>1, ChangedFacts
      <3> QED BY <3>2 DEF ChangedTo
    <2>4. Rest(ot, notes, o) = 0
      <3> HIDE DEF ot
      <3> QED BY <2>2, <2>3 DEF Rest
    <2> QED BY <1>1, <1>2, <2>1, <2>4
  <1>5. odd' = {} \/ ~(setup.merge \/ Odd({"again"})')
           => \A h \in Told : Freed(book[h], book'[h], orders[o].in, booked[o], left)
    <2> SUFFICES ASSUME odd' = {} \/ ~setup.merge, NEW h \in Told
                 PROVE  Freed(book[h], book'[h], in, booked[o], left)
      OBVIOUS
    <2> DEFINE b == book[h]
               c == book'[h]
               x == left
               opening == booked[o]
    <2>1. Flips(book, o) = {} \/ ~setup.merge BY <1>1
    <2>2. Steady(b, in, opening) /\ opening \in BOOLEAN BY <2>1, SteadyWhen
    <2>3. h = "strategy" /\ h \in Holders BY <1>1 DEF Told, Holders
    <2>4. b \in Books BY <2>3, BookOf
    <2>a. x = IF final THEN left ELSE 0 OBVIOUS
    <2> HIDE DEF in, left, final, opening, x
    <2>5. Sound(frame) BY <1>2, SoundOrder
    <2>6. c = Apply(b, frame)
      <3> HIDE DEF frame
      <3> QED BY <1>1, <1>2, <2>3, <2>5, WriteBothSound
    <2> HIDE DEF b, c
    <2>7. Freed(b, c, in, opening, x) BY <1>2, <2>2, <2>4, <2>6, <2>a, FreedOrder
    <2> QED BY <2>7 DEF b, c, x, opening
  <1> HIDE DEF in, left, fills, stage, final, frame
  <1>6. SameRequests(orders, orders') /\ DueFalls(orders, notes, orders', notes', o, left)
    BY <1>1, <1>2, <1>3, <1>4, QuietFalls
  <1>7. left <= left BY <1>2
  <1> QED BY <1>1, <1>2, <1>5, <1>6, <1>7, OwedStep

\* notifications of one order arrive: what is due of it stays
LEMMA MoreOwed ==
  ASSUME TypeInv, TypeInv', OwedInv, NEW o \in DOMAIN orders, NEW left \in Nat, NEW fills \in FillSeqs,
         NEW stage \in {"sent", "live", "done"}, orders' = Changed(o, left, fills, stage),
         setup' = setup, booked' = booked, book' = book, odd' = odd,
         NEW more \in Seq(NoteRecs), notes' = notes \o more, \A k \in DOMAIN more : more[k].o = o,
         orders[o].stage # "done", stage = "done" => Ending(more, o) \/ left = 0,
         orders[o].left = left + Lots(more, o)
  PROVE  OwedInv'
  <1> DEFINE ot == orders'
             nt == notes'
  <1>1. /\ ot \in Seq(OrderRecs) /\ DOMAIN ot = DOMAIN orders
        /\ \A i \in DOMAIN orders \ {o} : ot[i] = orders[i]
        /\ \A i \in DOMAIN orders : ot[i].in = orders[i].in
        /\ ot[o].left = left /\ ot[o].stage = stage
    <2>1. ot = Changed(o, left, fills, stage) OBVIOUS
    <2> HIDE DEF ot
    <2>2. ChangedTo(ot, o, left, fills, stage) BY <2>1, ChangedFacts
    <2> QED BY <2>2 DEF ChangedTo
  <1>2. nt = notes \o more OBVIOUS
  <1>3. orders \in Seq(OrderRecs) /\ notes \in Seq(NoteRecs) /\ nt \in Seq(NoteRecs) BY DEF TypeInv
  <1>4. \A i : /\ Ending(nt, i) <=> Ending(notes, i) \/ Ending(more, i)
               /\ Lots(nt, i) = Lots(notes, i) + Lots(more, i)
    BY <1>2, <1>3, EndingMore
  <1> HIDE DEF ot, nt
  <1>5. SameRequests(orders, ot) BY <1>1 DEF SameRequests
  <1>6. \A i \in DOMAIN orders : Lots(notes, i) \in Nat /\ Rest(orders, notes, i) \in Nat
                              /\ Due(orders, notes, i) = Rest(orders, notes, i) + Lots(notes, i)
    BY <1>3, DueType
  <1>7. \A i \in DOMAIN orders : i # o => Due(ot, nt, i) = Due(orders, notes, i)
    <2> TAKE i \in DOMAIN orders
    <2> HAVE i # o
    <2>1. ~Ending(more, i) /\ Lots(more, i) = 0 BY OtherNotes
    <2>2. Ending(nt, i) <=> Ending(notes, i) BY <1>4, <2>1
    <2>3. Lots(nt, i) = Lots(notes, i) BY <1>4, <1>6, <2>1
    <2> QED BY <1>1, <2>2, <2>3, DueBeside
  <1>8. Due(ot, nt, o) = Due(orders, notes, o)
    <2>1. Rest(orders, notes, o) = orders[o].left BY DEF Rest
    <2>2. Rest(ot, nt, o) = left BY <1>1, <1>4 DEF Rest
    <2>3. Due(ot, nt, o) = Rest(ot, nt, o) + Lots(nt, o) BY DEF Due
    <2>4. Lots(more, o) \in Nat BY LotsType
    <2> QED BY <2>1, <2>2, <2>3, <2>4, <1>4, <1>6
  <1>9. Dues(ot, nt) = Dues(orders, notes)
    <2>1. \A i \in DOMAIN orders : Due(ot, nt, i) = Due(orders, notes, i) BY <1>7, <1>8
    <2> QED BY <2>1, <1>1 DEF Dues
  <1>10. \A h \in Told : SameShare(book'[h], book[h]) BY DEF SameShare, SameVolume, SameFrozen
  <1>11. odd \subseteq odd' OBVIOUS
  <1> QED BY <1>5, <1>9, <1>10, <1>11, OwedKept DEF ot, nt

\* what one notification says
LEMMA OneLots ==
  ASSUME NEW n \in NoteRecs
  PROVE  /\ Lots(<< n >>, n.o) = IF n.on = "trade" THEN 1 ELSE 0
         /\ Ending(<< n >>, n.o) <=> IsEnd(n)
  <1> DEFINE W == LotOf(n.o)
             N == NoteRecs
  <1>1. W \in Weights(N) /\ W[n] = IF n.on = "trade" THEN 1 ELSE 0
    <2> DEFINE one == << n >>
    <2>1. one \in Seq(NoteRecs) OBVIOUS
    <2> HIDE DEF one
    <2>2. /\ LotOf(n.o) \in Weights(NoteRecs) /\ Lots(one, n.o) \in Nat
          /\ \A m \in NoteRecs : LotOf(n.o)[m] = IF m.on = "trade" /\ m.o = n.o THEN 1 ELSE 0
      BY <2>1, LotsType
    <2> QED BY <2>2
  <1>2. n \in N OBVIOUS
  <1>3. Ending(<< n >>, n.o) <=> IsEnd(n) BY DEF Ending
  <1> HIDE DEF W, N
  <1>4. SumOf(W, << n >>) = W[n] BY <1>1, <1>2, SumOfOne
  <1> QED BY <1>1, <1>3, <1>4 DEF Lots, W

LEMMA OneNoteOwed ==
  ASSUME TypeInv, TypeInv', OwedInv, NEW o \in DOMAIN orders, NEW n, NEW stage, OneNote(o, n, stage),
         orders[o].stage # "done", stage = "done" => IsEnd(n)
  PROVE  OwedInv'
  <1> DEFINE more == << n >>
             left == orders[o].left
             fills == orders[o].fills
  <1>1. /\ n \in NoteRecs /\ n.on # "trade" /\ n.o = o /\ stage \in {"sent", "live", "done"}
        /\ orders' = Changed(o, left, fills, stage) /\ notes' = notes \o more
        /\ setup' = setup /\ odd' = odd /\ book' = book /\ booked' = booked
    BY DEF OneNote, NoteSet
  <1>2. left \in Nat /\ fills \in FillSeqs BY OrderType
  <1>3. more \in Seq(NoteRecs) /\ \A k \in DOMAIN more : more[k].o = o BY <1>1
  <1>4. Lots(more, o) = 0 /\ (Ending(more, o) <=> IsEnd(n)) BY <1>1, OneLots
  <1>5. orders[o].left = left + Lots(more, o) BY <1>2, <1>4
  <1>6. stage = "done" => Ending(more, o) \/ left = 0 BY <1>4
  <1> HIDE DEF more, left, fills
  <1> QED BY <1>1, <1>2, <1>3, <1>5, <1>6, MoreOwed

LEMMA CtpNoteOwed ==
  ASSUME TypeInv, TypeInv', OwedInv, NEW o \in DOMAIN orders, ctp_insert_order(o) \/ ctp_reject(o) \/ ctp_cancel_order(o)
  PROVE  OwedInv'
  <1>1. CASE ctp_insert_order(o)
    <2> DEFINE n == Note("order", o, orders[o].left, FALSE, 0)
               stage == "live"
    <2>1. OneNote(o, n, stage) BY <1>1, OneNoteUnfold
    <2>2. orders[o].stage # "done" BY <1>1 DEF ctp_insert_order, Ctp
    <2>3. stage = "done" => IsEnd(n) OBVIOUS
    <2> HIDE DEF n, stage
    <2> QED BY <2>1, <2>2, <2>3, OneNoteOwed
  <1>2. CASE ctp_reject(o)
    <2> DEFINE n == Note("insert_rejected", o, 0, TRUE, 0)
               stage == "done"
    <2>1. OneNote(o, n, stage) BY <1>2, OneNoteUnfold
    <2>2. orders[o].stage # "done" BY <1>2 DEF ctp_reject, Ctp
    <2>3. IsEnd(n) BY DEF Note, IsEnd
    <2> HIDE DEF n, stage
    <2> QED BY <2>1, <2>2, <2>3, OneNoteOwed
  <1>3. CASE ctp_cancel_order(o)
    <2> DEFINE n == Note("order", o, orders[o].left, TRUE, 0)
               stage == "done"
    <2>1. OneNote(o, n, stage) BY <1>3, OneNoteUnfold
    <2>2. orders[o].stage # "done" BY <1>3 DEF ctp_cancel_order, Ctp
    <2>3. IsEnd(n) BY DEF Note, IsEnd
    <2> HIDE DEF n, stage
    <2> QED BY <2>1, <2>2, <2>3, OneNoteOwed
  <1> QED BY <1>1, <1>2, <1>3

LEMMA FillOwed ==
  ASSUME TypeInv, TypeInv', OwedInv, NEW o \in DOMAIN orders, ctp_fill(o)
  PROVE  OwedInv'
  <1> DEFINE left == orders[o].left - 1
  <1>1. PICK price : FillStep(o, price, left) BY FillUnfold
  <1> DEFINE fills == Append(orders[o].fills, <<1, price>>)
             stage == IF left = 0 THEN "done" ELSE "live"
             n == Note("order", o, left, left = 0, 0)
             m == Note("trade", o, left, FALSE, price)
             one == << n >>
             two == << m >>
             more == << n, m >>
  <1>2. /\ setup.broker = "ctp" /\ orders[o].stage = "live"
        /\ setup' = setup /\ booked' = booked /\ book' = book /\ odd' = odd
    BY DEF ctp_fill, Ctp
  <1>3. price \in Nat /\ orders' = Changed(o, left, fills, stage) /\ notes' = notes \o more
    BY <1>1 DEF FillStep
  <1>4. orders[o].left \in Nat /\ orders[o].left >= 1 /\ o \in Nat BY <1>2, OrderType
  <1>5. left \in Nat /\ orders[o].left = left + 1 BY <1>4
  <1>6. fills \in FillSeqs BY <1>3, OrderType, TradedAppend
  <1>7. stage \in {"sent", "live", "done"} /\ (stage = "done" => left = 0) OBVIOUS
  <1>8. /\ n \in NoteRecs /\ m \in NoteRecs /\ n.o = o /\ m.o = o /\ n.on = "order" /\ m.on = "trade"
    <2> DEFINE end == (left = 0)
    <2>1. end \in BOOLEAN /\ n = Note("order", o, left, end, 0) OBVIOUS
    <2> HIDE DEF end, left
    <2> QED BY <1>3, <1>4, <1>5, <2>1 DEF Note, NoteRecs
  <1>a. n.on # "trade" BY <1>8
  <1> HIDE DEF left, fills, stage, n, m
  <1>9. one \in Seq(NoteRecs) /\ two \in Seq(NoteRecs) /\ more = one \o two BY <1>8, PairIs
  <1>10. more \in Seq(NoteRecs) /\ \A k \in DOMAIN more : more[k].o = o BY <1>8
  <1>11. Lots(one, o) = 0 /\ Lots(two, o) = 1 BY <1>8, <1>a, OneLots
  <1> HIDE DEF one, two, more
  <1>12. Lots(more, o) = 1
    <2>1. Lots(one \o two, o) = Lots(one, o) + Lots(two, o) BY <1>9, EndingMore
    <2> QED BY <2>1, <1>9, <1>11
  <1>13. orders[o].left = left + Lots(more, o) /\ orders[o].stage # "done" BY <1>2, <1>5, <1>12
  <1> QED BY <1>2, <1>3, <1>5, <1>6, <1>7, <1>10, <1>13, MoreOwed

LEMMA ReqOwed ==
  ASSUME TypeInv, OwedInv, ctp_req_order_trade
  PROVE  OwedInv'
  <1> DEFINE A == OrderAnswers
             B == FlattenSeq(TradeAnswers)
             more == A \o B
             all == notes'
  <1>1. notes' = (notes \o A) \o B BY DEF ctp_req_order_trade, OrderAnswers, TradeAnswers
  <1>2. setup' = setup /\ orders' = orders /\ booked' = booked /\ book' = book /\ odd' = odd
    BY DEF ctp_req_order_trade
  <1>3. A \in Seq(Answers) /\ B \in Seq(Answers) BY AnswersType
  <1>4. notes \in Seq(NoteRecs) BY DEF TypeInv
  <1> HIDE DEF A, B
  <1>5. Answers \subseteq NoteRecs /\ \A n \in Answers : n.on \in {"qry_order", "qry_trade"} BY DEF Answers
  <1>6. more \in Seq(Answers) BY <1>3, ConcatOf
  <1>7. all = notes \o more
    <2>1. A \in Seq(NoteRecs) /\ B \in Seq(NoteRecs) BY <1>3, <1>5
    <2>2. (notes \o A) \o B = notes \o (A \o B) BY <1>4, <2>1, ConcatAssoc
    <2> QED BY <1>1, <2>2
  <1> HIDE DEF more, all
  <1>8. more \in Seq(NoteRecs) BY <1>5, <1>6
  <1>9. \A k \in DOMAIN more : more[k].on \in {"qry_order", "qry_trade"}
    <2>1. \A k \in DOMAIN more : more[k] \in Answers BY <1>6
    <2> QED BY <1>5, <2>1
  <1>10. ASSUME NEW i \in DOMAIN orders PROVE Due(orders, all, i) = Due(orders, notes, i)
    <2> DEFINE W == LotOf(i)
               N == NoteRecs
    <2>1. ~Ending(more, i) BY <1>9 DEF Ending, IsEnd
    <2>2. /\ Ending(all, i) <=> Ending(notes, i) \/ Ending(more, i)
          /\ Lots(all, i) = Lots(notes, i) + Lots(more, i)
      BY <1>4, <1>7, <1>8, EndingMore
    <2>3. /\ W \in Weights(N) /\ Lots(more, i) \in Nat
          /\ \A n \in N : W[n] = IF n.on = "trade" /\ n.o = i THEN 1 ELSE 0
      BY <1>8, LotsType
    <2>4. \A k \in 1 .. Len(more) : W[more[k]] = 0
      <3> TAKE k \in 1 .. Len(more)
      <3>1. more[k] \in N /\ k \in DOMAIN more BY <1>8
      <3>2. more[k].on # "trade" BY <3>1, <1>9
      <3> QED BY <2>3, <3>1, <3>2
    <2>5. more \in Seq(N) BY <1>8
    <2> HIDE DEF W, N
    <2>6. SumOf(W, more) = 0 BY <2>3, <2>4, <2>5, SumOfZero
    <2>7. Lots(more, i) = 0 BY <2>6 DEF Lots, W
    <2>8. Lots(notes, i) \in Nat BY <1>4, LotsType
    <2>9. Lots(all, i) = Lots(notes, i) BY <2>2, <2>7, <2>8
    <2> QED BY <2>1, <2>2, <2>9, DueBeside
  <1>11. Dues(orders, all) = Dues(orders, notes) BY <1>10 DEF Dues
  <1>12. Dues(orders', notes') = Dues(orders, notes) BY <1>2, <1>11 DEF all
  <1>13. \A h \in Told : SameShare(book'[h], book[h]) BY <1>2 DEF SameShare, SameVolume, SameFrozen
  <1>14. odd \subseteq odd' /\ SameRequests(orders, orders') BY <1>2 DEF SameRequests
  <1> QED BY <1>2, <1>12, <1>13, <1>14, OwedKept

\* what the first notification takes from what is due
Taken(note) == IF note.on = "trade" THEN 1 ELSE IF IsEnd(note) THEN orders[note.o].left ELSE 0

LEMMA HeadDue ==
  ASSUME TypeInv, EndInv, ctp_handle, NEW note, note = notes[1], NEW y, y = Taken(note)
  PROVE  /\ y \in Nat /\ SameRequests(orders, orders')
         /\ DueFalls(orders, notes, orders', notes', note.o, y)
         /\ IsEnd(note) => /\ note.o \in mapped
                           /\ note.left = IF note.on = "order" THEN orders[note.o].left ELSE 0
         /\ note.on = "insert_rejected" => IsEnd(note)
  <1> DEFINE o == note.o
             nt == notes'
  <1>1. /\ notes # <<>> /\ nt = Tail(notes) /\ orders' = orders /\ setup.broker = "ctp"
        /\ note \in NoteRecs /\ o \in DOMAIN orders
    BY HandleUnfold
  <1>2. notes \in Seq(NoteRecs) /\ orders \in Seq(OrderRecs) BY DEF TypeInv
  <1>3. orders[o].left \in Nat /\ orders[o].stage \in {"sent", "live", "done"} BY <1>1, OrderType
  <1>4. 1 \in DOMAIN notes BY <1>1, <1>2
  <1>5. EndsRight(orders, mapped, notes) BY <1>1 DEF EndInv
  <1>6. /\ IsEnd(note) => /\ o \in mapped /\ note.left = IF note.on = "order" THEN orders[o].left ELSE 0
        /\ note.on = "insert_rejected" => IsEnd(note)
    BY <1>4, <1>5 DEF EndsRight, IsEnd
  <1>7. IsEnd(note) => orders[o].stage = "done" /\ ~Ending(Tail(notes), o) /\ note.on # "trade"
    <2> SUFFICES ASSUME IsEnd(note) PROVE orders[o].stage = "done" /\ ~Ending(Tail(notes), o) /\ note.on # "trade"
      OBVIOUS
    <2>1. orders[o].stage # "sent"
      <3>1. note.on \notin {"qry_order", "qry_trade"} BY DEF IsEnd
      <3> QED BY <1>1, <1>4, <1>5, <3>1 DEF EndsRight
    <2>2. Ending(notes, o) BY <1>4 DEF Ending
    <2>3. orders[o].stage # "live" BY <1>1, <1>5, <2>2 DEF EndsRight
    <2> DEFINE mq == IF IsEnd(notes[1]) THEN mapped \ {notes[1].o} ELSE mapped
    <2>4. mq = IF IsEnd(notes[1]) THEN mapped \ {notes[1].o} ELSE mapped OBVIOUS
    <2> HIDE DEF mq
    <2>5. IsEnd(notes[1]) => ~Ending(Tail(notes), notes[1].o) BY <1>1, <1>2, <1>5, <2>4, EndsTail
    <2> QED BY <1>3, <2>1, <2>3, <2>5 DEF IsEnd
  <1>8. \A i : /\ Ending(notes, i) <=> (o = i /\ IsEnd(note)) \/ Ending(nt, i)
               /\ Lots(notes, i) = (IF note.on = "trade" /\ o = i THEN 1 ELSE 0) + Lots(nt, i)
               /\ nt \in Seq(NoteRecs)
    BY <1>1, <1>2, EndingHead
  <1>a. nt \in Seq(NoteRecs) BY <1>8
  <1>b. note = notes[1] OBVIOUS
  <1>9. y \in Nat BY <1>3 DEF Taken
  <1> HIDE DEF o, nt
  <1>10. \A i \in DOMAIN orders : Lots(nt, i) \in Nat /\ Rest(orders, nt, i) \in Nat BY <1>2, <1>a, DueType
  <1>11. ASSUME NEW i \in DOMAIN orders, i # o PROVE Due(orders, nt, i) = Due(orders, notes, i)
    <2>1. Ending(nt, i) <=> Ending(notes, i) BY <1>8, <1>11
    <2>2. Lots(nt, i) = Lots(notes, i) BY <1>8, <1>10, <1>11
    <2> QED BY <2>1, <2>2, DueBeside
  <1>12. Due(orders, notes, o) = Due(orders, nt, o) + y
    <2>1. Lots(nt, o) \in Nat /\ Rest(orders, nt, o) \in Nat BY <1>1, <1>10
    <2>2. CASE note.on = "trade"
      <3>1. ~IsEnd(note) BY <2>2 DEF IsEnd
      <3>2. Rest(orders, notes, o) = Rest(orders, nt, o) BY <1>8, <3>1 DEF Rest
      <3>3. Lots(notes, o) = 1 + Lots(nt, o) BY <1>8, <2>2
      <3>4. y = 1 BY <2>2 DEF Taken
      <3> QED BY <2>1, <3>2, <3>3, <3>4 DEF Due
    <2>3. CASE note.on # "trade" /\ IsEnd(note)
      <3>1. Rest(orders, notes, o) = orders[o].left BY <1>8, <2>3 DEF Rest
      <3>2. Rest(orders, nt, o) = 0 BY <1>1, <1>7, <2>3 DEF Rest, o
      <3>3. Lots(notes, o) = 0 + Lots(nt, o) BY <1>8, <2>3
      <3>4. y = orders[o].left BY <2>3 DEF Taken, o
      <3> QED BY <1>3, <2>1, <3>1, <3>2, <3>3, <3>4 DEF Due
    <2>4. CASE note.on # "trade" /\ ~IsEnd(note)
      <3>1. Rest(orders, notes, o) = Rest(orders, nt, o) BY <1>8, <2>4 DEF Rest
      <3>2. Lots(notes, o) = 0 + Lots(nt, o) BY <1>8, <2>4
      <3>3. y = 0 BY <2>4 DEF Taken
      <3> QED BY <2>1, <3>1, <3>2, <3>3 DEF Due
    <2> QED BY <2>2, <2>3, <2>4
  <1>13. DueFalls(orders, notes, orders, nt, o, y) BY <1>11, <1>12 DEF DueFalls
  <1>14. SameRequests(orders, orders) BY DEF SameRequests
  <1> QED BY <1>1, <1>6, <1>9, <1>13, <1>14 DEF o, nt

\* what it frees in the strategy's book
Unbound(note) ==
  IF note.o \notin mapped THEN 0
  ELSE IF note.on = "trade" THEN 1
  ELSE IF note.on = "order" /\ note.final THEN orders[note.o].left ELSE 0

LEMMA HeadFreed ==
  ASSUME TypeInv, EndInv, ctp_handle, NEW note, note = notes[1], NEW x, x = Unbound(note),
         ~(note.on = "qry_trade" /\ note.o \in mapped), ~(note.on = "qry_order" /\ note.final /\ note.o \in mapped),
         NEW opening \in BOOLEAN,
         note.o \in mapped => Steady(book["strategy"], orders[note.o].in, opening)
  PROVE  x \in Nat /\ Freed(book["strategy"], book'["strategy"], orders[note.o].in, opening, x)
  <1> DEFINE b == book["strategy"]
             c == book'["strategy"]
             frame == ReportFrame(note)
             o == note.o
             id == resolve_order_id(o)
             in == orders[o].in
             left == note.left
             final == note.final
             price == note.price
             y == Taken(note)
  <1>1. /\ notes # <<>> /\ setup.broker = "ctp" /\ note \in NoteRecs /\ o \in DOMAIN orders
        /\ note.on \in {"trade", "qry_trade"} => frame = TradeFrame(id, in, 1, price)
        /\ note.on \notin {"trade", "qry_trade"} => frame = OrderFrame(id, in, left, final)
    BY HandleUnfold
  <1>2. c = IF o \in mapped THEN Apply(b, frame) ELSE b BY HandleTold
  <1>3. b \in Books
    <2>1. "strategy" \in Holders BY DEF Holders
    <2> QED BY <2>1, BookOf
  <1>4. in \in Requests /\ o \in Int /\ orders[o].left \in Nat BY <1>1, OrderType
  <1>5. left \in Nat /\ final \in BOOLEAN /\ price \in Nat BY <1>1 DEF NoteRecs
  <1>6. note.on \in {"order", "trade", "insert_rejected", "qry_order", "qry_trade"} BY <1>1 DEF NoteRecs
  <1>7. o \in mapped => id = o /\ Steady(b, in, opening) BY DEF resolve_order_id
  <1>8. /\ IsEnd(note) => left = IF note.on = "order" THEN orders[o].left ELSE 0
        /\ note.on = "insert_rejected" => IsEnd(note)
    <2>1. y = Taken(note) OBVIOUS
    <2> HIDE DEF y
    <2> QED BY <2>1, HeadDue
  <1>9. x \in Nat BY <1>4 DEF Unbound
  <1> HIDE DEF b, c, frame, id, in, left, final, price
  <1>10. CASE o \notin mapped
    <2>1. x = 0 BY <1>10 DEF Unbound
    <2>2. Freed(b, b, in, opening, 0) BY <1>3, <1>4, FreedNone
    <2>3. c = b BY <1>2, <1>10
    <2> QED BY <1>9, <2>1, <2>2, <2>3 DEF b, c, in
  <1>11. CASE o \in mapped /\ note.on = "trade"
    <2> DEFINE volume == 1
    <2>1. c = Apply(b, TradeFrame(id, in, volume, price)) /\ volume \in Nat /\ x = volume
      BY <1>1, <1>2, <1>11 DEF Unbound
    <2>2. id \in b.known
      <3>1. Announced(mapped, notes, book["strategy"].known) BY <1>1 DEF EndInv
      <3>2. 1 \in DOMAIN notes BY <1>1 DEF TypeInv
      <3>3. ~(\E j \in DOMAIN notes : j < 1)
        <4>1. \A j \in DOMAIN notes : j \in Nat /\ j >= 1 BY DEF TypeInv
        <4> QED BY <4>1
      <3>4. o \in b.known BY <3>1, <3>2, <3>3, <1>11 DEF Announced, b
      <3> QED BY <3>4, <1>7, <1>11
    <2>3. id \in Int /\ Steady(b, in, opening) BY <1>4, <1>7, <1>11
    <2> HIDE DEF volume
    <2>4. Freed(b, c, in, opening, volume) BY <1>3, <1>4, <1>5, <2>1, <2>2, <2>3, FreedTrade
    <2> QED BY <1>9, <2>1, <2>4 DEF b, c, in
  <1>12. CASE o \in mapped /\ note.on # "trade"
    <2> DEFINE z == IF final THEN left ELSE 0
    <2>1. c = Apply(b, OrderFrame(id, in, left, final)) BY <1>1, <1>2, <1>6, <1>12
    <2>2. id \in Int /\ Steady(b, in, opening) BY <1>4, <1>7, <1>12
    <2>3. z = IF final THEN left ELSE 0 OBVIOUS
    <2>4. x = z
      <3>1. CASE note.on = "order" /\ note.final
        <4>1. IsEnd(note) BY <3>1 DEF IsEnd
        <4>2. left = orders[o].left BY <1>8, <3>1, <4>1
        <4>3. x = orders[o].left BY <1>12, <3>1 DEF Unbound
        <4>4. z = left BY <3>1 DEF final
        <4> QED BY <4>2, <4>3, <4>4
      <3>2. CASE note.on = "insert_rejected"
        <4>1. left = 0 BY <1>8, <3>2
        <4>2. x = 0 BY <3>2 DEF Unbound
        <4> QED BY <4>1, <4>2
      <3>3. CASE (note.on = "order" \/ note.on = "qry_order") /\ ~note.final
        <4>1. x = 0 BY <3>3 DEF Unbound
        <4>2. z = 0 BY <3>3 DEF final
        <4> QED BY <4>1, <4>2
      <3> QED BY <1>6, <1>12, <3>1, <3>2, <3>3
    <2> HIDE DEF z
    <2>5. Freed(b, c, in, opening, z) BY <1>3, <1>4, <1>5, <2>1, <2>2, <2>3, FreedOrder
    <2> QED BY <1>9, <2>4, <2>5 DEF b, c, in
  <1> QED BY <1>10, <1>11, <1>12

LEMMA HandleOwed ==
  ASSUME TypeInv, TypeInv', BooksInv, EndInv, OwedInv, ctp_handle
  PROVE  OwedInv'
  <1> DEFINE note == notes[1]
             o == note.o
             x == Unbound(note)
             y == Taken(note)
             opening == booked[o]
             in == orders[o].in
             b == book["strategy"]
             c == book'["strategy"]
  <1>1. note = notes[1] /\ x = Unbound(note) /\ y = Taken(note) OBVIOUS
  <1> HIDE DEF note, x, y
  <1>2. /\ setup' = setup /\ booked' = booked /\ odd' = odd \cup Oddities(note) /\ setup.broker = "ctp"
        /\ o \in DOMAIN orders /\ note \in NoteRecs
    BY <1>1, HandleUnfold
  <1>3. odd \subseteq odd' BY <1>2
  <1>4. note.on \in {"order", "trade", "insert_rejected", "qry_order", "qry_trade"} BY <1>2 DEF NoteRecs
  <1>5. /\ y \in Nat /\ SameRequests(orders, orders')
        /\ DueFalls(orders, notes, orders', notes', o, y)
        /\ IsEnd(note) => o \in mapped
        /\ note.on = "insert_rejected" => IsEnd(note)
    BY <1>1, HeadDue
  <1>6. Told = {"strategy"} BY <1>2 DEF Told
  <1>7. CASE o \in mapped /\ note.on \in {"qry_order", "qry_trade"} /\ (note.final \/ note.on = "qry_trade")
    <2>1. <<"again", o>> \in Oddities(note) BY <1>7 DEF Oddities
    <2>2. Odd({"again"})' BY <1>2, <2>1 DEF Odd
    <2> QED BY <2>2, OwedAgain
  <1>8. CASE ~(o \in mapped /\ note.on \in {"qry_order", "qry_trade"} /\ (note.final \/ note.on = "qry_trade"))
    <2>1. /\ ~(note.on = "qry_trade" /\ note.o \in mapped)
          /\ ~(note.on = "qry_order" /\ note.final /\ note.o \in mapped)
      BY <1>8
    <2>2. x <= y /\ x \in Nat
      <3>1. orders[o].left \in Nat BY <1>2, OrderType
      <3> QED BY <1>1, <3>1 DEF Unbound, Taken, IsEnd
    <2>3. odd' = {} => x = y
      <3>1. note.on = "trade" /\ o \notin mapped => <<"late", o>> \in Oddities(note) BY DEF Oddities
      <3>2. note.on = "insert_rejected" /\ o \in mapped => <<"kept", o>> \in Oddities(note) BY DEF Oddities
      <3>3. odd' = {} => ~(note.on = "trade" /\ o \notin mapped) /\ ~(note.on = "insert_rejected" /\ o \in mapped)
        BY <1>2, <3>1, <3>2
      <3>4. ~(note.on = "trade" /\ o \notin mapped) /\ ~(note.on = "insert_rejected" /\ o \in mapped) => x = y
        BY <1>1, <1>4, <1>5 DEF Unbound, Taken, IsEnd
      <3> QED BY <3>3, <3>4
    <2>4. ASSUME odd' = {} \/ ~setup.merge PROVE Freed(b, c, in, opening, x)
      <3>1. "strategy" \in Told BY <1>6
      <3>2. o \in mapped => Flips(book, o) \subseteq Oddities(note) BY DEF Oddities
      <3>3. o \in mapped => Flips(book, o) = {} \/ ~setup.merge BY <1>2, <2>4, <3>2
      <3>4. o \in mapped => Steady(book["strategy"], orders[note.o].in, opening) BY <1>2, <3>1, <3>3, SteadyWhen
      <3>5. opening \in BOOLEAN
        <4>1. orders \in Seq(OrderRecs) /\ booked \in Seq(BOOLEAN) /\ Len(booked) = Len(orders) BY DEF TypeInv
        <4> QED BY <4>1, <1>2
      <3> HIDE DEF opening
      <3>6. x \in Nat /\ Freed(book["strategy"], book'["strategy"], orders[note.o].in, opening, x)
        BY <1>1, <2>1, <3>4, <3>5, HeadFreed
      <3> QED BY <3>6
    <2>5. odd' = {} \/ ~(setup.merge \/ Odd({"again"})')
            => \A h \in Told : Freed(book[h], book'[h], orders[o].in, booked[o], x)
      BY <1>6, <2>4
    <2> HIDE DEF o
    <2> QED BY <1>2, <1>3, <1>5, <2>2, <2>3, <2>5, OwedStep
  <1> QED BY <1>7, <1>8

\* one more order is due
Grows(n, R, D, Q, E) == /\ R \in [1 .. n -> Nat] /\ D \in [1 .. n -> Nat]
                        /\ Q \in [1 .. n + 1 -> Nat] /\ E \in [1 .. n + 1 -> Nat]
                        /\ \A i \in 1 .. n : Q[i] = R[i] /\ E[i] = D[i]

Grown(n, R, D, Q, E, v) == /\ Weighted(R, D) \in Nat
                           /\ Weighted(Q, E) = Weighted(R, D) + Q[n + 1] * v
                           /\ Q[n + 1] = 0 => Weighted(Q, E) = Weighted(R, D)
                           /\ Q[n + 1] = 1 => Weighted(Q, E) = Weighted(R, D) + v

LEMMA RateGrown ==
  ASSUME NEW n \in Nat, NEW R, NEW D, NEW Q, NEW E, Grows(n, R, D, Q, E), NEW v \in Nat, E[n + 1] = v
  PROVE  Grown(n, R, D, Q, E, v)
  <1>1. /\ R \in [1 .. n -> Nat] /\ D \in [1 .. n -> Nat]
        /\ Q \in [1 .. n + 1 -> Nat] /\ E \in [1 .. n + 1 -> Nat]
        /\ \A i \in 1 .. n : Q[i] = R[i] /\ E[i] = D[i]
    BY DEF Grows
  <1>2. Weighted(Q, E) = Weighted(R, D) + Q[n + 1] * E[n + 1] BY <1>1, WeightedMore
  <1>3. Weighted(R, D) \in Nat BY <1>1, WeightedNat
  <1> DEFINE w == Weighted(R, D)
             t == Weighted(Q, E)
             q == Q[n + 1]
  <1>4. t = w + q * v /\ w \in Nat BY <1>2, <1>3
  <1> HIDE DEF w, t, q
  <1>5. q = 0 => t = w
    <2> SUFFICES ASSUME q = 0 PROVE t = w OBVIOUS
    <2>1. q * v = 0 OBVIOUS
    <2> QED BY <2>1, <1>4
  <1>6. q = 1 => t = w + v
    <2> SUFFICES ASSUME q = 1 PROVE t = w + v OBVIOUS
    <2>1. q * v = v OBVIOUS
    <2> QED BY <2>1, <1>4
  <1> QED BY <1>4, <1>5, <1>6 DEF Grown, w, t, q

\* one order joins the others, all of it due
Joins(os, bk, ns, ot, bt, in, x) ==
  /\ os \in Seq(OrderRecs) /\ bk \in Seq(BOOLEAN) /\ Len(bk) = Len(os) /\ ns \in Seq(NoteRecs)
  /\ ot \in Seq(OrderRecs) /\ bt \in Seq(BOOLEAN) /\ Len(bt) = Len(ot) /\ Len(ot) = Len(os) + 1
  /\ in \in Requests /\ x \in BOOLEAN
  /\ \A i \in 1 .. Len(os) : ot[i] = os[i] /\ bt[i] = bk[i]
  /\ ot[Len(os) + 1].in = in /\ ot[Len(os) + 1].left = in.volume /\ ot[Len(os) + 1].stage = "sent"
  /\ bt[Len(os) + 1] = x
  /\ \A i \in DOMAIN ns : ns[i].o \in DOMAIN os

LEMMA JoinDue ==
  ASSUME NEW os, NEW bk, NEW ns, NEW ot, NEW bt, NEW in, NEW x, Joins(os, bk, ns, ot, bt, in, x)
  PROVE  /\ \A i \in 1 .. Len(os) : Dues(ot, ns)[i] = Dues(os, ns)[i]
         /\ Dues(ot, ns)[Len(os) + 1] = in.volume
  <1> DEFINE n == Len(os)
  <1>1. /\ os \in Seq(OrderRecs) /\ ot \in Seq(OrderRecs) /\ ns \in Seq(NoteRecs) /\ Len(ot) = n + 1
        /\ in \in Requests /\ \A i \in 1 .. n : ot[i] = os[i]
        /\ ot[n + 1].left = in.volume /\ ot[n + 1].stage = "sent"
        /\ \A i \in DOMAIN ns : ns[i].o \in DOMAIN os
    BY DEF Joins
  <1>2. n \in Nat /\ DOMAIN os = 1 .. n /\ DOMAIN ot = 1 .. (n + 1) BY <1>1
  <1>3. /\ \A i \in 1 .. n : Dues(os, ns)[i] = Due(os, ns, i)
        /\ \A i \in 1 .. (n + 1) : Dues(ot, ns)[i] = Due(ot, ns, i)
    BY <1>2 DEF Dues
  <1>4. \A i \in 1 .. n : Due(ot, ns, i) = Due(os, ns, i) BY <1>1, DueBeside
  <1> DEFINE new == n + 1
             W == LotOf(new)
             N == NoteRecs
  <1>5. Lots(ns, new) = 0
    <2>1. new \notin DOMAIN os BY <1>2
    <2>2. W \in Weights(N) /\ Lots(ns, new) \in Nat
          /\ \A m \in N : W[m] = IF m.on = "trade" /\ m.o = new THEN 1 ELSE 0
      <3> HIDE DEF new
      <3> QED BY <1>1, LotsType
    <2>3. \A k \in 1 .. Len(ns) : W[ns[k]] = 0
      <3> TAKE k \in 1 .. Len(ns)
      <3>1. ns[k] \in N /\ k \in DOMAIN ns BY <1>1
      <3>2. ns[k].o # new BY <1>1, <2>1, <3>1
      <3> HIDE DEF new, W
      <3> QED BY <2>2, <3>1, <3>2
    <2>4. ns \in Seq(N) BY <1>1
    <2> HIDE DEF W, N, new
    <2>5. SumOf(W, ns) = 0 BY <2>2, <2>3, <2>4, SumOfZero
    <2> QED BY <2>5 DEF Lots, W
  <1>6. Due(ot, ns, new) = in.volume
    <2>1. Rest(ot, ns, new) = in.volume BY <1>1 DEF Rest
    <2>2. in.volume \in Nat BY <1>1, RequestType
    <2> QED BY <1>5, <2>1, <2>2 DEF Due
  <1>7. new \in 1 .. (n + 1) BY <1>2
  <1> QED BY <1>3, <1>4, <1>6, <1>7

LEMMA JoinGrows ==
  ASSUME NEW os, NEW bk, NEW ns, NEW ot, NEW bt, NEW in, NEW x, Joins(os, bk, ns, ot, bt, in, x),
         NEW d \in Directions, NEW R, NEW Q,
         \/ R = CashRates(os, bk) /\ Q = CashRates(ot, bt)
         \/ R = VolumeRates(os, bk, d) /\ Q = VolumeRates(ot, bt, d)
         \/ R = OldRates(os, bk, d) /\ Q = OldRates(ot, bt, d)
  PROVE  Grown(Len(os), R, Dues(os, ns), Q, Dues(ot, ns), in.volume)
  <1> DEFINE n == Len(os)
             D == Dues(os, ns)
             E == Dues(ot, ns)
             v == in.volume
  <1>1. /\ os \in Seq(OrderRecs) /\ ot \in Seq(OrderRecs) /\ ns \in Seq(NoteRecs) /\ Len(ot) = n + 1
        /\ bk \in Seq(BOOLEAN) /\ Len(bk) = Len(os) /\ bt \in Seq(BOOLEAN) /\ Len(bt) = Len(ot)
        /\ in \in Requests /\ \A i \in 1 .. n : ot[i] = os[i] /\ bt[i] = bk[i]
    BY DEF Joins
  <1>2. n \in Nat /\ DOMAIN os = 1 .. n /\ DOMAIN ot = 1 .. (n + 1) BY <1>1
  <1>3. (\A i \in 1 .. n : E[i] = D[i]) /\ E[n + 1] = v BY JoinDue
  <1>4. D \in [1 .. n -> Nat] BY <1>1, DueType
  <1>5. E \in [1 .. Len(ot) -> Nat]
    <2> HIDE DEF E
    <2> QED BY <1>1, DueType DEF E
  <1>6. v \in Nat BY <1>1, RequestType
  <1> HIDE DEF D, E, v
  <1>7. /\ R \in [1 .. n -> Nat]
        /\ Q \in [1 .. Len(ot) -> Nat]
    <2>1. /\ CashRates(os, bk) \in [1 .. Len(os) -> Nat]
          /\ VolumeRates(os, bk, d) \in [1 .. Len(os) -> Nat]
          /\ OldRates(os, bk, d) \in [1 .. Len(os) -> Nat]
      BY <1>1, RatesType
    <2>2. /\ CashRates(ot, bt) \in [1 .. Len(ot) -> Nat]
          /\ VolumeRates(ot, bt, d) \in [1 .. Len(ot) -> Nat]
          /\ OldRates(ot, bt, d) \in [1 .. Len(ot) -> Nat]
      BY <1>1, RatesType
    <2> QED BY <2>1, <2>2
  <1>8. \A i \in 1 .. n : Q[i] = R[i]
    <2>1. \A i \in 1 .. n : /\ CashRates(ot, bt)[i] = CashRates(os, bk)[i]
                            /\ VolumeRates(ot, bt, d)[i] = VolumeRates(os, bk, d)[i]
                            /\ OldRates(ot, bt, d)[i] = OldRates(os, bk, d)[i]
      BY <1>1, <1>2 DEF CashRates, VolumeRates, OldRates
    <2> QED BY <2>1
  <1> HIDE DEF n
  <1>9. Grows(n, R, D, Q, E) BY <1>1, <1>3, <1>4, <1>5, <1>7, <1>8 DEF Grows
  <1>10. Grown(n, R, D, Q, E, v) BY <1>2, <1>3, <1>6, <1>9, RateGrown
  <1> QED BY <1>10 DEF n, D, E, v

\* a book that freezes for the order keeps freezing what is due
LEMMA InputOwed ==
  ASSUME NEW os, NEW bk, NEW ns, NEW ot, NEW bt, NEW in, NEW x, Joins(os, bk, ns, ot, bt, in, x),
         NEW b \in Books, x = (get_offset(b, in) = "Open"), NEW c, c = apply_order_input(b, in)
  PROVE  /\ OwedBy(os, bk, Dues(os, ns), b) => OwedBy(ot, bt, Dues(ot, ns), c)
         /\ CoveredBy(os, bk, Dues(os, ns), b)
            /\ (x \/ b.pos[CloseSide(in)].volume - b.pos[CloseSide(in)].frozen_total >= in.volume)
            => CoveredBy(ot, bt, Dues(ot, ns), c)
  <1> DEFINE n == Len(os)
             D == Dues(os, ns)
             E == Dues(ot, ns)
             v == in.volume
             offset == get_offset(b, in)
             side == get_direction(in.side, offset)
             new == ot[n + 1]
  <1>1. /\ in \in Requests /\ x \in BOOLEAN /\ new.in = in /\ bt[n + 1] = x
        /\ ot \in Seq(OrderRecs) /\ Len(ot) = n + 1 /\ n \in Nat
    BY DEF Joins
  <1>2. v \in Nat /\ in.price \in Nat BY <1>1, RequestType
  <1>3. offset = get_offset(b, in) /\ side = get_direction(in.side, offset) OBVIOUS
  <1>4. x = (offset = "Open") OBVIOUS
  <1>5. offset # "Open" => side = CloseSide(in) BY <1>1, ClosingOffset
  <1>6. offset # "Open" /\ in.offset = "CloseToday" => offset = "CloseToday" BY DEF get_offset
  <1>7. n + 1 \in DOMAIN ot BY <1>1
  <1> HIDE DEF offset, side, n
  <1>8. /\ c \in Books /\ SameVolume(c, b)
        /\ offset = "Open" => /\ c.frozen_cash = b.frozen_cash + in.price * in.volume
                              /\ c.pos = b.pos
        /\ offset # "Open" => /\ c.frozen_cash = b.frozen_cash /\ SameElse(c, b, side)
                              /\ c.pos[side].frozen_total = b.pos[side].frozen_total + in.volume
                              /\ c.pos[side].frozen_yesterday <= b.pos[side].frozen_yesterday + in.volume
                              /\ offset = "CloseToday" => c.pos[side].frozen_yesterday = b.pos[side].frozen_yesterday
    BY <1>1, <1>3, InputEffect
  <1>a. CloseSide(in) \in Directions BY DEF CloseSide, Directions
  <1>9. ASSUME OwedBy(os, bk, D, b) PROVE c.frozen_cash = Weighted(CashRates(ot, bt), E)
    <2> DEFINE R == CashRates(os, bk)
               Q == CashRates(ot, bt)
               d == CloseSide(in)
    <2>1. Grown(n, R, D, Q, E, v) BY <1>a, JoinGrows DEF n
    <2>2. Q[n + 1] = IF x THEN in.price ELSE 0 BY <1>1, <1>7 DEF CashRates
    <2>3. b.frozen_cash = Weighted(R, D) BY <1>9 DEF OwedBy
    <2> HIDE DEF R, Q, D, E
    <2>4. CASE offset = "Open"
      <3>1. Weighted(Q, E) = Weighted(R, D) + Q[n + 1] * v BY <2>1 DEF Grown
      <3>2. Q[n + 1] = in.price BY <1>4, <2>2, <2>4
      <3>3. c.frozen_cash = b.frozen_cash + in.price * in.volume BY <1>8, <2>4
      <3> QED BY <2>3, <3>1, <3>2, <3>3 DEF Q
    <2>5. CASE offset # "Open"
      <3>1. Q[n + 1] = 0 BY <1>4, <2>2, <2>5
      <3>2. Weighted(Q, E) = Weighted(R, D) BY <2>1, <3>1 DEF Grown
      <3> QED BY <1>8, <2>3, <2>5, <3>2 DEF Q
    <2> QED BY <2>4, <2>5
  <1>10. ASSUME NEW d \in Directions
         PROVE  /\ OwedAt(os, bk, D, b.pos[d], d) => OwedAt(ot, bt, E, c.pos[d], d)
                /\ CoveredAt(os, bk, D, b.pos[d], d)
                   /\ (x \/ b.pos[CloseSide(in)].volume - b.pos[CloseSide(in)].frozen_total >= in.volume)
                   => CoveredAt(ot, bt, E, c.pos[d], d)
    <2> DEFINE R == VolumeRates(os, bk, d)
               Q == VolumeRates(ot, bt, d)
               S == OldRates(os, bk, d)
               T == OldRates(ot, bt, d)
               p == b.pos[d]
               q == c.pos[d]
               mine == ~x /\ CloseSide(in) = d
               free == x \/ b.pos[CloseSide(in)].volume - b.pos[CloseSide(in)].frozen_total >= v
    <2>1. Grown(n, R, D, Q, E, v) BY JoinGrows DEF n
    <2>2. Grown(n, S, D, T, E, v) BY JoinGrows DEF n
    <2>3. Q[n + 1] = IF mine THEN 1 ELSE 0 BY <1>1, <1>7 DEF VolumeRates
    <2>4. T[n + 1] = IF mine /\ in.offset # "CloseToday" THEN 1 ELSE 0 BY <1>1, <1>7 DEF OldRates
    <2>5. /\ p.frozen_total \in Int /\ p.frozen_yesterday \in Nat /\ p.volume \in Int
          /\ q.frozen_total \in Int /\ q.frozen_yesterday \in Nat /\ q.volume \in Int
      BY <1>8, BookType
    <2>6. q.volume = p.volume BY <1>8 DEF SameVolume
    <2>7. ~mine => q.frozen_total = p.frozen_total /\ q.frozen_yesterday = p.frozen_yesterday
      <3> SUFFICES ASSUME ~mine PROVE q = p OBVIOUS
      <3>1. CASE offset = "Open" BY <3>1, <1>8
      <3>2. CASE offset # "Open"
        <4>1. d # side BY <3>2, <1>4, <1>5
        <4> QED BY <4>1, <3>2, <1>8 DEF SameElse
      <3> QED BY <3>1, <3>2
    <2>8. mine => /\ q.frozen_total = p.frozen_total + v
                  /\ q.frozen_yesterday <= p.frozen_yesterday + v
                  /\ in.offset = "CloseToday" => q.frozen_yesterday = p.frozen_yesterday
      BY <1>4, <1>5, <1>6, <1>8
    <2>9. /\ Weighted(R, D) \in Nat
          /\ mine => Weighted(Q, E) = Weighted(R, D) + v
          /\ ~mine => Weighted(Q, E) = Weighted(R, D)
      BY <2>1, <2>3 DEF Grown
    <2>10. /\ Weighted(S, D) \in Nat
           /\ mine /\ in.offset # "CloseToday" => Weighted(T, E) = Weighted(S, D) + v
           /\ ~(mine /\ in.offset # "CloseToday") => Weighted(T, E) = Weighted(S, D)
      BY <2>2, <2>4 DEF Grown
    <2>11. mine /\ free => p.volume - p.frozen_total >= v OBVIOUS
    <2> HIDE DEF R, Q, S, T, p, q, mine, D, E, v, free
    <2>12. OwedAt(os, bk, D, p, d) => OwedAt(ot, bt, E, q, d)
      <3> SUFFICES ASSUME p.frozen_total = Weighted(R, D), p.frozen_yesterday <= Weighted(S, D)
                   PROVE  q.frozen_total = Weighted(Q, E) /\ q.frozen_yesterday <= Weighted(T, E)
        BY DEF OwedAt, R, Q, S, T
      <3>1. CASE ~mine BY <3>1, <2>7, <2>9, <2>10
      <3>2. CASE mine /\ in.offset = "CloseToday" BY <3>2, <2>8, <2>9, <2>10
      <3>3. CASE mine /\ in.offset # "CloseToday"
        <4>1. v \in Nat BY <1>2 DEF v
        <4> QED BY <4>1, <3>3, <2>5, <2>8, <2>9, <2>10
      <3> QED BY <3>1, <3>2, <3>3
    <2>13. CoveredAt(os, bk, D, p, d) /\ free => CoveredAt(ot, bt, E, q, d)
      <3> SUFFICES ASSUME Weighted(R, D) <= p.frozen_total, p.frozen_total <= p.volume, free
                   PROVE  Weighted(Q, E) <= q.frozen_total /\ q.frozen_total <= q.volume
        BY DEF CoveredAt, R, Q
      <3>1. CASE ~mine BY <3>1, <2>6, <2>7, <2>9
      <3>2. CASE mine
        <4>1. v \in Nat BY <1>2 DEF v
        <4> QED BY <4>1, <3>2, <2>5, <2>6, <2>8, <2>9, <2>11
      <3> QED BY <3>1, <3>2
    <2> QED BY <2>12, <2>13 DEF p, q, free, D, E, v
  <1>11. OwedBy(os, bk, D, b) => OwedBy(ot, bt, E, c)
    <2> HIDE DEF D, E
    <2> QED BY <1>9, <1>10 DEF OwedBy
  <1>12. CoveredBy(os, bk, D, b)
         /\ (x \/ b.pos[CloseSide(in)].volume - b.pos[CloseSide(in)].frozen_total >= in.volume)
         => CoveredBy(ot, bt, E, c)
    <2> HIDE DEF D, E
    <2> QED BY <1>10 DEF CoveredBy
  <1> QED BY <1>11, <1>12

LEMMA InsertOwed ==
  ASSUME TypeInv, TypeInv', BooksInv, OwedInv, NEW in \in Requests, insert_order(in)
  PROVE  OwedInv'
  <1> DEFINE r == [in |-> in, left |-> in.volume, fills |-> <<>>, stage |-> "sent"]
             x == (get_offset(book["strategy"], in) = "Open")
             ot == orders'
             bt == booked'
             mine == book["strategy"]
  <1>1. /\ setup' = setup /\ notes' = notes /\ odd' = odd /\ ot = Append(orders, r) /\ bt = Append(booked, x)
        /\ Free(in) /\ \A h \in Holders : book'[h] = apply_order_input(book[h], in)
    BY DEF insert_order
  <1>2. orders \in Seq(OrderRecs) /\ booked \in Seq(BOOLEAN) /\ Len(booked) = Len(orders) /\ notes \in Seq(NoteRecs)
    BY DEF TypeInv
  <1>3. r \in OrderRecs /\ x \in BOOLEAN BY RequestType, TradedNone DEF OrderRecs
  <1>4. r.in = in /\ r.left = in.volume /\ r.stage = "sent" OBVIOUS
  <1>5. \A i \in DOMAIN notes : notes[i].o \in DOMAIN orders BY DEF TypeInv, NotesInv
  <1>a. x = (get_offset(mine, in) = "Open") OBVIOUS
  <1> HIDE DEF r, x, ot, bt, mine
  <1>6. /\ ot \in Seq(OrderRecs) /\ bt \in Seq(BOOLEAN) /\ Len(ot) = Len(orders) + 1 /\ Len(bt) = Len(ot)
        /\ \A i \in 1 .. Len(orders) : ot[i] = orders[i] /\ bt[i] = booked[i]
        /\ ot[Len(orders) + 1] = r /\ bt[Len(orders) + 1] = x
    BY <1>1, <1>2, <1>3
  <1>7. Joins(orders, booked, notes, ot, bt, in, x) BY <1>2, <1>3, <1>4, <1>5, <1>6 DEF Joins
  <1>8. Told' = Told /\ "strategy" \in Holders /\ \A h \in Told : h \in Holders BY <1>1 DEF Told, Holders
  <1>9. \A h \in Told : book[h] = mine
    <2>1. setup.broker = "sim" => book["account"] = book["strategy"] BY DEF BooksInv, Twin
    <2> QED BY <2>1 DEF Told, Holders, mine
  <1>10. ASSUME ~setup.merge
         PROVE  x \/ mine.pos[CloseSide(in)].volume - mine.pos[CloseSide(in)].frozen_total >= in.volume
    <2>1. get_offset(mine, in) = in.offset BY <1>10 DEF get_offset
    <2>2. CASE x BY <2>2
    <2>3. CASE ~x
      <3>1. in.offset # "Open" BY <1>a, <2>1, <2>3
      <3>2. get_direction(in.side, in.offset) = CloseSide(in) BY <2>1, <3>1, ClosingOffset
      <3> QED BY <1>1, <1>10, <3>1, <3>2 DEF Free, mine
    <2> QED BY <2>2, <2>3
  <1>11. ASSUME NEW h \in Told
         PROVE  OwesBook(ot, bt, notes, book'[h], odd = {}, ~(setup.merge \/ Odd({"again"})))
    <2> DEFINE b == book[h]
               c == book'[h]
    <2>1. b \in Books /\ c = apply_order_input(b, in) /\ x = (get_offset(b, in) = "Open")
      BY <1>1, <1>8, <1>9, <1>a, BookOf
    <2>2. OwesBook(orders, booked, notes, b, odd = {}, ~(setup.merge \/ Odd({"again"}))) BY OwedIs
    <2>3. b = mine BY <1>9
    <2> HIDE DEF b, c
    <2>4. /\ OwedBy(orders, booked, Dues(orders, notes), b) => OwedBy(ot, bt, Dues(ot, notes), c)
          /\ CoveredBy(orders, booked, Dues(orders, notes), b)
             /\ (x \/ b.pos[CloseSide(in)].volume - b.pos[CloseSide(in)].frozen_total >= in.volume)
             => CoveredBy(ot, bt, Dues(ot, notes), c)
      BY <1>7, <2>1, InputOwed
    <2>5. odd = {} => OwedBy(ot, bt, Dues(ot, notes), c) BY <2>2, <2>4 DEF OwesBook
    <2>6. ~(setup.merge \/ Odd({"again"})) => CoveredBy(ot, bt, Dues(ot, notes), c)
      BY <1>10, <2>2, <2>3, <2>4 DEF OwesBook
    <2> QED BY <2>5, <2>6 DEF OwesBook, c
  <1>12. Odd({"again"})' <=> Odd({"again"}) BY <1>1 DEF Odd
  <1>13. \A h \in Told' : OwesBook(orders', booked', notes', book'[h], odd' = {}, ~(setup'.merge \/ Odd({"again"})'))
    BY <1>1, <1>8, <1>11, <1>12 DEF ot, bt, OwesBook
  <1> QED BY <1>13, OwedIs

LEMMA NextOwed == TypeInv /\ TypeInv' /\ BooksInv /\ EndInv /\ OwedInv /\ [Next]_vars => OwedInv'
  <1> SUFFICES ASSUME TypeInv, TypeInv', BooksInv, EndInv, OwedInv, [Next]_vars PROVE OwedInv' OBVIOUS
  <1>1. ASSUME NEW in \in Requests, insert_order(in) PROVE OwedInv' BY <1>1, InsertOwed
  <1>2. ASSUME NEW price \in Quotes, Quote(price) PROVE OwedInv' BY <1>2, QuoteOwed
  <1>3. ASSUME NEW o \in DOMAIN orders, sim_insert_order(o) PROVE OwedInv' BY <1>3, SimInsertOwed
  <1>4. ASSUME NEW o \in DOMAIN orders, sim_cancel_order(o) PROVE OwedInv' BY <1>4, SimCancelOwed
  <1>5. ASSUME NEW o \in DOMAIN orders, ctp_insert_refused(o) PROVE OwedInv' BY <1>5, RefusedOwed
  <1>6. ASSUME NEW o \in DOMAIN orders, ctp_insert_order(o) \/ ctp_reject(o) \/ ctp_cancel_order(o) PROVE OwedInv'
    BY <1>6, CtpNoteOwed
  <1>7. ASSUME NEW o \in DOMAIN orders, ctp_fill(o) PROVE OwedInv' BY <1>7, FillOwed
  <1>8. CASE ctp_req_order_trade BY <1>8, ReqOwed
  <1>9. CASE ctp_handle BY <1>9, HandleOwed
  <1>10. CASE UNCHANGED vars
    <2>1. /\ setup' = setup /\ orders' = orders /\ notes' = notes /\ book' = book /\ odd' = odd /\ booked' = booked
      BY <1>10 DEF vars, broker
    <2>2. Told' = Told /\ (Odd({"again"})' <=> Odd({"again"})) BY <2>1 DEF Told, Odd
    <2> QED BY <2>1, <2>2 DEF OwedInv
  <1> QED BY <1>1, <1>2, <1>3, <1>4, <1>5, <1>6, <1>7, <1>8, <1>9, <1>10 DEF Next

\* with nothing due, nothing is owed
NothingDue(os, bk, D) ==
  /\ Weighted(CashRates(os, bk), D) = 0
  /\ \A d \in Directions : Weighted(VolumeRates(os, bk, d), D) = 0 /\ Weighted(OldRates(os, bk, d), D) = 0

LEMMA DueOfNone ==
  ASSUME NEW os \in Seq(OrderRecs), NEW bk \in Seq(BOOLEAN), Len(bk) = Len(os), NEW D \in [1 .. Len(os) -> Nat],
         \A o \in 1 .. Len(os) : D[o] = 0
  PROVE  NothingDue(os, bk, D)
  <1> DEFINE n == Len(os)
  <1>1. n \in Nat /\ D \in [1 .. n -> Nat] /\ \A o \in 1 .. n : D[o] = 0 OBVIOUS
  <1>2. CashRates(os, bk) \in [1 .. n -> Nat] BY RatesType
  <1>3. \A d \in Directions : VolumeRates(os, bk, d) \in [1 .. n -> Nat] /\ OldRates(os, bk, d) \in [1 .. n -> Nat]
    BY RatesType
  <1> HIDE DEF n
  <1>4. Weighted(CashRates(os, bk), D) = 0 BY <1>1, <1>2, WeightedZero
  <1>5. ASSUME NEW d \in Directions
        PROVE  Weighted(VolumeRates(os, bk, d), D) = 0 /\ Weighted(OldRates(os, bk, d), D) = 0
    <2>1. VolumeRates(os, bk, d) \in [1 .. n -> Nat] /\ OldRates(os, bk, d) \in [1 .. n -> Nat] BY <1>3
    <2>2. Weighted(VolumeRates(os, bk, d), D) = 0 BY <1>1, <2>1, WeightedZero
    <2>3. Weighted(OldRates(os, bk, d), D) = 0 BY <1>1, <2>1, WeightedZero
    <2> QED BY <2>2, <2>3
  <1> QED BY <1>4, <1>5 DEF NothingDue

LEMMA InitOwed == Init => OwedInv
  <1> SUFFICES ASSUME Init PROVE OwedInv OBVIOUS
  <1> DEFINE b == Restored(setup.holding)
             D == Dues(orders, notes)
  <1>1. /\ setup \in Setups /\ book = [h \in Holders |-> b] /\ orders = <<>> /\ booked = <<>> /\ notes = <<>>
    BY DEF Init
  <1>2. setup.holding \in Nat BY <1>1, SetupType
  <1>3. \A h \in Told : book[h] = b BY <1>1 DEF Told, Holders
  <1>4. orders \in Seq(OrderRecs) /\ booked \in Seq(BOOLEAN) /\ Len(orders) = 0 /\ Len(booked) = Len(orders)
        /\ notes \in Seq(NoteRecs)
    BY <1>1
  <1>5. D \in [1 .. Len(orders) -> Nat] BY <1>4, DueType
  <1>6. \A o \in 1 .. Len(orders) : D[o] = 0 BY <1>4
  <1> HIDE DEF D
  <1>7. NothingDue(orders, booked, D) BY <1>4, <1>5, <1>6, DueOfNone
  <1>8. /\ b.frozen_cash = 0
        /\ \A d \in Directions : /\ b.pos[d].frozen_total = 0 /\ b.pos[d].frozen_yesterday = 0
                                 /\ 0 <= b.pos[d].volume
    <2> DEFINE holding == setup.holding
    <2>a. holding \in Nat BY <1>2
    <2> HIDE DEF holding
    <2>1. /\ Restored(holding).frozen_cash = 0
          /\ \A d \in Directions :
               Restored(holding).pos[d] = IF d = "Long" THEN [NoPosition EXCEPT !.volume = holding,
                                                 !.yesterday_volume = holding, !.margin = holding]
                                          ELSE NoPosition
      BY <2>a, RestoredBook
    <2> DEFINE q == Restored(holding)
    <2>b. b = q BY DEF holding
    <2>3. ASSUME NEW d \in Directions
          PROVE  q.pos[d].frozen_total = 0 /\ q.pos[d].frozen_yesterday = 0 /\ 0 <= q.pos[d].volume
      <3>1. CASE d = "Long"
        <4>1. q.pos[d] = [NoPosition EXCEPT !.volume = holding, !.yesterday_volume = holding, !.margin = holding]
          BY <3>1, <2>1
        <4>2. q.pos[d].frozen_total = 0 /\ q.pos[d].frozen_yesterday = 0 /\ q.pos[d].volume = holding
          BY <4>1 DEF NoPosition
        <4> QED BY <4>2, <2>a
      <3>2. CASE d # "Long" BY <3>2, <2>1 DEF NoPosition
      <3> QED BY <3>1, <3>2
    <2>4. q.frozen_cash = 0 BY <2>1
    <2> HIDE DEF q
    <2> QED BY <2>b, <2>3, <2>4
  <1> HIDE DEF b
  <1>9. OwedBy(orders, booked, D, b) BY <1>7, <1>8 DEF OwedBy, OwedAt, NothingDue
  <1>10. CoveredBy(orders, booked, D, b) BY <1>7, <1>8 DEF CoveredBy, CoveredAt, NothingDue
  <1> QED BY <1>3, <1>9, <1>10 DEF OwedInv, D

LEMMA AlwaysOwed == Spec => [](TypeInv /\ BooksInv /\ OwedInv)
  <1>1. TypeInv /\ [Next]_vars => TypeInv' BY NextType
  <1>2. TypeInv /\ TypeInv' /\ BooksInv /\ EndInv /\ OwedInv /\ [Next]_vars => OwedInv' BY NextOwed
  <1>3. TypeInv /\ EndInv /\ [Next]_vars => EndInv' BY NextEnd
  <1>4. TypeInv /\ BooksInv /\ [Next]_vars => BooksInv' BY NextBooks
  <1> QED BY <1>1, <1>2, <1>3, <1>4, InitType, InitEnd, InitBooks, InitOwed, PTL DEF Spec

\* Once every order is final and every notification handled, the books that are told hold
\* nothing frozen, unless something was lost, repeated, late or booked with another offset.
THEOREM AllReleased == Spec => []Released
  <1>1. TypeInv /\ OwedInv => Released
    <2> SUFFICES ASSUME TypeInv, OwedInv, notes = <<>>, \A o \in DOMAIN orders : orders[o].stage = "done",
                        odd = {}, NEW h \in Told
                 PROVE  /\ book[h].frozen_cash = 0
                        /\ \A d \in Directions : book[h].pos[d].frozen_total = 0 /\ book[h].pos[d].frozen_yesterday = 0
      BY DEF Released
    <2> DEFINE b == book[h]
               D == Dues(orders, notes)
    <2>1. orders \in Seq(OrderRecs) /\ booked \in Seq(BOOLEAN) /\ Len(booked) = Len(orders) /\ notes \in Seq(NoteRecs)
      BY DEF TypeInv
    <2>2. D \in [1 .. Len(orders) -> Nat] /\ \A o \in DOMAIN orders : D[o] = Due(orders, notes, o) BY <2>1, DueType
    <2>3. ASSUME NEW o \in DOMAIN orders PROVE D[o] = 0
      <3>1. Lots(notes, o) = 0 BY SumOfNone DEF Lots
      <3>2. ~Ending(notes, o) BY DEF Ending
      <3>3. Rest(orders, notes, o) = 0 BY <3>2 DEF Rest
      <3> QED BY <2>2, <3>1, <3>3 DEF Due
    <2>4. b \in Books BY BookOf DEF Told, Holders
    <2>5. OwedBy(orders, booked, D, b) BY DEF OwedInv
    <2> HIDE DEF b, D
    <2>6. \A o \in 1 .. Len(orders) : D[o] = 0 BY <2>1, <2>3
    <2>7. NothingDue(orders, booked, D) BY <2>1, <2>2, <2>6, DueOfNone
    <2>8. b.frozen_cash = 0 /\ \A d \in Directions : b.pos[d].frozen_total = 0 /\ b.pos[d].frozen_yesterday <= 0
      BY <2>5, <2>7 DEF OwedBy, OwedAt, NothingDue
    <2>9. \A d \in Directions : b.pos[d].frozen_yesterday \in Nat BY <2>4 DEF Books, Positions
    <2>10. \A d \in Directions : b.pos[d].frozen_yesterday = 0 BY <2>8, <2>9
    <2> QED BY <2>8, <2>10 DEF b
  <1> QED BY <1>1, AlwaysOwed, PTL

\* A strategy that closes only what its book shows as free never closes more than it
\* holds, with closes, fills and cancels in any order, unless a report is repeated.
THEOREM NeverOversold == Spec => []NotOversold
  <1>1. TypeInv /\ BooksInv /\ OwedInv => NotOversold
    <2> SUFFICES ASSUME TypeInv, BooksInv, OwedInv, ~setup.merge, ~Odd({"again"}),
                        NEW h \in Told, NEW d \in Directions
                 PROVE  LET p == book[h].pos[d] IN
                        0 <= p.frozen_total /\ p.frozen_total <= p.volume /\ p.frozen_yesterday <= p.yesterday_volume
      BY DEF NotOversold
    <2> DEFINE p == book[h].pos[d]
               D == Dues(orders, notes)
               R == VolumeRates(orders, booked, d)
    <2>1. orders \in Seq(OrderRecs) /\ booked \in Seq(BOOLEAN) /\ Len(booked) = Len(orders) /\ notes \in Seq(NoteRecs)
      BY DEF TypeInv
    <2>2. Len(orders) \in Nat /\ D \in [1 .. Len(orders) -> Nat] BY <2>1, DueType
    <2>3. R \in [1 .. Len(orders) -> Nat] BY <2>1, RatesType
    <2>4. CoveredBy(orders, booked, D, book[h]) BY DEF OwedInv
    <2>5. Weighted(R, D) <= p.frozen_total /\ p.frozen_total <= p.volume BY <2>4 DEF CoveredBy, CoveredAt
    <2>6. h \in Holders BY DEF Told, Holders
    <2>7. p.frozen_yesterday <= p.yesterday_volume BY <2>6 DEF BooksInv, Aged
    <2>8. book[h] \in Books BY <2>6, BookOf
    <2>9. p.frozen_total \in Int BY <2>8 DEF Books, Positions
    <2> HIDE DEF p, D, R
    <2>10. Weighted(R, D) \in Nat BY <2>2, <2>3, WeightedNat
    <2>11. 0 <= p.frozen_total BY <2>5, <2>9, <2>10
    <2> QED BY <2>5, <2>7, <2>11 DEF p
  <1> QED BY <1>1, AlwaysOwed, PTL
=============================================================================
