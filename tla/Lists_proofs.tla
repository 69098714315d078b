---------------------------- MODULE Lists_proofs ----------------------------
(***************************************************************************)
(* Induction and recursion over the natural numbers, stated with sets in   *)
(* place of predicates and functions in place of operators, and what Keep  *)
(* does to a list.                                                         *)
(***************************************************************************)
EXTENDS Lists, Functions, WellFoundedInduction, TLAPS

-----------------------------------------------------------------------------
(* Induction *)

Below == {p \in Nat \X Nat : p[1] < p[2]}

\* A set of natural numbers that is not empty has a least element.
LEMMA Least ==
    ASSUME NEW S \in SUBSET Nat, S # {}
    PROVE  \E m \in S : \A n \in S : m <= n
<1>1. IsWellFoundedOn(OpToRel(<, Nat), Nat)
  BY NatLessThanWellFounded
<1>2. IsWellFoundedOn(Below, Nat)
  BY <1>1, IsWellFoundedOnSubrelation DEF OpToRel, Below
<1>3. PICK x \in S : \A y \in S : <<y, x>> \notin Below
  BY <1>2, WFMin
<1>4. ASSUME NEW y \in S PROVE x <= y
  <2>1. x \in Nat /\ y \in Nat /\ ~(y < x)
    BY <1>3 DEF Below
  <2> QED
    BY <2>1
<1> QED
  BY <1>4

\* A set that has 0 and, up to n, the successor of each of its numbers, has them all.
LEMMA UpTo ==
    ASSUME NEW n \in Nat, NEW S, 0 \in S, \A i \in S : i \in 0..(n - 1) => i + 1 \in S
    PROVE  0..n \subseteq S
<1> DEFINE Left == (0..n) \ S
<1> SUFFICES ASSUME Left # {} PROVE FALSE
  OBVIOUS
<1>0. Left \in SUBSET Nat
  OBVIOUS
<1> HIDE DEF Left
<1>1. PICK m \in Left : \A i \in Left : m <= i
  BY <1>0, Least
<1> USE DEF Left
<1>2. m # 0 /\ m - 1 \in 0..n /\ m - 1 \in 0..(n - 1)
  BY <1>1
<1>3. m - 1 \in S
  BY <1>1, <1>2
<1> QED
  BY <1>1, <1>2, <1>3

\* f has the value base at 0, and step leads from each value to the next one.
Steps(V, n, step) == \A i \in 1..n, v \in V : step[i][v] \in V

Iterates(f, V, n, base, step) ==
    /\ f \in [0..n -> V]
    /\ f[0] = base
    /\ \A i \in 1..n : f[i] = step[i][f[i - 1]]

\* There is such a function.
LEMMA Recursion ==
    ASSUME NEW V, NEW n \in Nat, NEW base \in V, NEW step, Steps(V, n, step)
    PROVE  \E f : Iterates(f, V, n, base, step)
<1> DEFINE Good(m, f) == f[0] = base /\ \A i \in 1..m : f[i] = step[i][f[i - 1]]
           S == {m \in 0..n : \E f \in [0..m -> V] : Good(m, f)}
<1>1. 0 \in S
  <2> DEFINE f == [i \in 0..0 |-> base]
  <2>1. f \in [0..0 -> V] /\ Good(0, f)
    OBVIOUS
  <2> HIDE DEF f, Good
  <2> QED
    BY <2>1
<1>2. ASSUME NEW m \in S, m \in 0..(n - 1) PROVE m + 1 \in S
  <2>1. PICK f \in [0..m -> V] : Good(m, f)
    OBVIOUS
  <2> DEFINE g == [i \in 0..(m + 1) |-> IF i <= m THEN f[i] ELSE step[m + 1][f[m]]]
  <2>2. m \in Nat /\ m + 1 \in 1..n /\ f[m] \in V
    BY <1>2
  <2>3. step[m + 1][f[m]] \in V
    BY <2>2 DEF Steps
  <2>4. g \in [0..(m + 1) -> V]
    BY <2>2, <2>3
  <2>5. g[0] = base
    BY <2>1, <2>2
  <2>6. ASSUME NEW i \in 1..(m + 1) PROVE g[i] = step[i][g[i - 1]]
    <3>1. CASE i <= m
      BY <2>1, <2>2, <3>1
    <3>2. CASE i = m + 1
      <4>1. g[i] = step[m + 1][f[m]] /\ g[i - 1] = f[m] /\ i - 1 = m
        BY <2>2, <3>2
      <4> QED
        BY <3>2, <4>1
    <3> QED
      BY <2>2, <3>1, <3>2
  <2>7. Good(m + 1, g)
    BY <2>5, <2>6
  <2> HIDE DEF g, Good
  <2>8. m + 1 \in 0..n
    BY <2>2
  <2> QED
    BY <2>4, <2>7, <2>8
<1> HIDE DEF S
<1>3. n \in S
  BY <1>1, <1>2, UpTo
<1> QED
  BY <1>3 DEF S, Iterates

-----------------------------------------------------------------------------
(* Keep *)

\* The first i elements of a list have been looked at.
Keeping(s, S, f) ==
    /\ f[0] = <<>>
    /\ \A i \in 1..Len(s) : f[i] = IF s[i] \in S THEN Append(f[i - 1], s[i]) ELSE f[i - 1]

LEMMA KeepIsKeeping ==
    ASSUME NEW T, NEW s \in Seq(T), NEW S
    PROVE  \E f \in [0..Len(s) -> Seq(T)] : Keeping(s, S, f) /\ Keep(s, S) = f[Len(s)]
<1> DEFINE n == Len(s)
           V == Seq(T)
           none == <<>>
           Step(i, k) == IF s[i] \in S THEN Append(k, s[i]) ELSE k
           step == [i \in 1..n |-> [k \in V |-> Step(i, k)]]
           Kept(f) == [i \in 0..n |-> IF i = 0 THEN none ELSE Step(i, f[i - 1])]
<1>1. n \in Nat /\ \A i \in 1..n : s[i] \in T
  OBVIOUS
<1>2. \A i \in 1..n, k \in V : Step(i, k) \in V
  BY <1>1
<1>3. Steps(V, n, step)
  BY <1>2 DEF Steps
<1>4. \A i \in 1..n, k \in V : step[i][k] = Step(i, k)
  OBVIOUS
<1>5. none \in V
  OBVIOUS
<1>6. Keep(s, S) = (CHOOSE g : g = Kept(g))[n]
  BY DEF Keep
<1> HIDE DEF step, n, V, none, Step
<1>7. PICK f : Iterates(f, V, n, none, step)
  BY <1>1, <1>3, <1>5, Recursion
<1>8. /\ f \in [0..n -> V] /\ f[0] = none
      /\ \A i \in 1..n : f[i] = step[i][f[i - 1]]
  BY <1>7 DEF Iterates
<1>9. \A i \in 1..n : f[i] = Step(i, f[i - 1])
  <2> TAKE i \in 1..n
  <2>1. i - 1 \in 0..n
    BY <1>1
  <2>2. f[i - 1] \in V
    BY <2>1, <1>8
  <2> QED
    BY <1>4, <1>8, <2>2
<1>10. f = Kept(f)
  <2>1. DOMAIN f = 0..n /\ f = [i \in 0..n |-> f[i]]
    BY <1>8
  <2>2. \A i \in 0..n : f[i] = Kept(f)[i]
    BY <1>1, <1>8, <1>9
  <2> QED
    BY <2>1, <2>2
<1> DEFINE g == CHOOSE h : h = Kept(h)
<1>11. g = Kept(g)
  BY <1>10
<1> HIDE DEF g
<1>12. g[0] = none /\ \A i \in 1..n : g[i] = Step(i, g[i - 1])
  <2>1. \A i \in 0..n : g[i] = Kept(g)[i]
    BY <1>11
  <2>2. \A i \in 0..n : g[i] = IF i = 0 THEN none ELSE Step(i, g[i - 1])
    BY <2>1
  <2> QED
    BY <1>1, <2>2
<1>13. DOMAIN g = 0..n
  BY <1>11
<1>14. \A i \in 0..n : g[i] \in V
  <2> DEFINE R == {i \in 0..n : g[i] \in V}
  <2>1. 0 \in R
    <3>1. 0 \in 0..n /\ g[0] \in V
      BY <1>1, <1>5, <1>12
    <3> QED
      BY <3>1
  <2>2. ASSUME NEW i \in R, i \in 0..(n - 1) PROVE i + 1 \in R
    <3>1. i + 1 \in 1..n /\ (i + 1) - 1 = i /\ g[i] \in V
      BY <1>1, <2>2
    <3>2. g[i + 1] = Step(i + 1, g[i])
      BY <1>12, <3>1
    <3> QED
      BY <1>2, <3>1, <3>2
  <2> HIDE DEF R
  <2>3. 0..n \subseteq R
    BY <1>1, <2>1, <2>2, UpTo
  <2> QED
    BY <2>3 DEF R
<1>15. g \in [0..n -> V]
  <2>1. g = [i \in 0..n |-> g[i]]
    BY <1>11, <1>13
  <2> QED
    BY <1>14, <2>1
<1>16. Keeping(s, S, g)
  BY <1>12 DEF Keeping, Step, n, none
<1> QED
  BY <1>6, <1>15, <1>16 DEF g, n, V

\* The list t is what Keep makes of the first m elements of s: its k-th element is
\* the h[k]-th of s.
Places(s, S, m, t, h) ==
    /\ h \in [1..Len(t) -> 1..m]
    /\ \A k \in 1..Len(t) : t[k] = s[h[k]] /\ s[h[k]] \in S
    /\ \A j, k \in 1..Len(t) : j < k => h[j] < h[k]
    /\ \A i \in 1..m : s[i] \in S => \E k \in 1..Len(t) : h[k] = i

LEMMA KeepHasPlaces ==
    ASSUME NEW T, NEW s \in Seq(T), NEW S
    PROVE  Keep(s, S) \in Seq(T) /\ \E h : Places(s, S, Len(s), Keep(s, S), h)
<1>1. PICK f \in [0..Len(s) -> Seq(T)] : Keeping(s, S, f) /\ Keep(s, S) = f[Len(s)]
  BY KeepIsKeeping
<1> DEFINE n == Len(s)
           R == {m \in 0..n : \E h : Places(s, S, m, f[m], h)}
<1>2. 0 \in R
  <2>1. f[0] = <<>> /\ n \in Nat
    BY <1>1 DEF Keeping
  <2>2. Places(s, S, 0, f[0], [k \in 1..0 |-> 0])
    BY <2>1 DEF Places
  <2> QED
    BY <2>1, <2>2
<1>3. ASSUME NEW m \in R, m \in 0..(n - 1) PROVE m + 1 \in R
  <2>1. PICK h : Places(s, S, m, f[m], h)
    OBVIOUS
  <2>2. /\ m \in Nat /\ m + 1 \in 1..n /\ (m + 1) - 1 = m /\ f[m] \in Seq(T)
        /\ m + 1 \in 0..n /\ s[m + 1] \in T
    BY <1>3
  <2>3. f[m + 1] = IF s[m + 1] \in S THEN Append(f[m], s[m + 1]) ELSE f[m]
    BY <1>1, <2>2 DEF Keeping
  <2> DEFINE l == Len(f[m])
             g == [k \in 1..(l + 1) |-> IF k = l + 1 THEN m + 1 ELSE h[k]]
  <2>4. l \in Nat
    BY <2>2
  <2>5. CASE s[m + 1] \in S
    <3>1. /\ Len(f[m + 1]) = l + 1
          /\ \A k \in 1..l : f[m + 1][k] = f[m][k]
          /\ f[m + 1][l + 1] = s[m + 1]
      BY <2>2, <2>3, <2>5
    <3>2. \A k \in 1..l : h[k] \in 1..m /\ g[k] = h[k]
      <4> TAKE k \in 1..l
      <4>1. h[k] \in 1..m
        BY <2>1 DEF Places
      <4>2. k # l + 1 /\ k \in 1..(l + 1)
        BY <2>4
      <4> QED
        BY <4>1, <4>2
    <3>3. g[l + 1] = m + 1
      BY <2>4
    <3>4. g \in [1..(l + 1) -> 1..(m + 1)]
      <4>1. \A k \in 1..(l + 1) : k \in 1..l \/ k = l + 1
        BY <2>4
      <4>2. ASSUME NEW k \in 1..(l + 1) PROVE g[k] \in 1..(m + 1)
        <5>1. CASE k \in 1..l
          <6>1. g[k] = h[k] /\ h[k] \in 1..m
            BY <3>2, <5>1
          <6> HIDE DEF g
          <6> QED
            BY <2>2, <6>1
        <5>2. CASE k = l + 1
          BY <2>2, <3>3, <5>2
        <5> QED
          BY <4>1, <5>1, <5>2
      <4> QED
        BY <4>2
    <3> HIDE DEF g, l
    <3>5. \A k \in 1..(l + 1) : f[m + 1][k] = s[g[k]] /\ s[g[k]] \in S
      <4> TAKE k \in 1..(l + 1)
      <4>1. CASE k \in 1..l
        BY <2>1, <3>1, <3>2, <4>1 DEF Places, l
      <4>2. CASE k = l + 1
        BY <2>5, <3>1, <3>3, <4>2
      <4> QED
        BY <2>4, <4>1, <4>2
    <3>6. \A j, k \in 1..(l + 1) : j < k => g[j] < g[k]
      <4> SUFFICES ASSUME NEW j \in 1..(l + 1), NEW k \in 1..(l + 1), j < k PROVE g[j] < g[k]
        OBVIOUS
      <4>1. j \in 1..l
        BY <2>4
      <4>2. CASE k \in 1..l
        BY <2>1, <3>2, <4>1, <4>2 DEF Places, l
      <4>3. CASE k = l + 1
        BY <2>2, <3>2, <3>3, <4>1, <4>3
      <4> QED
        BY <2>4, <4>2, <4>3
    <3>7. \A i \in 1..(m + 1) : s[i] \in S => \E k \in 1..(l + 1) : g[k] = i
      <4> SUFFICES ASSUME NEW i \in 1..(m + 1), s[i] \in S PROVE \E k \in 1..(l + 1) : g[k] = i
        OBVIOUS
      <4>1. CASE i \in 1..m
        <5>1. PICK k \in 1..l : h[k] = i
          BY <2>1, <4>1 DEF Places, l
        <5> QED
          BY <2>4, <3>2, <5>1
      <4>2. CASE i = m + 1
        BY <2>4, <3>3, <4>2
      <4> QED
        BY <2>2, <4>1, <4>2
    <3>8. Places(s, S, m + 1, f[m + 1], g)
      BY <3>1, <3>4, <3>5, <3>6, <3>7 DEF Places
    <3> QED
      BY <2>2, <3>8
  <2>6. CASE s[m + 1] \notin S
    <3>1. f[m + 1] = f[m]
      BY <2>3, <2>6
    <3>2. h \in [1..Len(f[m]) -> 1..(m + 1)]
      BY <2>1, <2>2 DEF Places
    <3>3. \A i \in 1..(m + 1) : s[i] \in S => i \in 1..m
      BY <2>2, <2>6
    <3>4. Places(s, S, m + 1, f[m + 1], h)
      BY <2>1, <3>1, <3>2, <3>3 DEF Places
    <3> QED
      BY <2>2, <3>4
  <2> QED
    BY <2>5, <2>6
<1>4. n \in Nat
  OBVIOUS
<1> HIDE DEF R, n
<1>5. n \in R
  BY <1>2, <1>3, <1>4, UpTo
<1> QED
  BY <1>1, <1>4, <1>5 DEF R, n

-----------------------------------------------------------------------------
(* What a list has in it, and whether it has anything twice *)

LEMMA EmptyList ==
    ASSUME NEW T
    PROVE  <<>> \in Seq(T) /\ Range(<<>>) = {} /\ IsInjective(<<>>)
BY DEF Range, IsInjective

LEMMA ListRange ==
    ASSUME NEW T, NEW s \in Seq(T)
    PROVE  /\ DOMAIN s = 1..Len(s) /\ Len(s) \in Nat
           /\ Range(s) = {s[i] : i \in 1..Len(s)}
           /\ Range(s) \subseteq T
BY DEF Range

LEMMA AppendList ==
    ASSUME NEW T, NEW s \in Seq(T), NEW x \in T
    PROVE  /\ Append(s, x) \in Seq(T)
           /\ Range(Append(s, x)) = Range(s) \cup {x}
           /\ IsInjective(s) /\ x \notin Range(s) => IsInjective(Append(s, x))
<1> DEFINE l == Append(s, x)
           n == Len(s)
<1>1. /\ l \in Seq(T) /\ Len(l) = n + 1 /\ n \in Nat
      /\ DOMAIN l = 1..(n + 1) /\ DOMAIN s = 1..n
      /\ \A i \in 1..n : l[i] = s[i]
      /\ l[n + 1] = x
  OBVIOUS
<1> HIDE DEF l, n
<1>2. \A k \in 1..(n + 1) : k \in 1..n \/ k = n + 1
  BY <1>1
<1>3. 1..n \subseteq 1..(n + 1) /\ n + 1 \in 1..(n + 1)
  BY <1>1
<1>4. Range(l) = Range(s) \cup {x}
  <2>1. ASSUME NEW y \in Range(l) PROVE y \in Range(s) \cup {x}
    BY <1>1, <1>2 DEF Range
  <2>2. ASSUME NEW y \in Range(s) \cup {x} PROVE y \in Range(l)
    BY <1>1, <1>3 DEF Range
  <2> QED
    BY <2>1, <2>2
<1>5. ASSUME IsInjective(s), x \notin Range(s) PROVE IsInjective(l)
  <2>1. \A i \in 1..n : s[i] # x
    BY <1>1, <1>5 DEF Range
  <2>2. ASSUME NEW i \in 1..(n + 1), NEW j \in 1..(n + 1), l[i] = l[j] PROVE i = j
    BY <1>1, <1>2, <1>5, <2>1, <2>2 DEF IsInjective
  <2> QED
    BY <1>1, <2>2 DEF IsInjective
<1> QED
  BY <1>1, <1>4, <1>5 DEF l

LEMMA TailList ==
    ASSUME NEW T, NEW s \in Seq(T), s # <<>>
    PROVE  /\ Tail(s) \in Seq(T) /\ Head(s) \in T
           /\ Range(s) = {Head(s)} \cup Range(Tail(s))
           /\ IsInjective(s) => IsInjective(Tail(s)) /\ Head(s) \notin Range(Tail(s))
<1> DEFINE l == Tail(s)
           n == Len(s)
<1>1. /\ l \in Seq(T) /\ n \in Nat \ {0} /\ Len(l) = n - 1
      /\ DOMAIN l = 1..(n - 1) /\ DOMAIN s = 1..n
      /\ \A i \in 1..(n - 1) : l[i] = s[i + 1]
      /\ Head(s) = s[1] /\ s[1] \in T
  OBVIOUS
<1> DEFINE h == s[1]
<1> HIDE DEF l, n
<1>2. \A k \in 1..n : k = 1 \/ (k - 1 \in 1..(n - 1) /\ (k - 1) + 1 = k)
  BY <1>1
<1>3. 1 \in 1..n /\ \A k \in 1..(n - 1) : k + 1 \in 1..n /\ k + 1 # 1
  BY <1>1
<1>4. Range(s) = {h} \cup Range(l)
  <2>1. ASSUME NEW y \in Range(s) PROVE y \in {h} \cup Range(l)
    <3>1. PICK k \in 1..n : y = s[k]
      BY <1>1 DEF Range
    <3>2. CASE k = 1
      BY <3>1, <3>2
    <3>3. CASE k - 1 \in 1..(n - 1) /\ (k - 1) + 1 = k
      <4>1. l[k - 1] = s[k]
        BY <1>1, <3>3
      <4> QED
        BY <1>1, <3>1, <3>3, <4>1 DEF Range
    <3> QED
      BY <1>2, <3>2, <3>3
  <2>2. ASSUME NEW y \in {h} \cup Range(l) PROVE y \in Range(s)
    BY <1>1, <1>3 DEF Range
  <2> QED
    BY <2>1, <2>2
<1>5. ASSUME IsInjective(s) PROVE IsInjective(l) /\ h \notin Range(l)
  <2>1. ASSUME NEW i \in 1..(n - 1), NEW j \in 1..(n - 1), l[i] = l[j] PROVE i = j
    <3>1. s[i + 1] = s[j + 1] /\ i + 1 \in 1..n /\ j + 1 \in 1..n
      BY <1>1, <1>3, <2>1
    <3>2. i + 1 = j + 1
      BY <1>1, <1>5, <3>1 DEF IsInjective
    <3> QED
      BY <3>2
  <2>2. ASSUME NEW i \in 1..(n - 1) PROVE l[i] # h
    BY <1>1, <1>3, <1>5 DEF IsInjective
  <2> QED
    BY <1>1, <2>1, <2>2 DEF IsInjective, Range
<1> QED
  BY <1>1, <1>4, <1>5 DEF l

LEMMA ConcatList ==
    ASSUME NEW T, NEW s \in Seq(T), NEW t \in Seq(T)
    PROVE  /\ s \o t \in Seq(T)
           /\ Range(s \o t) = Range(s) \cup Range(t)
<1> DEFINE l == s \o t
           n == Len(s)
           m == Len(t)
<1>1. /\ l \in Seq(T) /\ Len(l) = n + m /\ n \in Nat /\ m \in Nat
      /\ DOMAIN l = 1..(n + m) /\ DOMAIN s = 1..n /\ DOMAIN t = 1..m
      /\ \A i \in 1..n : l[i] = s[i]
      /\ \A i \in 1..(n + m) : i > n => l[i] = t[i - n]
  OBVIOUS
<1> HIDE DEF l, n, m
<1>2. \A k \in 1..(n + m) : k \in 1..n \/ (k > n /\ k - n \in 1..m)
  BY <1>1
<1>3. \A k \in 1..n : k \in 1..(n + m)
  BY <1>1
<1>4. \A k \in 1..m : k + n \in 1..(n + m) /\ k + n > n /\ (k + n) - n = k
  BY <1>1
<1>5. ASSUME NEW y \in Range(l) PROVE y \in Range(s) \cup Range(t)
  BY <1>1, <1>2 DEF Range
<1>6. ASSUME NEW y \in Range(s) PROVE y \in Range(l)
  BY <1>1, <1>3 DEF Range
<1>7. ASSUME NEW y \in Range(t) PROVE y \in Range(l)
  <2>1. PICK k \in 1..m : y = t[k]
    BY <1>1 DEF Range
  <2>2. k + n \in 1..(n + m) /\ l[k + n] = t[k]
    BY <1>1, <1>4
  <2> QED
    BY <1>1, <2>1, <2>2 DEF Range
<1> QED
  BY <1>1, <1>5, <1>6, <1>7 DEF l

LEMMA PrefixList ==
    ASSUME NEW T, NEW s \in Seq(T), NEW n \in 0..Len(s)
    PROVE  SubSeq(s, 1, n) \in Seq(T) /\ Range(SubSeq(s, 1, n)) \subseteq Range(s)
<1> DEFINE l == SubSeq(s, 1, n)
<1>1. /\ l \in Seq(T) /\ DOMAIN l = 1..n /\ DOMAIN s = 1..Len(s)
      /\ \A i \in 1..n : i \in 1..Len(s) /\ l[i] = s[i]
  OBVIOUS
<1> QED
  BY <1>1 DEF Range

\* What is kept is the elements in S, in the order of the list.
LEMMA KeepList ==
    ASSUME NEW T, NEW s \in Seq(T), NEW S
    PROVE  /\ Keep(s, S) \in Seq(T)
           /\ Range(Keep(s, S)) = Range(s) \cap S
           /\ IsInjective(s) => IsInjective(Keep(s, S))
<1> DEFINE t == Keep(s, S)
<1>1. t \in Seq(T)
  BY KeepHasPlaces
<1>2. PICK h : Places(s, S, Len(s), t, h)
  BY KeepHasPlaces
<1> HIDE DEF t
<1>3. \A k \in 1..Len(t) : h[k] \in 1..Len(s) /\ t[k] = s[h[k]] /\ s[h[k]] \in S
  BY <1>2 DEF Places
<1>4. \A i \in 1..Len(s) : s[i] \in S => \E k \in 1..Len(t) : h[k] = i
  BY <1>2 DEF Places
<1>5. DOMAIN s = 1..Len(s) /\ DOMAIN t = 1..Len(t)
  BY <1>1
<1>6. Range(t) = Range(s) \cap S
  <2>1. ASSUME NEW y \in Range(t) PROVE y \in Range(s) \cap S
    BY <1>3, <1>5 DEF Range
  <2>2. ASSUME NEW y \in Range(s) \cap S PROVE y \in Range(t)
    BY <1>3, <1>4, <1>5 DEF Range
  <2> QED
    BY <2>1, <2>2
<1>7. ASSUME IsInjective(s), NEW j \in 1..Len(t), NEW k \in 1..Len(t), t[j] = t[k]
      PROVE  j = k
  <2>1. h[j] = h[k] /\ h[j] \in Int
    BY <1>3, <1>5, <1>7 DEF IsInjective
  <2>2. ~(h[j] < h[k]) /\ ~(h[k] < h[j])
    BY <2>1
  <2> QED
    BY <1>1, <1>2, <2>2 DEF Places
<1>8. IsInjective(s) => IsInjective(t)
  BY <1>5, <1>7 DEF IsInjective
<1> QED
  BY <1>1, <1>6, <1>8 DEF t
=============================================================================
