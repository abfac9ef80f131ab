----------------------------- MODULE CostsProof -----------------------------
(***************************************************************************)
(* Running totals satisfy their recursive definition, and do not decrease  *)
(* when the amounts are natural numbers; and what this rests on: induction *)
(* over the natural numbers in a form the provers can use, where the       *)
(* predicate is a set, and the existence of functions defined by recursion *)
(* over an interval.                                                       *)
(***************************************************************************)
EXTENDS Costs, NaturalsInduction, WellFoundedInduction, TLAPS

\* A non-empty set of natural numbers has a least element.
LEMMA LeastElement ==
    ASSUME NEW T \in SUBSET Nat, T # {}
    PROVE  \E m \in T : \A n \in T : m <= n
<1>1. IsWellFoundedOn(OpToRel(<, Nat), Nat)
  BY NatLessThanWellFounded
<1>2. PICK m \in T : \A n \in T : ~(<<n, m>> \in OpToRel(<, Nat))
  BY <1>1, WFMin
<1>3. \A n \in T : ~(n < m)
  BY <1>2 DEF OpToRel
<1> QED
  BY <1>3

\* A set that holds 0 and is closed under successor below n holds 0..n.
LEMMA IntervalInduction ==
    ASSUME NEW n \in Nat, NEW T,
           0 \in T,
           \A i \in 0..(n-1) : i \in T => i + 1 \in T
    PROVE  0..n \subseteq T
<1> DEFINE Bad == {i \in 0..n : i \notin T}
<1>1. SUFFICES ASSUME Bad # {} PROVE FALSE
  OBVIOUS
<1>2. PICK m \in Bad : \A k \in Bad : m <= k
  <2>1. Bad \in SUBSET Nat
    OBVIOUS
  <2> HIDE DEF Bad
  <2> QED BY <1>1, <2>1, LeastElement
<1>3. m # 0 /\ m - 1 \in 0..(n-1) /\ m - 1 \notin Bad
  BY <1>2
<1>4. m - 1 \in T
  BY <1>3
<1> QED
  BY <1>2, <1>3, <1>4

\* n steps, each from S to S, and a function that takes them from x.
Steps(step, n, S) == step \in [1..n -> [S -> S]]
Follows(f, step, n, x) == f[0] = x /\ \A i \in 1..n : f[i] = step[i][f[i-1]]

\* A sequence of n steps from x exists in S when every step stays in S.
LEMMA RecursionExists ==
    ASSUME NEW n \in Nat, NEW S, NEW x \in S, NEW step, Steps(step, n, S)
    PROVE  \E f \in [0..n -> S] : Follows(f, step, n, x)
<1> USE DEF Steps, Follows
<1> DEFINE Reached == {m \in 0..n : \E f \in [0..m -> S] :
                          f[0] = x /\ \A i \in 1..m : f[i] = step[i][f[i-1]]}
<1>1. 0 \in Reached
  <2> DEFINE f0 == [i \in 0..0 |-> x]
  <2>1. f0 \in [0..0 -> S] /\ f0[0] = x
    OBVIOUS
  <2>2. \A i \in 1..0 : f0[i] = step[i][f0[i-1]]
    OBVIOUS
  <2>3. 0 \in 0..n
    OBVIOUS
  <2> HIDE DEF f0
  <2> QED BY <2>1, <2>2, <2>3
<1>2. ASSUME NEW m \in 0..(n-1), m \in Reached
      PROVE  m + 1 \in Reached
  <2>1. PICK f \in [0..m -> S] : f[0] = x /\ \A i \in 1..m : f[i] = step[i][f[i-1]]
    BY <1>2
  <2> DEFINE g == [i \in 0..(m+1) |-> IF i = m + 1 THEN step[m+1][f[m]] ELSE f[i]]
  <2>2. m \in 0..m /\ m + 1 \in 1..n /\ m + 1 \in 0..n /\ f[m] \in S
    BY <2>1
  <2>3. step[m+1][f[m]] \in S
    BY <2>2
  <2>4. g \in [0..(m+1) -> S]
    BY <2>1, <2>3
  <2>5. g[0] = x /\ \A i \in 1..(m+1) : g[i] = step[i][g[i-1]]
    BY <2>1
  <2> HIDE DEF g
  <2> QED
    BY <2>2, <2>4, <2>5
<1>3. 0..n \subseteq Reached
  <2> HIDE DEF Reached
  <2> QED BY <1>1, <1>2, IntervalInduction
<1>4. n \in Reached
  <2> HIDE DEF Reached
  <2> QED BY <1>3
<1> QED
  BY <1>4

\* The running sums of n integers from start exist.
LEMMA SumsExist ==
    ASSUME NEW n \in Nat, NEW start \in Int, NEW a \in [1..n -> Int]
    PROVE  \E f \in [0..n -> Int] :
              f[0] = start /\ \A i \in 1..n : f[i] = f[i-1] + a[i]
<1> DEFINE Reached == {m \in 0..n : \E f \in [0..m -> Int] :
                          f[0] = start /\ \A i \in 1..m : f[i] = f[i-1] + a[i]}
<1>1. 0 \in Reached
  <2> DEFINE f0 == [i \in 0..0 |-> start]
  <2>1. f0 \in [0..0 -> Int] /\ f0[0] = start
    OBVIOUS
  <2>2. \A i \in 1..0 : f0[i] = f0[i-1] + a[i]
    OBVIOUS
  <2>3. 0 \in 0..n
    OBVIOUS
  <2> HIDE DEF f0
  <2> QED BY <2>1, <2>2, <2>3
<1>2. ASSUME NEW m \in 0..(n-1), m \in Reached
      PROVE  m + 1 \in Reached
  <2>1. PICK f \in [0..m -> Int] : f[0] = start /\ \A i \in 1..m : f[i] = f[i-1] + a[i]
    BY <1>2
  <2> DEFINE g == [i \in 0..(m+1) |-> IF i = m + 1 THEN f[m] + a[m+1] ELSE f[i]]
  <2>2. m \in 0..m /\ m + 1 \in 1..n /\ m + 1 \in 0..n /\ f[m] \in Int
    BY <2>1
  <2>3. g \in [0..(m+1) -> Int]
    BY <2>1, <2>2
  <2>4. g[0] = start /\ \A i \in 1..(m+1) : g[i] = g[i-1] + a[i]
    BY <2>1
  <2> HIDE DEF g
  <2> QED BY <2>2, <2>3, <2>4
<1>3. 0..n \subseteq Reached
  <2> HIDE DEF Reached
  <2> QED BY <1>1, <1>2, IntervalInduction
<1>4. n \in Reached
  <2> HIDE DEF Reached
  <2> QED BY <1>3
<1> QED
  BY <1>4

-----------------------------------------------------------------------------
\* Totals satisfies its recursive definition.
LEMMA TotalsDef ==
    ASSUME NEW start \in Int, NEW amounts, Len(amounts) \in Nat,
           \A i \in 1..Len(amounts) : amounts[i] \in Int
    PROVE  /\ Totals(start, amounts) \in [0..Len(amounts) -> Int]
           /\ Totals(start, amounts)[0] = start
           /\ \A i \in 1..Len(amounts) :
                Totals(start, amounts)[i] = Totals(start, amounts)[i-1] + amounts[i]
<1> DEFINE n == Len(amounts)
           a == [i \in 1..n |-> amounts[i]]
           Eqn(f) == f = [i \in 0..n |-> IF i = 0 THEN start ELSE f[i-1] + amounts[i]]
<1>1. a \in [1..n -> Int]
  OBVIOUS
<1>2. PICK f \in [0..n -> Int] : f[0] = start /\ \A i \in 1..n : f[i] = f[i-1] + a[i]
  <2> HIDE DEF a
  <2> QED BY <1>1, SumsExist
<1>3. Eqn(f)
  <2>1. f = [i \in 0..n |-> f[i]]
    OBVIOUS
  <2>2. \A i \in 0..n : f[i] = IF i = 0 THEN start ELSE f[i-1] + amounts[i]
    BY <1>2
  <2> QED
    BY <2>1, <2>2
<1>4. Eqn(Totals(start, amounts))
  <2>1. Totals(start, amounts) = CHOOSE g : Eqn(g)
    BY DEF Totals
  <2> HIDE DEF Eqn
  <2> QED BY <1>3, <2>1
<1> DEFINE t == Totals(start, amounts)
<1>5. t[0] = start /\ \A i \in 1..n : t[i] = t[i-1] + amounts[i]
  BY <1>4, SMTT(20)
<1>6. 0..n \subseteq {i \in 0..n : t[i] \in Int}
  <2> DEFINE T == {i \in 0..n : t[i] \in Int}
  <2> HIDE DEF t
  <2>1. 0 \in T
    BY <1>5
  <2>2. \A i \in 0..(n-1) : i \in T => i + 1 \in T
    BY <1>5
  <2>3. n \in Nat
    OBVIOUS
  <2> HIDE DEF T, n
  <2>4. 0..n \subseteq T
    BY <2>1, <2>2, <2>3, IntervalInduction
  <2> QED BY <2>4 DEF T
<1>7. DOMAIN t = 0..n /\ t = [i \in 0..n |-> t[i]]
  BY <1>4
<1> QED
  <2> HIDE DEF t
  <2>1. t \in [0..n -> Int]
    BY <1>6, <1>7
  <2> QED BY <1>5, <2>1 DEF t

\* Totals of natural numbers do not decrease, and the first amount stays.
LEMMA TotalsGrow ==
    ASSUME NEW start \in Nat, NEW amounts, Len(amounts) \in Nat,
           \A i \in 1..Len(amounts) : amounts[i] \in Nat
    PROVE  /\ \A i \in 0..Len(amounts) :
                Totals(start, amounts)[i] \in Nat /\ Totals(start, amounts)[i] >= start
           /\ Len(amounts) > 0 => Total(start, amounts) >= start + amounts[1]
<1> DEFINE n == Len(amounts)
           t == Totals(start, amounts)
           T == {i \in 0..n : t[i] \in Nat /\ t[i] >= start
                                /\ (i > 0 => t[i] >= start + amounts[1])}
<1>1. t[0] = start /\ \A i \in 1..n : t[i] = t[i-1] + amounts[i]
  BY TotalsDef
<1> HIDE DEF t
<1>2. 0 \in T
  BY <1>1
<1>3. \A i \in 0..(n-1) : i \in T => i + 1 \in T
  BY <1>1
<1>4. 0..n \subseteq T
  <2> HIDE DEF T
  <2> QED BY <1>2, <1>3, IntervalInduction
<1> QED
  BY <1>4 DEF Total, t

-----------------------------------------------------------------------------
(* Sums of sequences that differ in one place, or are joined. *)

IsInts(a) == Len(a) \in Nat /\ \A i \in 1..Len(a) : a[i] \in Int

\* g starts at start and each of its steps adds the next amount of a.
Tracks(g, start, a) ==
    /\ Len(a) \in Nat
    /\ \A i \in 1..Len(a) : a[i] \in Int
    /\ g[0] = start
    /\ \A i \in 1..Len(a) : g[i] = g[i-1] + a[i]

\* Running totals are determined by their first value and their steps.
LEMMA TotalsUnique ==
    ASSUME NEW start \in Int, NEW a, NEW g, Tracks(g, start, a)
    PROVE  \A i \in 0..Len(a) : Totals(start, a)[i] = g[i]
<1> DEFINE n == Len(a)
           t == Totals(start, a)
           T == {i \in 0..n : t[i] = g[i]}
<1>1. t[0] = start /\ \A i \in 1..n : t[i] = t[i-1] + a[i]
  BY TotalsDef DEF Tracks
<1>2. /\ n \in Nat /\ g[0] = start
      /\ \A i \in 1..n : g[i] = g[i-1] + a[i]
  BY DEF Tracks
<1> HIDE DEF t, n
<1>3. 0 \in T
  BY <1>1, <1>2
<1>4. \A i \in 0..(n-1) : i \in T => i + 1 \in T
  BY <1>1, <1>2
<1>5. 0..n \subseteq T
  <2> HIDE DEF T
  <2> QED BY <1>2, <1>3, <1>4, IntervalInduction
<1> QED
  BY <1>5 DEF t, n

\* Sequences of integers that are what they say, element by element.
LEMMA TotalType ==
    ASSUME NEW a, IsInts(a)
    PROVE  Total(0, a) \in Int
  BY TotalsDef DEF IsInts, Total

\* A sum of amounts that are each at most another's is at most the other's.
LEMMA TotalMonotone ==
    ASSUME NEW a, NEW b, IsInts(a), IsInts(b), Len(a) = Len(b),
           \A i \in 1..Len(a) : a[i] <= b[i]
    PROVE  Total(0, a) <= Total(0, b)
<1> DEFINE n == Len(a)
           s == Totals(0, a)
           t == Totals(0, b)
           T == {i \in 0..n : s[i] <= t[i]}
<1>1. n \in Nat /\ \A i \in 1..n : a[i] \in Int /\ b[i] \in Int /\ a[i] <= b[i]
  BY DEF IsInts
<1>2. s \in [0..n -> Int] /\ s[0] = 0 /\ \A i \in 1..n : s[i] = s[i-1] + a[i]
  BY TotalsDef DEF IsInts
<1>3. t \in [0..n -> Int] /\ t[0] = 0 /\ \A i \in 1..n : t[i] = t[i-1] + b[i]
  BY TotalsDef DEF IsInts
<1>4. s[n] = Total(0, a) /\ t[n] = Total(0, b)
  BY DEF Total
<1> HIDE DEF n, s, t
<1>5. 0 \in T
  BY <1>1, <1>2, <1>3
<1>6. \A i \in 0..(n-1) : i \in T => i + 1 \in T
  <2> SUFFICES ASSUME NEW i \in 0..(n-1), s[i] <= t[i] PROVE s[i+1] <= t[i+1]
    BY <1>1
  <2>1. i + 1 \in 1..n /\ (i + 1) - 1 = i /\ i \in 0..n
    BY <1>1
  <2>2. s[i+1] = s[i] + a[i+1] /\ t[i+1] = t[i] + b[i+1] /\ a[i+1] <= b[i+1]
    BY <1>1, <1>2, <1>3, <2>1
  <2>3. s[i] \in Int /\ t[i] \in Int /\ a[i+1] \in Int /\ b[i+1] \in Int
    BY <1>1, <1>2, <1>3, <2>1
  <2> QED BY ONLY <2>2, <2>3, s[i] <= t[i]
<1>7. 0..n \subseteq T
  <2> HIDE DEF T
  <2> QED BY <1>1, <1>5, <1>6, IntervalInduction
<1> QED
  BY <1>1, <1>4, <1>7

\* The sum is the last value of any function that runs through it.
LEMMA TotalIs ==
    ASSUME NEW a, NEW g, Tracks(g, 0, a)
    PROVE  Total(0, a) = g[Len(a)]
<1>1. Len(a) \in Nat
  BY DEF Tracks
<1> QED
  BY <1>1, TotalsUnique DEF Total

\* b is a with x put in after the first k.
Inserts(a, k, x, b) ==
    /\ IsInts(a) /\ k \in 0..Len(a) /\ x \in Int
    /\ Len(b) = Len(a) + 1
    /\ \A i \in 1..k : b[i] = a[i]
    /\ b[k+1] = x
    /\ \A i \in (k+1)..Len(a) : b[i+1] = a[i]

\* One more amount adds to the sum, wherever it stands.
LEMMA TotalInsert ==
    ASSUME NEW a, NEW k, NEW x, NEW b, Inserts(a, k, x, b)
    PROVE  IsInts(b) /\ Total(0, b) = Total(0, a) + x
<1> DEFINE n == Len(a)
           s == Totals(0, a)
           g == [i \in 0..(n+1) |-> IF i <= k THEN s[i] ELSE s[i-1] + x]
<1>1. /\ n \in Nat /\ k \in 0..n /\ x \in Int /\ Len(b) = n + 1 /\ b[k+1] = x
      /\ \A i \in 1..n : a[i] \in Int
      /\ \A i \in 1..k : b[i] = a[i]
      /\ \A i \in (k+1)..n : b[i+1] = a[i]
  BY DEF Inserts, IsInts
<1>2. s \in [0..n -> Int] /\ s[0] = 0 /\ \A i \in 1..n : s[i] = s[i-1] + a[i]
  BY TotalsDef, <1>1
<1>3. s[n] = Total(0, a)
  BY DEF Total
<1> HIDE DEF n, s
<1>4. ASSUME NEW i \in 1..(n+1) PROVE b[i] \in Int /\ g[i] = g[i-1] + b[i]
  <2>1. CASE i <= k
    <3>1. i \in 1..k /\ i \in 1..n /\ i - 1 <= k /\ i - 1 \in 0..(n+1) /\ i \in 0..(n+1)
      BY <1>1, <2>1
    <3>2. g[i] = s[i] /\ g[i-1] = s[i-1]
      BY <2>1, <3>1
    <3> QED BY <1>1, <1>2, <3>1, <3>2
  <2>2. CASE i = k + 1
    BY <1>1, <1>2, <2>2
  <2>3. CASE i > k + 1
    <3>1. i - 1 \in (k+1)..n /\ (i - 1) + 1 = i /\ i - 1 \in 1..n
      BY <1>1, <2>3
    <3>2. b[i] = a[i-1] /\ s[i-1] = s[(i-1)-1] + a[i-1]
      BY <1>1, <1>2, <3>1
    <3>3. g[i] = s[i-1] + x /\ g[i-1] = s[(i-1)-1] + x
      BY <1>1, <2>3
    <3>4. s[(i-1)-1] \in Int /\ a[i-1] \in Int
      BY <1>1, <1>2, <2>3
    <3> QED BY <1>1, <3>2, <3>3, <3>4
  <2> QED BY <1>1, <2>1, <2>2, <2>3
<1>5. g[0] = 0 /\ g[n+1] = s[n] + x
  BY <1>1, <1>2
<1> HIDE DEF g
<1>6. Tracks(g, 0, b)
  BY <1>1, <1>4, <1>5 DEF Tracks
<1> QED
  BY <1>1, <1>3, <1>4, <1>5, <1>6, TotalIs DEF IsInts

\* b is a with its k-th and its next element exchanged.
Exchanges(a, k, b) ==
    /\ IsInts(a) /\ k \in 1..(Len(a) - 1)
    /\ Len(b) = Len(a)
    /\ b[k] = a[k+1] /\ b[k+1] = a[k]
    /\ \A i \in 1..Len(a) : i \notin {k, k+1} => b[i] = a[i]

\* A sum does not depend on the order.
LEMMA TotalExchange ==
    ASSUME NEW a, NEW k, NEW b, Exchanges(a, k, b)
    PROVE  IsInts(b) /\ Total(0, b) = Total(0, a)
<1> DEFINE n == Len(a)
           s == Totals(0, a)
           g == [i \in 0..n |-> IF i = k THEN s[k-1] + a[k+1] ELSE s[i]]
<1>1. /\ n \in Nat /\ k \in 1..(n-1) /\ Len(b) = n
      /\ \A i \in 1..n : a[i] \in Int
      /\ b[k] = a[k+1] /\ b[k+1] = a[k]
      /\ \A i \in 1..n : i \notin {k, k+1} => b[i] = a[i]
  BY DEF Exchanges, IsInts
<1>2. s \in [0..n -> Int] /\ s[0] = 0 /\ \A i \in 1..n : s[i] = s[i-1] + a[i]
  BY TotalsDef, <1>1, SMTT(20)
<1>3. s[n] = Total(0, a)
  BY DEF Total
<1> HIDE DEF n, s
<1>4. ASSUME NEW i \in 1..n PROVE b[i] \in Int /\ g[i] = g[i-1] + b[i]
  <2>1. CASE i = k
    BY <1>1, <1>2, <2>1
  <2>2. CASE i = k + 1
    <3>1. g[i-1] = s[k-1] + a[k+1] /\ g[i] = s[k+1] /\ b[i] = a[k]
      BY <1>1, <2>2
    <3>2. s[k+1] = s[(k+1)-1] + a[k+1] /\ s[k] = s[k-1] + a[k] /\ (k+1)-1 = k
      BY <1>1, <1>2
    <3>3. s[k-1] \in Int /\ a[k] \in Int /\ a[k+1] \in Int
      BY <1>1, <1>2
    <3> QED BY <3>1, <3>2, <3>3
  <2>3. CASE i \notin {k, k+1}
    <3>1. g[i] = s[i] /\ g[i-1] = s[i-1]
      BY <1>1, <2>3
    <3>2. b[i] = a[i] /\ a[i] \in Int /\ s[i] = s[i-1] + a[i]
      BY <1>1, <1>2, <2>3
    <3> QED BY <3>1, <3>2
  <2> QED BY <2>1, <2>2, <2>3
<1>5. g[0] = 0 /\ g[n] = s[n]
  BY <1>1, <1>2
<1> HIDE DEF g
<1>6. Tracks(g, 0, b)
  BY <1>1, <1>4, <1>5 DEF Tracks
<1> QED
  BY <1>1, <1>3, <1>4, <1>5, <1>6, TotalIs DEF IsInts

\* c is a with b after it.
Joins(a, b, c) ==
    /\ IsInts(a) /\ IsInts(b)
    /\ Len(c) = Len(a) + Len(b)
    /\ \A i \in 1..Len(a) : c[i] = a[i]
    /\ \A i \in 1..Len(b) : c[Len(a) + i] = b[i]

\* The sum of two sequences joined is that of their sums.
LEMMA TotalJoin ==
    ASSUME NEW a, NEW b, NEW c, Joins(a, b, c)
    PROVE  IsInts(c) /\ Total(0, c) = Total(0, a) + Total(0, b)
<1> DEFINE m == Len(a)
           n == Len(b)
           s == Totals(0, a)
           t == Totals(0, b)
           g == [i \in 0..(m+n) |-> IF i <= m THEN s[i] ELSE s[m] + t[i-m]]
<1>1. /\ m \in Nat /\ n \in Nat /\ Len(c) = m + n
      /\ \A i \in 1..m : a[i] \in Int /\ c[i] = a[i]
      /\ \A i \in 1..n : b[i] \in Int /\ c[m+i] = b[i]
  BY DEF Joins, IsInts
<1>2. s \in [0..m -> Int] /\ s[0] = 0 /\ \A i \in 1..m : s[i] = s[i-1] + a[i]
  BY TotalsDef, <1>1
<1>3. t \in [0..n -> Int] /\ t[0] = 0 /\ \A i \in 1..n : t[i] = t[i-1] + b[i]
  BY TotalsDef, <1>1
<1>4. s[m] = Total(0, a) /\ t[n] = Total(0, b)
  BY DEF Total
<1> HIDE DEF m, n, s, t
<1>5. ASSUME NEW i \in 1..(m+n) PROVE c[i] \in Int /\ g[i] = g[i-1] + c[i]
  <2>1. CASE i <= m
    BY <1>1, <1>2, <2>1
  <2>2. CASE i > m
    <3>1. i - m \in 1..n /\ m + (i - m) = i
      BY <1>1, <2>2
    <3>2. c[i] = b[i-m] /\ b[i-m] \in Int /\ t[i-m] = t[(i-m)-1] + b[i-m]
      BY <1>1, <1>3, <3>1
    <3>3. g[i] = s[m] + t[i-m]
      BY <1>1, <2>2
    <3>4. g[i-1] = s[m] + t[(i-m)-1]
      <4>1. CASE i = m + 1
        BY <1>1, <1>2, <1>3, <4>1
      <4>2. CASE i # m + 1
        <5>1. ~(i - 1 <= m) /\ (i - 1) - m = (i - m) - 1 /\ i - 1 \in 0..(m+n)
          BY <1>1, <2>2, <4>2
        <5> QED BY <5>1
      <4> QED BY <4>1, <4>2
    <3>5. s[m] \in Int /\ t[(i-m)-1] \in Int
      BY <1>1, <1>2, <1>3, <3>1
    <3> QED BY <3>2, <3>3, <3>4, <3>5
  <2> QED BY <1>1, <2>1, <2>2
<1>6. g[0] = 0 /\ g[m+n] = s[m] + t[n]
  BY <1>1, <1>2, <1>3
<1> HIDE DEF g
<1>7. Tracks(g, 0, c)
  BY <1>1, <1>5, <1>6 DEF Tracks
<1>8. Len(c) \in Nat /\ \A i \in 1..Len(c) : c[i] \in Int
  BY <1>1, <1>5
<1>9. Total(0, c) = g[m+n]
  BY <1>1, <1>7, TotalIs
<1> QED
  BY <1>4, <1>6, <1>8, <1>9 DEF IsInts
=============================================================================
