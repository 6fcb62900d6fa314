----------------------------- MODULE WireProofs -----------------------------
(***************************************************************************)
(* Proofs about the frames: what is encoded is decoded, and a frame that   *)
(* lost its end decodes to nothing that was not sent.                      *)
(***************************************************************************)
EXTENDS WireFrames, NullifierKeyProofs

-----------------------------------------------------------------------------
(***************************************************************************)
(* Recursion.  A function that finds its value at a number from its values *)
(* at smaller ones exists.                                                 *)
(***************************************************************************)

\* B gives the value at n of a function f, from the values of f below n.
LooksBelow(B, T) ==
    /\ B \in [Nat -> [[Nat -> T] -> T]]
    /\ \A f, g \in [Nat -> T] : \A n \in Nat :
          (\A j \in Nat : j < n => f[j] = g[j]) => B[n][f] = B[n][g]

SolvesBelow(f, B, n) == \A i \in Nat : i < n => f[i] = B[i][f]

SolvesAll(f, B) == \A n \in Nat : f[n] = B[n][f]

\* Two functions that solve the equations below a number agree there.
LEMMA SolutionsAgree ==
    ASSUME NEW T, NEW B, LooksBelow(B, T), NEW f \in [Nat -> T], NEW g \in [Nat -> T],
           NEW n \in Nat, SolvesBelow(f, B, n), SolvesBelow(g, B, n)
    PROVE  \A i \in Nat : i < n => f[i] = g[i]
<1> DEFINE bad == {i \in Nat : i < n /\ f[i] # g[i]}
<1> SUFFICES ASSUME bad # {} PROVE FALSE
  OBVIOUS
<1>1. PICK m \in bad : \A j \in bad : m <= j
  <2>1. bad \in SUBSET Nat
    OBVIOUS
  <2> HIDE DEF bad
  <2> QED BY <2>1, LeastNatural
<1>2. m \in Nat /\ m < n /\ f[m] # g[m]
  OBVIOUS
<1>3. \A j \in Nat : j < m => f[j] = g[j]
  <2> SUFFICES ASSUME NEW j \in Nat, j < m, f[j] # g[j] PROVE FALSE
    OBVIOUS
  <2>1. j \in bad /\ ~ (m <= j)
    BY <1>2
  <2> QED BY <1>1, <2>1
<1>4. B[m][f] = B[m][g]
  BY <1>2, <1>3 DEF LooksBelow
<1> QED BY <1>2, <1>4 DEF SolvesBelow

\* The equations below any number have a solution.
LEMMA SolutionsBelow ==
    ASSUME NEW T, T # {}, NEW B, LooksBelow(B, T), NEW n \in Nat
    PROVE  \E f \in [Nat -> T] : SolvesBelow(f, B, n)
<1> DEFINE bad == {m \in Nat : ~ \E f \in [Nat -> T] : SolvesBelow(f, B, m)}
<1> SUFFICES ASSUME bad # {} PROVE FALSE
  OBVIOUS
<1>1. PICK m \in bad : \A j \in bad : m <= j
  <2>1. bad \in SUBSET Nat
    OBVIOUS
  <2> HIDE DEF bad
  <2> QED BY <2>1, LeastNatural
<1>2. m \in Nat /\ ~ \E f \in [Nat -> T] : SolvesBelow(f, B, m)
  OBVIOUS
<1>3. CASE m = 0
  <2>1. PICK t \in T : TRUE
    OBVIOUS
  <2>2. [i \in Nat |-> t] \in [Nat -> T]
    OBVIOUS
  <2>3. \A f : SolvesBelow(f, B, 0)
    BY DEF SolvesBelow
  <2> QED BY <1>2, <1>3, <2>2, <2>3
<1>4. CASE m # 0
  <2>1. m - 1 \in Nat /\ ~ (m <= m - 1)
    BY <1>2, <1>4
  <2>2. PICK f \in [Nat -> T] : SolvesBelow(f, B, m - 1)
    BY <1>1, <2>1
  <2> DEFINE g == [f EXCEPT ![m - 1] = B[m - 1][f]]
  <2>3. B[m - 1][f] \in T
    BY <2>1 DEF LooksBelow
  <2>4. g \in [Nat -> T] /\ g[m - 1] = B[m - 1][f] /\ \A j \in Nat : j # m - 1 => g[j] = f[j]
    BY <2>1, <2>3
  <2> HIDE DEF g
  <2>5. \A i \in Nat : i < m => B[i][f] = B[i][g]
    <3> SUFFICES ASSUME NEW i \in Nat, i < m PROVE B[i][f] = B[i][g]
      OBVIOUS
    <3>1. \A j \in Nat : j < i => f[j] = g[j]
      BY <1>2, <2>1, <2>4
    <3> QED BY <2>4, <3>1 DEF LooksBelow
  <2>6. SolvesBelow(g, B, m)
    <3> SUFFICES ASSUME NEW i \in Nat, i < m PROVE g[i] = B[i][g]
      BY DEF SolvesBelow
    <3>1. CASE i = m - 1
      BY <2>4, <2>5, <3>1
    <3>2. CASE i # m - 1
      <4>1. i < m - 1
        BY <1>2, <3>2
      <4> QED BY <2>2, <2>4, <2>5, <3>2, <4>1 DEF SolvesBelow
    <3> QED BY <3>1, <3>2
  <2> QED BY <1>2, <2>4, <2>6
<1> QED BY <1>3, <1>4

\* A function that solves all the equations exists.
LEMMA RecursionBelow ==
    ASSUME NEW T, T # {}, NEW B, LooksBelow(B, T)
    PROVE  \E f \in [Nat -> T] : SolvesAll(f, B)
<1> DEFINE Sol(n) == CHOOSE f \in [Nat -> T] : SolvesBelow(f, B, n)
           g == [n \in Nat |-> Sol(n + 1)[n]]
<1>1. \A n \in Nat : Sol(n) \in [Nat -> T] /\ SolvesBelow(Sol(n), B, n)
  BY SolutionsBelow
<1> HIDE DEF Sol
<1>2. g \in [Nat -> T] /\ \A n \in Nat : g[n] = Sol(n + 1)[n]
  BY <1>1
<1> HIDE DEF g
<1>3. ASSUME NEW n \in Nat PROVE g[n] = B[n][g]
  <2> DEFINE s == Sol(n + 1)
  <2>1. s \in [Nat -> T] /\ SolvesBelow(s, B, n + 1)
    BY <1>1
  <2>2. \A j \in Nat : j < n => s[j] = g[j]
    <3> SUFFICES ASSUME NEW j \in Nat, j < n PROVE s[j] = g[j]
      OBVIOUS
    <3> DEFINE r == Sol(j + 1)
    <3>1. r \in [Nat -> T] /\ SolvesBelow(r, B, j + 1) /\ g[j] = r[j]
      BY <1>1, <1>2
    <3> HIDE DEF s, r
    <3>2. SolvesBelow(s, B, j + 1)
      BY <2>1 DEF SolvesBelow
    <3>3. j + 1 \in Nat /\ j < j + 1
      OBVIOUS
    <3>4. s[j] = r[j]
      BY <2>1, <3>1, <3>2, <3>3, SolutionsAgree
    <3> QED BY <3>1, <3>4
  <2>3. g[n] = s[n]
    BY <1>2
  <2> HIDE DEF s
  <2>4. s[n] = B[n][s]
    BY <2>1 DEF SolvesBelow
  <2>5. B[n][s] = B[n][g]
    BY <1>2, <2>1, <2>2 DEF LooksBelow
  <2> QED BY <2>3, <2>4, <2>5
<1> QED BY <1>2, <1>3 DEF SolvesAll

-----------------------------------------------------------------------------
(***************************************************************************)
(* Digits                                                                  *)
(***************************************************************************)

\* A number is made of its last digit and of the rest, which is smaller.
LEMMA Quotient ==
    ASSUME NEW v \in Nat
    PROVE  /\ GROUP \in Nat /\ GROUP >= 2
           /\ v \div GROUP \in Nat
           /\ v % GROUP \in 0..(GROUP - 1)
           /\ v = GROUP * (v \div GROUP) + (v % GROUP)
           /\ v >= GROUP => v \div GROUP < v
<1>1. GROUP \in Nat /\ GROUP >= 2
  BY WireAssumption
<1>2. v \div GROUP \in Int /\ v % GROUP \in 0..(GROUP - 1)
  BY <1>1
<1>3. v = GROUP * (v \div GROUP) + (v % GROUP)
  BY <1>1
<1> DEFINE q == v \div GROUP
           r == v % GROUP
<1>4. q \in Int /\ r \in 0..(GROUP - 1) /\ v = GROUP * q + r
  BY <1>2, <1>3
<1> HIDE DEF q, r
<1>5. q >= 0
  <2> SUFFICES ASSUME q <= -1 PROVE FALSE
    BY <1>4
  <2>1. GROUP * q <= GROUP * (-1)
    BY <1>1, <1>4
  <2> QED BY <1>1, <1>4, <2>1
<1>6. v >= GROUP => q < v
  <2> SUFFICES ASSUME v >= GROUP, q >= v PROVE FALSE
    BY <1>4
  <2>1. GROUP * q >= 2 * q
    BY <1>1, <1>4, <1>5
  <2> QED BY <1>1, <1>4, <1>5, <2>1
<1> QED BY <1>1, <1>2, <1>3, <1>5, <1>6 DEF q

\* The rest of a number and its marked last digit are numbers.
LEMMA Digits ==
    ASSUME NEW v \in Nat
    PROVE  /\ v \div GROUP \in Nat
           /\ GROUP + (v % GROUP) \in Nat
           /\ ~ (v < GROUP) => v \div GROUP < v /\ ~ (v <= v \div GROUP)
<1> DEFINE q == v \div GROUP
           r == v % GROUP
<1>1. GROUP \in Nat /\ q \in Nat /\ r \in 0..(GROUP - 1) /\ (v >= GROUP => q < v)
  BY Quotient
<1> HIDE DEF q, r
<1>2. q \in Nat /\ GROUP + r \in Nat /\ (~ (v < GROUP) => q < v /\ ~ (v <= q))
  BY <1>1
<1> QED BY <1>2 DEF q, r

\* The rest of a number is at most the rest of a greater one.
LEMMA QuotientMonotone ==
    ASSUME NEW v \in Nat, NEW w \in Nat, v <= w
    PROVE  v \div GROUP <= w \div GROUP
<1> DEFINE q == v \div GROUP
           p == w \div GROUP
           r == v % GROUP
           s == w % GROUP
<1>1. /\ GROUP \in Nat /\ GROUP >= 2 /\ q \in Nat /\ p \in Nat
      /\ r \in 0..(GROUP - 1) /\ s \in 0..(GROUP - 1)
      /\ v = GROUP * q + r /\ w = GROUP * p + s
  BY Quotient
<1> HIDE DEF q, p, r, s
<1> SUFFICES ASSUME q >= p + 1 PROVE FALSE
  BY <1>1 DEF q, p
<1>2. GROUP * q >= GROUP * (p + 1)
  BY <1>1
<1>3. GROUP * (p + 1) = GROUP * p + GROUP
  BY <1>1
<1> QED BY <1>1, <1>2, <1>3

\* A digit put below a number is its last one.
LEMMA MarkedDigit ==
    ASSUME NEW d \in 0..(GROUP - 1)
    PROVE  GROUP + d \in Nat /\ ~ (GROUP + d < GROUP) /\ (GROUP + d) % GROUP = d
<1>1. GROUP \in Nat /\ GROUP >= 2
  BY WireAssumption
<1> DEFINE x == GROUP + d
           q == x \div GROUP
           r == x % GROUP
<1>2. x \in Nat
  BY <1>1
<1>3. q \in Nat /\ r \in 0..(GROUP - 1) /\ x = GROUP * q + r
  BY <1>2, Quotient
<1>4. x = GROUP + d
  OBVIOUS
<1> HIDE DEF x, q, r
<1>5. q = 1
  <2>1. CASE q = 0
    BY <1>1, <1>3, <1>4, <2>1
  <2>2. CASE q >= 2
    <3>1. GROUP * q >= GROUP * 2
      BY <1>1, <1>3, <2>2
    <3> QED BY <1>1, <1>3, <1>4, <3>1
  <2> QED BY <1>3, <2>1, <2>2
<1> QED BY <1>1, <1>3, <1>4, <1>5 DEF x, r

\* The varint of a number, digit by digit.
LEMMA PutVarint ==
    /\ put_varint \in [Nat -> Seq(Nat)]
    /\ \A v \in Nat : put_varint[v] = IF v < GROUP THEN <<v>>
                                      ELSE <<GROUP + (v % GROUP)>> \o put_varint[v \div GROUP]
<1> DEFINE T == Seq(Nat)
           V(f, v) == IF v < GROUP THEN <<v>> ELSE <<GROUP + (v % GROUP)>> \o f[v \div GROUP]
           B == [v \in Nat |-> [f \in [Nat -> T] |-> V(f, v)]]
           P == CHOOSE p : p = [v \in Nat |-> V(p, v)]
<1>1. T # {}
  <2>1. << >> \in T
    OBVIOUS
  <2> QED BY <2>1
<1>2. ASSUME NEW v \in Nat, NEW f \in [Nat -> T] PROVE V(f, v) \in T
  <2>1. v \div GROUP \in Nat /\ GROUP + (v % GROUP) \in Nat
    BY Digits
  <2>2. f[v \div GROUP] \in Seq(Nat)
    BY <2>1
  <2>3. <<v>> \in Seq(Nat) /\ <<GROUP + (v % GROUP)>> \in Seq(Nat)
    BY <2>1
  <2>4. <<GROUP + (v % GROUP)>> \o f[v \div GROUP] \in Seq(Nat)
    BY <2>2, <2>3
  <2> QED BY <2>3, <2>4
<1>3. ASSUME NEW v \in Nat, NEW f \in [Nat -> T], NEW g \in [Nat -> T],
             \A j \in Nat : j < v => f[j] = g[j]
      PROVE  V(f, v) = V(g, v)
  <2>1. ~ (v < GROUP) => v \div GROUP \in Nat /\ v \div GROUP < v
    BY Digits
  <2>2. ~ (v < GROUP) => f[v \div GROUP] = g[v \div GROUP]
    BY <1>3, <2>1
  <2> QED BY <2>2
<1> HIDE DEF T, V
<1>4. LooksBelow(B, T)
  BY <1>2, <1>3 DEF LooksBelow
<1>5. \A v \in Nat : \A f \in [Nat -> T] : B[v][f] = V(f, v)
  OBVIOUS
<1> HIDE DEF B
<1>6. PICK f \in [Nat -> T] : SolvesAll(f, B)
  BY <1>1, <1>4, RecursionBelow
<1>7. \A v \in Nat : f[v] = V(f, v)
  BY <1>5, <1>6 DEF SolvesAll
<1>8. f = [v \in Nat |-> V(f, v)]
  BY <1>7
<1>9. P = [v \in Nat |-> V(P, v)]
  BY <1>8
<1>10. put_varint = P
  BY DEF put_varint, P, V
<1> HIDE DEF P
<1>11. P \in [Nat -> T]
  <2> DEFINE bad == {v \in Nat : P[v] \notin T}
  <2> SUFFICES ASSUME bad # {} PROVE FALSE
    BY <1>9
  <2>1. PICK m \in bad : \A j \in bad : m <= j
    <3>1. bad \in SUBSET Nat
      OBVIOUS
    <3> HIDE DEF bad
    <3> QED BY <3>1, LeastNatural
  <2>2. m \in Nat /\ P[m] \notin T
    OBVIOUS
  <2>3. P[m] = V(P, m)
    BY <1>9, <2>2
  <2>4. CASE m < GROUP
    BY <2>2, <2>3, <2>4 DEF V, T
  <2>5. CASE ~ (m < GROUP)
    <3>1. m \div GROUP \in Nat /\ m \div GROUP < m /\ GROUP + (m % GROUP) \in Nat
      BY <2>2, <2>5, Digits
    <3>2. ~ (m <= m \div GROUP)
      BY <2>2, <2>5, Digits
    <3>3. P[m \div GROUP] \in Seq(Nat)
      BY <2>1, <3>1, <3>2 DEF T
    <3>4. <<GROUP + (m % GROUP)>> \in Seq(Nat)
      BY <3>1
    <3>5. <<GROUP + (m % GROUP)>> \o P[m \div GROUP] \in Seq(Nat)
      BY <3>3, <3>4
    <3> QED BY <2>2, <2>3, <2>5, <3>5 DEF V, T
  <2> QED BY <2>4, <2>5
<1>12. \A v \in Nat : P[v] = V(P, v)
  BY <1>9
<1> QED BY <1>10, <1>11, <1>12 DEF V, T

\* A varint has at least one byte.
LEMMA VarintLength ==
    ASSUME NEW v \in Nat
    PROVE  /\ put_varint[v] \in Seq(Nat) /\ Len(put_varint[v]) \in Nat /\ Len(put_varint[v]) >= 1
           /\ v < GROUP => Len(put_varint[v]) = 1 /\ put_varint[v][1] = v
           /\ ~ (v < GROUP) =>
                 /\ Len(put_varint[v]) = Len(put_varint[v \div GROUP]) + 1
                 /\ put_varint[v][1] = GROUP + (v % GROUP)
                 /\ \A k \in 1..Len(put_varint[v \div GROUP]) :
                       put_varint[v][k + 1] = put_varint[v \div GROUP][k]
<1>1. v \div GROUP \in Nat /\ GROUP + (v % GROUP) \in Nat
  BY Digits
<1> DEFINE s == put_varint[v]
           t == put_varint[v \div GROUP]
           d == GROUP + (v % GROUP)
<1>2. s \in Seq(Nat) /\ t \in Seq(Nat) /\ d \in Nat
  BY <1>1, PutVarint
<1>3. s = IF v < GROUP THEN <<v>> ELSE <<d>> \o t
  BY PutVarint
<1> HIDE DEF s, t, d
<1>4. /\ s \in Seq(Nat) /\ Len(s) \in Nat /\ Len(s) >= 1
      /\ v < GROUP => Len(s) = 1 /\ s[1] = v
      /\ ~ (v < GROUP) => Len(s) = Len(t) + 1 /\ s[1] = d /\ \A k \in 1..Len(t) : s[k + 1] = t[k]
  BY <1>2, <1>3
<1> QED BY <1>4 DEF s, t, d

\* A smaller number has a varint that is not longer.
LEMMA VarintMonotone ==
    ASSUME NEW u \in Nat, NEW w \in Nat, u <= w
    PROVE  Len(put_varint[u]) <= Len(put_varint[w])
<1> DEFINE bad == {v \in Nat : \E x \in Nat : v <= x /\ Len(put_varint[v]) > Len(put_varint[x])}
<1> SUFFICES ASSUME bad # {} PROVE FALSE
  <2>1. u \notin bad
    OBVIOUS
  <2> QED BY <2>1, VarintLength
<1>1. PICK m \in bad : \A j \in bad : m <= j
  <2>1. bad \in SUBSET Nat
    OBVIOUS
  <2> HIDE DEF bad
  <2> QED BY <2>1, LeastNatural
<1>2. PICK x \in Nat : m <= x /\ Len(put_varint[m]) > Len(put_varint[x])
  OBVIOUS
<1>3. m \in Nat
  OBVIOUS
<1> DEFINE p == m \div GROUP
           q == x \div GROUP
<1>4. p \in Nat /\ q \in Nat /\ p <= q
  BY <1>2, <1>3, Digits, QuotientMonotone
<1>5. ~ (m < GROUP)
  <2> SUFFICES ASSUME m < GROUP PROVE FALSE
    OBVIOUS
  <2>1. Len(put_varint[m]) = 1 /\ Len(put_varint[x]) \in Nat /\ Len(put_varint[x]) >= 1
    BY <1>2, <1>3, VarintLength
  <2> QED BY <1>2, <2>1
<1>6. ~ (x < GROUP) /\ ~ (m <= p)
  <2>1. GROUP \in Nat
    BY WireAssumption
  <2>2. ~ (x < GROUP)
    BY <1>2, <1>3, <1>5, <2>1
  <2> QED BY <1>3, <1>5, <2>2, Digits
<1>7. /\ Len(put_varint[m]) = Len(put_varint[p]) + 1
      /\ Len(put_varint[x]) = Len(put_varint[q]) + 1
      /\ Len(put_varint[p]) \in Nat /\ Len(put_varint[q]) \in Nat
  BY <1>2, <1>3, <1>4, <1>5, <1>6, VarintLength
<1>8. Len(put_varint[p]) > Len(put_varint[q])
  BY <1>2, <1>7
<1> HIDE DEF p, q
<1>9. p \in bad
  BY <1>4, <1>8
<1> QED BY <1>1, <1>6, <1>9

\* The varint of a machine word is short enough for the reader.
LEMMA VarintOfWord ==
    ASSUME NEW v \in Word
    PROVE  v \in Nat /\ v % WORD = v /\ Len(put_varint[v]) <= MaxGroups
<1>1. WORD \in Nat /\ v \in Nat /\ WORD - 1 \in Nat /\ v <= WORD - 1 /\ WORD > 0
  BY WireAssumption DEF Word
<1>2. v % WORD = v
  BY <1>1
<1> QED BY <1>1, <1>2, VarintMonotone DEF MaxGroups

-----------------------------------------------------------------------------
(***************************************************************************)
(* Reading varints                                                         *)
(***************************************************************************)

\* What a reader finds at position i, if it finds f[j] at a later position j.
VarintFrom(buf, f, i) ==
    IF i > Len(buf) THEN {}
    ELSE IF buf[i] < GROUP THEN {[value |-> buf[i], next |-> i + 1]}
    ELSE {[value |-> (buf[i] % GROUP) + GROUP * r.value, next |-> r.next] : r \in f[i + 1]}

\* A value put behind a digit is a number.
LEMMA DigitValue ==
    ASSUME NEW b \in Nat, NEW x \in Nat
    PROVE  (b % GROUP) + GROUP * x \in Nat
<1> DEFINE r == b % GROUP
<1>1. GROUP \in Nat /\ r \in 0..(GROUP - 1)
  BY Quotient
<1> HIDE DEF r
<1>2. GROUP * x \in Nat
  BY <1>1
<1>3. r + GROUP * x \in Nat
  BY <1>1, <1>2
<1> QED BY <1>3 DEF r

\* The function of all varints of a buffer meets its equation.
LEMMA VarintsEquation ==
    ASSUME NEW buf \in Seq(Nat)
    PROVE  \A i \in 1..(Len(buf) + 1) : Varints(buf)[i] = VarintFrom(buf, Varints(buf), i)
<1> DEFINE N == Len(buf) + 1
           T == SUBSET [value : Nat, next : Nat]
           B == [i \in 1..N |-> [f \in [1..N -> T] |-> VarintFrom(buf, f, i)]]
<1>1. N \in Nat /\ T # {}
  <2>1. {} \in T
    OBVIOUS
  <2> HIDE DEF T
  <2> QED BY <2>1
<1>2. ASSUME NEW i \in 1..N, NEW f \in [1..N -> T] PROVE VarintFrom(buf, f, i) \in T
  <2>1. CASE i > Len(buf)
    BY <2>1 DEF VarintFrom
  <2>2. CASE ~ (i > Len(buf))
    <3>1. buf[i] \in Nat /\ i + 1 \in 1..N /\ i + 1 \in Nat
      BY <2>2
    <3>2. \A r \in f[i + 1] : r.value \in Nat /\ r.next \in Nat
      BY <3>1
    <3>3. \A r \in f[i + 1] : (buf[i] % GROUP) + GROUP * r.value \in Nat
      BY <3>1, <3>2, DigitValue
    <3>4. {[value |-> (buf[i] % GROUP) + GROUP * r.value, next |-> r.next] : r \in f[i + 1]} \in T
      BY <3>2, <3>3
    <3> QED BY <2>2, <3>1, <3>4 DEF VarintFrom
  <2> QED BY <2>1, <2>2
<1>3. ASSUME NEW i \in 1..N, NEW f, NEW g, \A j \in 1..N : j > i => f[j] = g[j]
      PROVE  VarintFrom(buf, f, i) = VarintFrom(buf, g, i)
  <2>1. ~ (i > Len(buf)) => i + 1 \in 1..N /\ i + 1 > i
    BY <1>1
  <2>2. ~ (i > Len(buf)) => f[i + 1] = g[i + 1]
    BY <1>3, <2>1
  <2> QED BY <2>2 DEF VarintFrom
<1>4. \A i \in 1..N : \A f \in [1..N -> T] : B[i][f] = VarintFrom(buf, f, i)
  <2> HIDE DEF N, T
  <2> QED OBVIOUS
<1>5. LooksAhead(B, N, T)
  <2> HIDE DEF N, T
  <2>1. B \in [1..N -> [[1..N -> T] -> T]]
    BY <1>2
  <2>2. ASSUME NEW f \in [1..N -> T], NEW g \in [1..N -> T], NEW i \in 1..N,
               \A j \in 1..N : j > i => f[j] = g[j]
        PROVE  B[i][f] = B[i][g]
    <3>1. VarintFrom(buf, f, i) = VarintFrom(buf, g, i)
      BY <1>3, <2>2
    <3> HIDE DEF B
    <3> QED BY <1>4, <3>1
  <2> HIDE DEF B
  <2> QED BY <2>1, <2>2 DEF LooksAhead
<1>6. PICK f \in [1..N -> T] : Solves(f, B, N)
  <2> HIDE DEF N, T, B
  <2> QED BY <1>1, <1>5, RecursionAhead
<1>7. f = [i \in 1..N |-> VarintFrom(buf, f, i)]
  <2> HIDE DEF N, T, B
  <2> QED BY <1>4, <1>6 DEF Solves
<1>8. Varints(buf) = CHOOSE g : g = [i \in 1..N |-> VarintFrom(buf, g, i)]
  BY DEF Varints, VarintFrom
<1>9. Varints(buf) = [i \in 1..N |-> VarintFrom(buf, Varints(buf), i)]
  <2> HIDE DEF N, T, B
  <2> QED BY <1>7, <1>8, Zenon
<1> HIDE DEF T, B
<1> QED BY <1>9

\* A varint is a number and ends within the buffer.
LEMMA VarintsType ==
    ASSUME NEW buf \in Seq(Nat), NEW k \in 1..(Len(buf) + 1), NEW x \in Varints(buf)[k]
    PROVE  x.value \in Nat /\ x.next \in (k + 1)..(Len(buf) + 1)
<1> DEFINE N == Len(buf) + 1
           R == Varints(buf)
           Fine(i) == \A r \in R[i] : r.value \in Nat /\ r.next \in (i + 1)..N
           bad == {i \in 1..N : ~ Fine(i)}
<1> SUFFICES ASSUME bad # {} PROVE FALSE
  OBVIOUS
<1>0. N \in Nat
  OBVIOUS
<1>1. PICK i \in bad : \A j \in bad : j <= i
  <2>1. bad \in SUBSET (1..N)
    OBVIOUS
  <2> HIDE DEF bad, N
  <2> QED BY <1>0, <2>1, InkBounds
<1>2. i \in 1..N /\ ~ Fine(i)
  OBVIOUS
<1>3. R[i] = VarintFrom(buf, R, i)
  BY <1>2, VarintsEquation
<1>4. i <= Len(buf) /\ ~ (buf[i] < GROUP)
  <2>1. CASE i > Len(buf)
    BY <1>2, <1>3, <2>1 DEF VarintFrom
  <2>2. CASE i <= Len(buf) /\ buf[i] < GROUP
    <3>1. R[i] = {[value |-> buf[i], next |-> i + 1]} /\ buf[i] \in Nat
      BY <1>2, <1>3, <2>2 DEF VarintFrom
    <3> HIDE DEF R
    <3> QED BY <1>2, <2>2, <3>1
  <2> QED BY <1>2, <2>1, <2>2
<1>5. i + 1 \in 1..N /\ ~ (i + 1 <= i) /\ buf[i] \in Nat
  BY <1>2, <1>4
<1>6. Fine(i + 1)
  <2> HIDE DEF Fine
  <2> QED BY <1>1, <1>5
<1>7. R[i] = {[value |-> (buf[i] % GROUP) + GROUP * r.value, next |-> r.next] : r \in R[i + 1]}
  BY <1>2, <1>3, <1>4 DEF VarintFrom
<1> HIDE DEF R, bad
<1>8. ASSUME NEW y \in R[i] PROVE y.value \in Nat /\ y.next \in (i + 1)..N
  <2>1. PICK r \in R[i + 1] :
          y = [value |-> (buf[i] % GROUP) + GROUP * r.value, next |-> r.next]
    BY <1>7
  <2>2. r.value \in Nat /\ r.next \in (i + 1 + 1)..N
    BY <1>6
  <2>3. (buf[i] % GROUP) + GROUP * r.value \in Nat
    BY <1>5, <2>2, DigitValue
  <2>4. r.next \in (i + 1)..N
    BY <1>2, <2>2
  <2> QED BY <2>1, <2>3, <2>4
<1> QED BY <1>2, <1>8

\* The buffer has these bytes at position i, as far as it goes.
Holds(buf, i, bytes) ==
    \A k \in 1..Len(bytes) : i + k - 1 <= Len(buf) => buf[i + k - 1] = bytes[k]

VarintIs(buf, i, v) ==
    Varints(buf)[i] = IF i + Len(put_varint[v]) <= Len(buf) + 1
                      THEN {[value |-> v, next |-> i + Len(put_varint[v])]} ELSE {}

\* Where a number was written it is found, unless its varint was cut.
LEMMA VarintsFind ==
    ASSUME NEW buf \in Seq(Nat), NEW k \in 1..(Len(buf) + 1), NEW u \in Nat,
           Holds(buf, k, put_varint[u])
    PROVE  VarintIs(buf, k, u)
<1> DEFINE N == Len(buf) + 1
           bad == {v \in Nat : \E i \in 1..N : Holds(buf, i, put_varint[v]) /\ ~ VarintIs(buf, i, v)}
<1> SUFFICES ASSUME bad # {} PROVE FALSE
  OBVIOUS
<1>1. PICK m \in bad : \A j \in bad : m <= j
  <2>1. bad \in SUBSET Nat
    OBVIOUS
  <2> HIDE DEF bad
  <2> QED BY <2>1, LeastNatural
<1>2. PICK i \in 1..N : Holds(buf, i, put_varint[m]) /\ ~ VarintIs(buf, i, m)
  OBVIOUS
<1>3. m \in Nat /\ Len(buf) \in Nat
  OBVIOUS
<1>4. Varints(buf)[i] = VarintFrom(buf, Varints(buf), i)
  BY VarintsEquation
<1>5. Len(put_varint[m]) \in Nat /\ Len(put_varint[m]) >= 1
  BY <1>3, VarintLength
<1>6. CASE i > Len(buf)
  <2>1. ~ (i + Len(put_varint[m]) <= Len(buf) + 1)
    BY <1>3, <1>5, <1>6
  <2>2. Varints(buf)[i] = {}
    BY <1>4, <1>6 DEF VarintFrom
  <2> QED BY <1>2, <2>1, <2>2 DEF VarintIs
<1>7. CASE i <= Len(buf) /\ m < GROUP
  <2>1. Len(put_varint[m]) = 1 /\ put_varint[m][1] = m
    BY <1>3, <1>7, VarintLength
  <2>2. buf[i] = m
    <3>1. 1 \in 1..Len(put_varint[m]) /\ i + 1 - 1 = i
      BY <2>1
    <3> QED BY <1>2, <1>7, <2>1, <3>1 DEF Holds
  <2>3. Varints(buf)[i] = {[value |-> m, next |-> i + 1]}
    BY <1>4, <1>7, <2>2 DEF VarintFrom
  <2>4. i + 1 <= Len(buf) + 1
    BY <1>7
  <2> QED BY <1>2, <2>1, <2>3, <2>4 DEF VarintIs
<1>8. CASE i <= Len(buf) /\ ~ (m < GROUP)
  <2> DEFINE q == m \div GROUP
             d == m % GROUP
             L == Len(put_varint[q])
  <2>1. q \in Nat /\ ~ (m <= q) /\ d \in 0..(GROUP - 1) /\ m = d + GROUP * q
    <3>1. /\ q \in Nat /\ d \in 0..(GROUP - 1) /\ m = GROUP * q + d /\ ~ (m <= q)
          /\ GROUP \in Nat
      BY <1>3, <1>8, Quotient, Digits
    <3> HIDE DEF q, d
    <3>2. GROUP * q \in Nat
      BY <3>1
    <3>3. GROUP * q + d = d + GROUP * q
      BY <3>1, <3>2
    <3> QED BY <3>1, <3>3
  <2>2. /\ Len(put_varint[m]) = L + 1 /\ L \in Nat /\ put_varint[m][1] = GROUP + d
        /\ \A j \in 1..L : put_varint[m][j + 1] = put_varint[q][j]
    BY <1>3, <1>8, <2>1, VarintLength
  <2> HIDE DEF q, d, L
  <2>3. buf[i] = GROUP + d
    <3>1. 1 \in 1..Len(put_varint[m]) /\ i + 1 - 1 = i
      BY <1>5
    <3> QED BY <1>2, <1>8, <2>2, <3>1 DEF Holds
  <2>4. ~ (buf[i] < GROUP) /\ buf[i] % GROUP = d
    BY <2>1, <2>3, MarkedDigit
  <2>5. i + 1 \in 1..N
    BY <1>8
  <2>6. Holds(buf, i + 1, put_varint[q])
    <3> SUFFICES ASSUME NEW j \in 1..L, (i + 1) + j - 1 <= Len(buf)
                 PROVE  buf[(i + 1) + j - 1] = put_varint[q][j]
      BY DEF Holds, L
    <3>1. i \in Int /\ j \in Int /\ 1 <= j /\ j <= L
      BY <2>2
    <3>2. j + 1 \in 1..Len(put_varint[m])
      BY <2>2, <3>1
    <3>3. i + (j + 1) - 1 = (i + 1) + j - 1
      BY <3>1
    <3> QED BY <1>2, <2>2, <3>2, <3>3 DEF Holds
  <2>7. VarintIs(buf, i + 1, q)
    BY <1>1, <2>1, <2>5, <2>6
  <2>8. Varints(buf)[i] =
          {[value |-> d + GROUP * r.value, next |-> r.next] : r \in Varints(buf)[i + 1]}
    BY <1>4, <1>8, <2>4 DEF VarintFrom
  <2> HIDE DEF bad, N
  <2>9. CASE i + Len(put_varint[m]) <= Len(buf) + 1
    <3>1. i + 1 + L <= Len(buf) + 1 /\ i + 1 + L = i + Len(put_varint[m])
      BY <1>8, <2>2, <2>9
    <3>2. Varints(buf)[i + 1] = {[value |-> q, next |-> i + Len(put_varint[m])]}
      BY <2>7, <3>1 DEF VarintIs, L
    <3>3. Varints(buf)[i] = {[value |-> m, next |-> i + Len(put_varint[m])]}
      BY <2>1, <2>8, <3>2
    <3> QED BY <1>2, <2>9, <3>3 DEF VarintIs
  <2>10. CASE ~ (i + Len(put_varint[m]) <= Len(buf) + 1)
    <3>1. ~ (i + 1 + L <= Len(buf) + 1)
      BY <1>8, <2>2, <2>10
    <3>2. Varints(buf)[i + 1] = {}
      BY <2>7, <3>1 DEF VarintIs, L
    <3>3. Varints(buf)[i] = {}
      BY <2>8, <3>2
    <3> QED BY <1>2, <2>10, <3>3 DEF VarintIs
  <2> QED BY <2>9, <2>10
<1> QED BY <1>6, <1>7, <1>8

\* What read_varint finds is a number and ends within the buffer.
LEMMA VarintType ==
    ASSUME NEW buf \in Seq(Nat), NEW i \in 1..(Len(buf) + 1), NEW x \in read_varint(buf, i)
    PROVE  x.value \in Nat /\ x.next \in (i + 1)..(Len(buf) + 1)
<1>1. PICK r \in Varints(buf)[i] : x = [value |-> r.value % WORD, next |-> r.next]
  BY DEF read_varint
<1>2. r.value \in Nat /\ r.next \in (i + 1)..(Len(buf) + 1)
  BY VarintsType
<1>3. WORD \in Nat /\ WORD > 0
  BY WireAssumption
<1>4. r.value % WORD \in Nat
  BY <1>2, <1>3
<1> QED BY <1>1, <1>2, <1>4

ReadIs(buf, i, v) ==
    read_varint(buf, i) = IF i + Len(put_varint[v]) <= Len(buf) + 1
                          THEN {[value |-> v, next |-> i + Len(put_varint[v])]} ELSE {}

\* Where a machine word was written read_varint finds it, unless its varint was cut.
LEMMA VarintRead ==
    ASSUME NEW buf \in Seq(Nat), NEW i \in 1..(Len(buf) + 1), NEW v \in Word,
           Holds(buf, i, put_varint[v])
    PROVE  ReadIs(buf, i, v)
<1> DEFINE n == Len(put_varint[v])
           V == Varints(buf)[i]
<1>1. v \in Nat /\ v % WORD = v /\ n <= MaxGroups
  BY VarintOfWord
<1>2. n \in Nat /\ i + n - i = n
  BY <1>1, VarintLength
<1>3. V = IF i + n <= Len(buf) + 1 THEN {[value |-> v, next |-> i + n]} ELSE {}
  BY <1>1, VarintsFind DEF VarintIs
<1>4. read_varint(buf, i) = {[value |-> r.value % WORD, next |-> r.next] :
                               r \in {x \in V : x.next - i <= MaxGroups}}
  BY DEF read_varint
<1> HIDE DEF n, V
<1>5. {x \in V : x.next - i <= MaxGroups} = V
  BY <1>1, <1>2, <1>3
<1>6. read_varint(buf, i) = V
  BY <1>1, <1>3, <1>4, <1>5
<1> QED BY <1>3, <1>6 DEF ReadIs, n

-----------------------------------------------------------------------------
(***************************************************************************)
(* Fields.  An item is what a frame is made of: the number of a field and  *)
(* its bytes or its value.                                                 *)
(***************************************************************************)

Fields == {f \in Nat : f * 8 + 2 < WORD}

Items ==
    {e \in [field : Fields, bytes : BOOLEAN, num : Word, data : Octets] :
        IF e.bytes THEN e.num = 0 ELSE e.data = << >>}

BytesItem(f, d) == [field |-> f, bytes |-> TRUE, num |-> 0, data |-> d]

NumberItem(f, v) == [field |-> f, bytes |-> FALSE, num |-> v, data |-> << >>]

Enc(e) == IF e.bytes THEN put_len_field(e.field, e.data) ELSE put_varint_field(e.field, e.num)

\* A decoded field says what the item said.
Like(f, e) == f.field = e.field /\ f.num = e.num /\ f.data = e.data

\* The key of a field is a machine word, and gives back its two parts.
LEMMA KeyParts ==
    ASSUME NEW f \in Fields
    PROVE  /\ f * 8 \in Word /\ f * 8 + 2 \in Word
           /\ (f * 8) % 8 = 0 /\ (f * 8) \div 8 = f
           /\ (f * 8 + 2) % 8 = 2 /\ (f * 8 + 2) \div 8 = f
<1>1. f \in Nat /\ f * 8 + 2 < WORD /\ WORD \in Nat
  BY WireAssumption DEF Fields
<1>2. f * 8 \in Word /\ f * 8 + 2 \in Word
  BY <1>1 DEF Word
<1>3. (f * 8) % 8 = 0 /\ (f * 8) \div 8 = f
  BY <1>1
<1>4. (f * 8 + 2) % 8 = 2 /\ (f * 8 + 2) \div 8 = f
  BY <1>1
<1> QED BY <1>2, <1>3, <1>4

\* The number of bytes is a machine word.
LEMMA OctetsType ==
    ASSUME NEW d \in Octets
    PROVE  d \in Seq(Nat) /\ Len(d) \in Word
<1>1. WORD \in Nat
  BY WireAssumption
<1>2. d \in Seq(Nat) /\ Len(d) < WORD /\ Len(d) \in Nat
  BY DEF Octets
<1> QED BY <1>1, <1>2 DEF Word

\* A buffer that holds two parts holds each, the second behind the first.
LEMMA HoldsParts ==
    ASSUME NEW buf, NEW i \in Nat, NEW s \in Seq(Nat), NEW t \in Seq(Nat), Holds(buf, i, s \o t)
    PROVE  Holds(buf, i, s) /\ Holds(buf, i + Len(s), t)
<1>1. /\ Len(s \o t) = Len(s) + Len(t) /\ Len(s) \in Nat /\ Len(t) \in Nat
      /\ \A k \in 1..Len(s) : (s \o t)[k] = s[k] /\ k \in 1..Len(s \o t)
      /\ \A k \in 1..Len(t) : (s \o t)[Len(s) + k] = t[k] /\ Len(s) + k \in 1..Len(s \o t)
  OBVIOUS
<1>2. Holds(buf, i, s)
  BY <1>1 DEF Holds
<1>3. ASSUME NEW k \in 1..Len(t), i + Len(s) + k - 1 <= Len(buf)
      PROVE  buf[i + Len(s) + k - 1] = t[k]
  <2>1. i + (Len(s) + k) - 1 = i + Len(s) + k - 1
    BY <1>1
  <2> QED BY <1>1, <1>3, <2>1 DEF Holds
<1> QED BY <1>2, <1>3 DEF Holds

\* The encoding of an item: its key, and its value or its length and bytes.
LEMMA EncParts ==
    ASSUME NEW e \in Items
    PROVE  /\ Enc(e) \in Seq(Nat) /\ Len(Enc(e)) \in Nat /\ Len(Enc(e)) >= 1
           /\ e.bytes =>
                 /\ Enc(e) = put_varint[e.field * 8 + 2] \o put_varint[Len(e.data)] \o e.data
                 /\ Len(Enc(e)) = Len(put_varint[e.field * 8 + 2]) + Len(put_varint[Len(e.data)])
                                  + Len(e.data)
           /\ ~ e.bytes =>
                 /\ Enc(e) = put_varint[e.field * 8] \o put_varint[e.num]
                 /\ Len(Enc(e)) = Len(put_varint[e.field * 8]) + Len(put_varint[e.num])
<1>1. e.field \in Fields /\ e.bytes \in BOOLEAN /\ e.num \in Word /\ e.data \in Octets
  BY DEF Items
<1>2. e.field * 8 \in Nat /\ e.field * 8 + 2 \in Nat /\ e.num \in Nat /\ Len(e.data) \in Nat
  BY <1>1, KeyParts, OctetsType, VarintOfWord
<1> DEFINE a == put_varint[e.field * 8 + 2]
           b == put_varint[Len(e.data)]
           c == put_varint[e.field * 8]
           d == put_varint[e.num]
           x == e.data
<1>3. /\ a \in Seq(Nat) /\ Len(a) \in Nat /\ Len(a) >= 1
      /\ b \in Seq(Nat) /\ Len(b) \in Nat
      /\ c \in Seq(Nat) /\ Len(c) \in Nat /\ Len(c) >= 1
      /\ d \in Seq(Nat) /\ Len(d) \in Nat
      /\ x \in Seq(Nat) /\ Len(x) \in Nat
  BY <1>1, <1>2, VarintLength, OctetsType
<1>4. /\ e.bytes => Enc(e) = a \o b \o x
      /\ ~ e.bytes => Enc(e) = c \o d
  BY DEF Enc, put_len_field, put_varint_field
<1> HIDE DEF a, b, c, d, x
<1>5. a \o b \in Seq(Nat) /\ Len(a \o b) = Len(a) + Len(b)
  BY <1>3
<1>6. a \o b \o x \in Seq(Nat) /\ Len(a \o b \o x) = Len(a) + Len(b) + Len(x)
  BY <1>3, <1>5
<1>7. Len(a) + Len(b) + Len(x) \in Nat /\ Len(a) + Len(b) + Len(x) >= 1
  BY <1>3
<1>8. Len(c) + Len(d) \in Nat /\ Len(c) + Len(d) >= 1
  BY <1>3
<1>9. c \o d \in Seq(Nat) /\ Len(c \o d) = Len(c) + Len(d)
  BY <1>3
<1>10. Enc(e) \in Seq(Nat) /\ Len(Enc(e)) \in Nat /\ Len(Enc(e)) >= 1
  <2>1. CASE e.bytes
    BY <1>4, <1>6, <1>7, <2>1
  <2>2. CASE ~ e.bytes
    BY <1>4, <1>9, <1>8, <2>2
  <2> QED BY <2>1, <2>2
<1> QED BY <1>4, <1>6, <1>9, <1>10 DEF a, b, c, d, x

\* The bytes that a buffer holds are a stretch of it.
LEMMA HeldStretch ==
    ASSUME NEW buf \in Seq(Nat), NEW i \in 1..(Len(buf) + 1), NEW d \in Seq(Nat),
           Holds(buf, i, d), i + Len(d) <= Len(buf) + 1
    PROVE  SubSeq(buf, i, i + Len(d) - 1) = d
<1> DEFINE n == i + Len(d) - 1
           s == SubSeq(buf, i, n)
<1>1. Len(d) \in Nat /\ Len(buf) \in Nat /\ i \in Nat /\ i >= 1 /\ n \in 0..Len(buf)
  OBVIOUS
<1> HIDE DEF n
<1>2. s \in Seq(Nat) /\ Len(s) = Len(d)
  <2>1. s \in Seq(Nat)
    BY <1>1
  <2>2. Len(s) = IF i <= n THEN n - i + 1 ELSE 0
    BY <1>1
  <2> QED BY <1>1, <2>1, <2>2 DEF n
<1>3. ASSUME NEW k \in 1..Len(d) PROVE s[k] = d[k]
  <2>1. i + k - 1 <= Len(buf) /\ k \in Int /\ 1 <= k /\ k <= Len(d)
    BY <1>1
  <2>2. buf[i + k - 1] = d[k]
    BY <2>1 DEF Holds
  <2>3. s[k] = buf[i + k - 1]
    <3>1. k \in 1..(n - i + 1)
      BY <1>1, <2>1 DEF n
    <3>2. \A j \in 1..(n - i + 1) : SubSeq(buf, i, n)[j] = buf[i + j - 1]
      <4>1. \A j \in i..n : buf[j] \in Nat
        BY <1>1
      <4> HIDE DEF s
      <4> QED BY <1>1, <4>1, SubSeqProperties
    <3> QED BY <3>1, <3>2
  <2> QED BY <2>2, <2>3
<1> HIDE DEF s
<1>4. s = d
  BY <1>2, <1>3, SameSequence
<1> QED BY <1>4 DEF s, n

\* The field that stands for an item and ends before position n.
Dec(e, n) == [field |-> e.field, num |-> e.num, data |-> e.data, next |-> n]

FieldIs(buf, i, e) ==
    FieldAt(buf, i) = IF i + Len(Enc(e)) <= Len(buf) + 1 THEN {Dec(e, i + Len(Enc(e)))} ELSE {}

\* A key that is found decides what the field is.
LEMMA FieldOfKey ==
    ASSUME NEW buf, NEW i, NEW key
    PROVE  /\ read_varint(buf, i) = {} => FieldAt(buf, i) = {}
           /\ read_varint(buf, i) = {key} => FieldAt(buf, i) = FieldOf(buf, key)
<1> DEFINE F(k) == FieldOf(buf, k)
<1>1. FieldAt(buf, i) = UNION {F(k) : k \in read_varint(buf, i)}
  BY DEF FieldAt
<1> HIDE DEF F
<1>2. read_varint(buf, i) = {key} => {F(k) : k \in read_varint(buf, i)} = {F(key)}
  OBVIOUS
<1>3. UNION {F(key)} = F(key)
  OBVIOUS
<1> QED BY <1>1, <1>2, <1>3 DEF F

\* Two parts that follow each other fit if the second ends within the buffer.
LEMMA Fitting ==
    ASSUME NEW i \in Nat, NEW a \in Nat, NEW b \in Nat, NEW c \in Nat, NEW n \in Nat
    PROVE  /\ i + (a + b + c) = i + a + b + c /\ i + (a + b) = i + a + b
           /\ i + a + b + c <= n => i + a <= n /\ i + a + b <= n
           /\ i + a + b <= n => i + a <= n
           /\ i + a \in Nat /\ i + a + b \in Nat
           /\ i >= 1 => i + a >= 1 /\ i + a + b >= 1
OBVIOUS

\* Where a number was written as a field, walk_fields finds it, unless it was cut.
LEMMA NumberFound ==
    ASSUME NEW buf \in Seq(Nat), NEW i \in 1..(Len(buf) + 1), NEW e \in Items, ~ e.bytes,
           Holds(buf, i, Enc(e))
    PROVE  FieldIs(buf, i, e)
<1> DEFINE key == e.field * 8
           a == Len(put_varint[key])
           b == Len(put_varint[e.num])
           N == Len(buf) + 1
<1>1. e.field \in Fields /\ e.num \in Word /\ e.data = << >>
  BY DEF Items
<1>2. key \in Word /\ key % 8 = 0 /\ key \div 8 = e.field
  BY <1>1, KeyParts
<1>3. /\ put_varint[key] \in Seq(Nat) /\ put_varint[e.num] \in Seq(Nat)
      /\ a \in Nat /\ b \in Nat
  BY <1>1, <1>2, VarintOfWord, VarintLength
<1>4. Enc(e) = put_varint[key] \o put_varint[e.num] /\ Len(Enc(e)) = a + b
  BY EncParts
<1>5. i \in Nat /\ i >= 1 /\ N \in Nat
  OBVIOUS
<1>6. Holds(buf, i, put_varint[key]) /\ Holds(buf, i + a, put_varint[e.num])
  BY <1>3, <1>4, <1>5, HoldsParts
<1>7. read_varint(buf, i) = IF i + a <= N THEN {[value |-> key, next |-> i + a]} ELSE {}
  BY <1>2, <1>6, VarintRead DEF ReadIs
<1> HIDE DEF key, a, b
<1>8. CASE ~ (i + a <= N)
  <2>1. FieldAt(buf, i) = {}
    BY <1>7, <1>8, FieldOfKey
  <2>2. ~ (i + Len(Enc(e)) <= N)
    BY <1>3, <1>4, <1>5, <1>8, Fitting
  <2> QED BY <2>1, <2>2 DEF FieldIs
<1>9. CASE i + a <= N
  <2> DEFINE k == [value |-> key, next |-> i + a]
             R == read_varint(buf, i + a)
  <2>1. FieldAt(buf, i) = FieldOf(buf, k)
    BY <1>7, <1>9, FieldOfKey
  <2>2. i + a \in 1..N
    BY <1>3, <1>5, <1>9
  <2>3. R = IF i + a + b <= N THEN {[value |-> e.num, next |-> i + a + b]} ELSE {}
    BY <1>1, <1>6, <2>2, VarintRead DEF ReadIs, b
  <2>4. FieldOf(buf, k) =
          {[field |-> key \div 8, num |-> v.value, data |-> << >>, next |-> v.next] : v \in R}
    BY <1>2 DEF FieldOf
  <2>5. i + Len(Enc(e)) = i + a + b
    BY <1>3, <1>4, <1>5, Fitting
  <2> HIDE DEF k, R
  <2>6. CASE i + a + b <= N
    <3>1. FieldOf(buf, k) =
            {[field |-> key \div 8, num |-> e.num, data |-> << >>, next |-> i + a + b]}
      BY <2>3, <2>4, <2>6
    <3> QED BY <1>1, <1>2, <2>1, <2>5, <2>6, <3>1 DEF FieldIs, Dec
  <2>7. CASE ~ (i + a + b <= N)
    <3>1. FieldOf(buf, k) = {}
      BY <2>3, <2>4, <2>7
    <3> QED BY <2>1, <2>5, <2>7, <3>1 DEF FieldIs
  <2> QED BY <2>6, <2>7
<1> QED BY <1>8, <1>9

\* Where bytes were written as a field, walk_fields finds them, unless they were cut.
LEMMA BytesFound ==
    ASSUME NEW buf \in Seq(Nat), NEW i \in 1..(Len(buf) + 1), NEW e \in Items, e.bytes,
           Holds(buf, i, Enc(e))
    PROVE  FieldIs(buf, i, e)
<1> DEFINE key == e.field * 8 + 2
           len == Len(e.data)
           a == Len(put_varint[key])
           b == Len(put_varint[len])
           N == Len(buf) + 1
<1>1. e.field \in Fields /\ e.num = 0 /\ e.data \in Octets
  BY DEF Items
<1>2. key \in Word /\ key % 8 = 2 /\ key \div 8 = e.field
  BY <1>1, KeyParts
<1>3. /\ put_varint[key] \in Seq(Nat) /\ put_varint[len] \in Seq(Nat) /\ e.data \in Seq(Nat)
      /\ a \in Nat /\ b \in Nat /\ len \in Nat /\ len \in Word
  BY <1>1, <1>2, VarintOfWord, VarintLength, OctetsType
<1>4. Enc(e) = put_varint[key] \o put_varint[len] \o e.data /\ Len(Enc(e)) = a + b + len
  BY EncParts
<1>5. i \in Nat /\ i >= 1 /\ N \in Nat
  OBVIOUS
<1>6. /\ Holds(buf, i, put_varint[key]) /\ Holds(buf, i + a, put_varint[len])
      /\ Holds(buf, i + a + b, e.data)
  <2> DEFINE s == put_varint[key]
             t == put_varint[len]
  <2>1. s \in Seq(Nat) /\ t \in Seq(Nat) /\ s \o t \in Seq(Nat) /\ Len(s \o t) = Len(s) + Len(t)
    BY <1>3
  <2>2. Holds(buf, i, (s \o t) \o e.data)
    BY <1>4
  <2> HIDE DEF s, t
  <2>3. Holds(buf, i, s \o t) /\ Holds(buf, i + Len(s \o t), e.data)
    BY <1>3, <1>5, <2>1, <2>2, HoldsParts
  <2>4. Holds(buf, i, s) /\ Holds(buf, i + Len(s), t)
    BY <1>5, <2>1, <2>3, HoldsParts
  <2>5. i + Len(s \o t) = i + a + b
    <3>1. Len(s) = a /\ Len(t) = b
      BY DEF s, t
    <3> HIDE DEF a, b
    <3> QED BY <1>3, <1>5, <2>1, <3>1
  <2> QED BY <2>3, <2>4, <2>5 DEF s, t
<1>7. read_varint(buf, i) = IF i + a <= N THEN {[value |-> key, next |-> i + a]} ELSE {}
  BY <1>2, <1>6, VarintRead DEF ReadIs
<1> HIDE DEF key, a, b, len
<1>8. i + Len(Enc(e)) = i + a + b + len
  BY <1>3, <1>4, <1>5, Fitting
<1>9. CASE ~ (i + a <= N)
  <2>1. FieldAt(buf, i) = {}
    BY <1>7, <1>9, FieldOfKey
  <2>2. ~ (i + Len(Enc(e)) <= N)
    BY <1>3, <1>5, <1>8, <1>9, Fitting
  <2> QED BY <2>1, <2>2 DEF FieldIs
<1>10. CASE i + a <= N
  <2> DEFINE k == [value |-> key, next |-> i + a]
             R == read_varint(buf, i + a)
             L == {l \in R : l.next + l.value <= N}
  <2>1. FieldAt(buf, i) = FieldOf(buf, k)
    BY <1>7, <1>10, FieldOfKey
  <2>2. i + a \in 1..N
    BY <1>3, <1>5, <1>10
  <2>3. R = IF i + a + b <= N THEN {[value |-> len, next |-> i + a + b]} ELSE {}
    BY <1>3, <1>6, <2>2, VarintRead DEF ReadIs, b
  <2>4. FieldOf(buf, k) =
          {[field |-> key \div 8, num |-> 0, data |-> SubSeq(buf, l.next, l.next + l.value - 1),
            next |-> l.next + l.value] : l \in L}
    BY <1>2 DEF FieldOf
  <2> HIDE DEF k, R
  <2>5. CASE i + a + b + len <= N
    <3>1. i + a + b <= N /\ i + a + b \in 1..N
      BY <1>3, <1>5, <2>5, Fitting
    <3>2. L = {[value |-> len, next |-> i + a + b]}
      BY <2>3, <2>5, <3>1
    <3>3. SubSeq(buf, i + a + b, i + a + b + len - 1) = e.data
      BY <1>3, <1>6, <2>5, <3>1, HeldStretch DEF len
    <3> HIDE DEF L
    <3>4. FieldOf(buf, k) =
            {[field |-> key \div 8, num |-> 0, data |-> e.data, next |-> i + a + b + len]}
      <4> DEFINE x == [value |-> len, next |-> i + a + b]
                 F(l) == [field |-> key \div 8, num |-> 0,
                          data |-> SubSeq(buf, l.next, l.next + l.value - 1),
                          next |-> l.next + l.value]
      <4>1. x.value = len /\ x.next = i + a + b
        OBVIOUS
      <4>2. FieldOf(buf, k) = {F(l) : l \in {x}}
        BY <2>4, <3>2
      <4> HIDE DEF x
      <4>3. F(x) = [field |-> key \div 8, num |-> 0, data |-> e.data, next |-> i + a + b + len]
        BY <3>3, <4>1
      <4> HIDE DEF F
      <4> QED BY <4>2, <4>3
    <3> QED BY <1>1, <1>2, <1>8, <2>1, <2>5, <3>4 DEF FieldIs, Dec
  <2>6. CASE ~ (i + a + b + len <= N)
    <3>1. L = {}
      BY <2>3, <2>6
    <3> HIDE DEF L
    <3>2. FieldOf(buf, k) = {}
      BY <2>4, <3>1
    <3> QED BY <1>8, <2>1, <2>6, <3>2 DEF FieldIs
  <2> QED BY <2>5, <2>6
<1> QED BY <1>9, <1>10

\* A field ends within the buffer, behind its start.
LEMMA FieldType ==
    ASSUME NEW buf \in Seq(Nat), NEW i \in 1..(Len(buf) + 1), NEW f \in FieldAt(buf, i)
    PROVE  f.next \in (i + 1)..(Len(buf) + 1)
<1> DEFINE N == Len(buf) + 1
<1>1. PICK key \in read_varint(buf, i) : f \in FieldOf(buf, key)
  BY DEF FieldAt
<1>2. key.value \in Nat /\ key.next \in (i + 1)..N
  BY VarintType
<1>3. key.next \in 1..N /\ N \in Nat
  BY <1>2
<1>4. ASSUME NEW v \in read_varint(buf, key.next)
      PROVE  v.value \in Nat /\ v.next \in Nat /\ v.next >= i + 1 /\ v.next <= N
  <2>1. v.value \in Nat /\ v.next \in (key.next + 1)..N
    BY <1>3, VarintType
  <2> QED BY <1>2, <2>1
<1>5. CASE key.value % 8 = 0
  <2>1. PICK v \in read_varint(buf, key.next) :
          f = [field |-> key.value \div 8, num |-> v.value, data |-> << >>, next |-> v.next]
    BY <1>1, <1>5 DEF FieldOf
  <2>2. f.next = v.next
    BY <2>1
  <2> QED BY <1>4, <2>1, <2>2
<1>6. CASE key.value % 8 = 2
  <2>1. PICK l \in read_varint(buf, key.next) :
          /\ l.next + l.value <= N
          /\ f = [field |-> key.value \div 8, num |-> 0,
                  data |-> SubSeq(buf, l.next, l.next + l.value - 1), next |-> l.next + l.value]
    BY <1>1, <1>6 DEF FieldOf
  <2>2. f.next = l.next + l.value
    BY <2>1
  <2> QED BY <1>4, <2>1, <2>2
<1>7. CASE key.value % 8 # 0 /\ key.value % 8 # 2
  BY <1>1, <1>7 DEF FieldOf
<1> QED BY <1>5, <1>6, <1>7

-----------------------------------------------------------------------------
(***************************************************************************)
(* Frames.  A frame is the items one after the other, perhaps without its  *)
(* end, and walk_fields gives back the items that are complete, if nothing *)
(* is left over.                                                           *)
(***************************************************************************)

\* What walk_fields finds from position i on, if it finds f[j] from a later one on.
WalkFrom(buf, f, i) ==
    IF i = Len(buf) + 1 THEN {<< >>}
    ELSE UNION {{<<x>> \o rest : rest \in f[x.next]} : x \in FieldAt(buf, i)}

\* The fields of a buffer.
FieldsIn(buf) == UNION {FieldAt(buf, i) : i \in 1..(Len(buf) + 1)}

Walks(w, buf) ==
    /\ walk_fields(buf) = w[1]
    /\ \A i \in 1..(Len(buf) + 1) : w[i] = WalkFrom(buf, w, i)

\* A field put before a sequence of fields.
LEMMA WalkStepType ==
    ASSUME NEW D, NEW x \in D, NEW S \in SUBSET Seq(D)
    PROVE  {<<x>> \o rest : rest \in S} \in SUBSET Seq(D)
<1>1. ASSUME NEW rest \in S PROVE <<x>> \o rest \in Seq(D)
  <2>1. <<x>> \in Seq(D) /\ rest \in Seq(D)
    OBVIOUS
  <2> QED BY <2>1
<1> QED BY <1>1

\* The recursive function of walk_fields exists and meets its equation.
LEMMA WalkEquation ==
    ASSUME NEW buf \in Seq(Nat)
    PROVE  \E w : Walks(w, buf)
<1> DEFINE N == Len(buf) + 1
           D == FieldsIn(buf)
           T == SUBSET Seq(D)
           B == [i \in 1..N |-> [f \in [1..N -> T] |-> WalkFrom(buf, f, i)]]
           P(f, x) == {<<x>> \o rest : rest \in f[x.next]}
           Scan[i \in 1..(Len(buf) + 1)] ==
              IF i = Len(buf) + 1 THEN {<< >>}
              ELSE UNION {{<<f>> \o rest : rest \in Scan[f.next]} : f \in FieldAt(buf, i)}
<1>1. N \in Nat /\ T # {}
  <2>1. {} \in T
    OBVIOUS
  <2> HIDE DEF T
  <2> QED BY <2>1
<1>2. \A i \in 1..N : \A x \in FieldAt(buf, i) : x \in D /\ x.next \in 1..N /\ x.next > i
  <2> SUFFICES ASSUME NEW i \in 1..N, NEW x \in FieldAt(buf, i)
               PROVE  x \in D /\ x.next \in 1..N /\ x.next > i
    OBVIOUS
  <2>1. x.next \in (i + 1)..N
    BY FieldType
  <2>2. x \in D
    BY DEF FieldsIn
  <2> QED BY <1>1, <2>1, <2>2
<1>3. \A f, i : WalkFrom(buf, f, i) = IF i = N THEN {<< >>} ELSE UNION {P(f, x) : x \in FieldAt(buf, i)}
  BY DEF WalkFrom
<1>4. ASSUME NEW i \in 1..N, NEW f \in [1..N -> T] PROVE WalkFrom(buf, f, i) \in T
  <2>1. CASE i = N
    <3>1. {<< >>} \in T
      <4> HIDE DEF D
      <4>1. << >> \in Seq(D)
        OBVIOUS
      <4> QED BY <4>1
    <3> HIDE DEF T, P
    <3> QED BY <1>3, <2>1, <3>1
  <2>2. CASE i # N
    <3>1. \A x \in FieldAt(buf, i) : P(f, x) \in T
      <4> SUFFICES ASSUME NEW x \in FieldAt(buf, i) PROVE P(f, x) \in T
        OBVIOUS
      <4>1. x \in D /\ f[x.next] \in SUBSET Seq(D)
        BY <1>2
      <4> HIDE DEF D
      <4> QED BY <4>1, WalkStepType
    <3>2. UNION {P(f, x) : x \in FieldAt(buf, i)} \in T
      <4> HIDE DEF P, D
      <4> QED BY <3>1
    <3> HIDE DEF P, T
    <3> QED BY <1>3, <2>2, <3>2
  <2> QED BY <2>1, <2>2
<1>5. ASSUME NEW i \in 1..N, NEW f, NEW g, \A j \in 1..N : j > i => f[j] = g[j]
      PROVE  WalkFrom(buf, f, i) = WalkFrom(buf, g, i)
  <2>1. \A x \in FieldAt(buf, i) : P(f, x) = P(g, x)
    BY <1>2, <1>5
  <2> HIDE DEF P
  <2>2. {P(f, x) : x \in FieldAt(buf, i)} = {P(g, x) : x \in FieldAt(buf, i)}
    BY <2>1
  <2> QED BY <1>3, <2>2
<1>6. \A i \in 1..N : \A f \in [1..N -> T] : B[i][f] = WalkFrom(buf, f, i)
  <2> HIDE DEF N, T
  <2> QED OBVIOUS
<1>7. LooksAhead(B, N, T)
  <2> HIDE DEF N, T
  <2>1. B \in [1..N -> [[1..N -> T] -> T]]
    BY <1>4
  <2>2. ASSUME NEW f \in [1..N -> T], NEW g \in [1..N -> T], NEW i \in 1..N,
               \A j \in 1..N : j > i => f[j] = g[j]
        PROVE  B[i][f] = B[i][g]
    <3>1. WalkFrom(buf, f, i) = WalkFrom(buf, g, i)
      BY <1>5, <2>2
    <3> HIDE DEF B
    <3> QED BY <1>6, <3>1
  <2> HIDE DEF B
  <2> QED BY <2>1, <2>2 DEF LooksAhead
<1>8. PICK f \in [1..N -> T] : Solves(f, B, N)
  <2> HIDE DEF N, T, B
  <2> QED BY <1>1, <1>7, RecursionAhead
<1>9. f = [i \in 1..N |-> WalkFrom(buf, f, i)]
  <2> HIDE DEF N, T, B
  <2> QED BY <1>6, <1>8 DEF Solves
<1>10. walk_fields(buf) = Scan[1]
  BY DEF walk_fields
<1>11. Scan = CHOOSE g : g = [i \in 1..N |-> WalkFrom(buf, g, i)]
  BY DEF Scan, WalkFrom
<1> HIDE DEF Scan, T, B, P, D
<1>12. Scan = [i \in 1..N |-> WalkFrom(buf, Scan, i)]
  <2> HIDE DEF N
  <2> QED BY <1>9, <1>11, Zenon
<1>13. \A i \in 1..N : Scan[i] = WalkFrom(buf, Scan, i)
  BY <1>12
<1>14. Walks(Scan, buf)
  BY <1>10, <1>13 DEF Walks
<1> QED BY <1>14

\* The items follow each other from position 1 on, each at its position in pos, as far
\* as the buffer goes, and the buffer does not go further.
Layout(buf, items, pos) ==
    /\ buf \in Seq(Nat) /\ items \in Seq(Items)
    /\ pos \in [1..(Len(items) + 1) -> Nat \ {0}]
    /\ pos[1] = 1
    /\ \A k \in 1..Len(items) : /\ pos[k + 1] = pos[k] + Len(Enc(items[k]))
                                /\ Holds(buf, pos[k], Enc(items[k]))
    /\ \A j, k \in 1..(Len(items) + 1) : j <= k => pos[j] <= pos[k]
    /\ Len(buf) + 1 <= pos[Len(items) + 1]

\* A frame of these items that may have lost its end, and a complete one.
Truncated(buf, items) == \E pos : Layout(buf, items, pos)

Encodes(buf, items) == \E pos : Layout(buf, items, pos) /\ Len(buf) + 1 = pos[Len(items) + 1]

\* The fields are those of the items from the k-th on, perhaps not all.
ReadFrom(r, items, k, D) ==
    /\ r \in Seq(D) /\ Len(r) <= Len(items) - k + 1
    /\ \A j \in 1..Len(r) : Like(r[j], items[k + j - 1])

\* A field put before the fields of the items behind it.
LEMMA ReadOneMore ==
    ASSUME NEW items, Len(items) \in Nat, NEW k \in 1..Len(items), NEW D, NEW x \in D,
           Like(x, items[k]), NEW r, ReadFrom(r, items, k + 1, D)
    PROVE  ReadFrom(<<x>> \o r, items, k, D) /\ Len(<<x>> \o r) = Len(r) + 1
<1> DEFINE s == <<x>> \o r
<1>1. r \in Seq(D) /\ Len(r) <= Len(items) - (k + 1) + 1 /\ Len(r) \in Nat
  BY DEF ReadFrom
<1>2. s \in Seq(D) /\ Len(s) = Len(r) + 1 /\ s[1] = x /\ \A j \in 1..Len(r) : s[j + 1] = r[j]
  BY <1>1
<1> HIDE DEF s
<1>3. Len(s) <= Len(items) - k + 1
  BY <1>1, <1>2
<1>4. ASSUME NEW j \in 1..Len(s) PROVE Like(s[j], items[k + j - 1])
  <2>1. CASE j = 1
    <3>1. k + j - 1 = k
      BY <2>1
    <3> QED BY <1>2, <2>1, <3>1
  <2>2. CASE j # 1
    <3>1. j - 1 \in 1..Len(r) /\ (j - 1) + 1 = j /\ (k + 1) + (j - 1) - 1 = k + j - 1
      BY <1>1, <1>2, <2>2
    <3>2. s[j] = r[j - 1]
      BY <1>2, <3>1
    <3>3. Like(r[j - 1], items[(k + 1) + (j - 1) - 1])
      BY <3>1 DEF ReadFrom
    <3> QED BY <3>1, <3>2, <3>3
  <2> QED BY <2>1, <2>2
<1>5. ReadFrom(s, items, k, D)
  BY <1>2, <1>3, <1>4 DEF ReadFrom
<1> QED BY <1>2, <1>5 DEF s

\* Where only one field is found the walk goes on behind it.
LEMMA WalkOn ==
    ASSUME NEW buf, NEW w, Walks(w, buf), NEW i \in 1..(Len(buf) + 1), i # Len(buf) + 1, NEW x
    PROVE  /\ FieldAt(buf, i) = {} => w[i] = {}
           /\ FieldAt(buf, i) = {x} => w[i] = {<<x>> \o rest : rest \in w[x.next]}
<1> DEFINE P(y) == {<<y>> \o rest : rest \in w[y.next]}
<1>1. w[i] = UNION {P(y) : y \in FieldAt(buf, i)}
  BY DEF Walks, WalkFrom
<1> HIDE DEF P
<1>2. FieldAt(buf, i) = {x} => {P(y) : y \in FieldAt(buf, i)} = {P(x)}
  OBVIOUS
<1>3. UNION {P(x)} = P(x)
  OBVIOUS
<1>4. FieldAt(buf, i) = {} => w[i] = {}
  BY <1>1
<1> QED BY <1>1, <1>2, <1>3, <1>4 DEF P

\* The walk from the k-th item on: the items are found, and all of them in a complete frame.
WalkGood(buf, items, pos, w, k) ==
    pos[k] <= Len(buf) + 1 =>
       /\ \A r \in w[pos[k]] : ReadFrom(r, items, k, FieldsIn(buf))
       /\ Len(buf) + 1 = pos[Len(items) + 1] =>
             \E r : w[pos[k]] = {r} /\ Len(r) = Len(items) - k + 1

\* One item is walked after the other.
LEMMA WalkItem ==
    ASSUME NEW buf, NEW items, NEW pos, Layout(buf, items, pos), NEW w, Walks(w, buf),
           NEW k \in 1..(Len(items) + 1),
           k <= Len(items) => WalkGood(buf, items, pos, w, k + 1)
    PROVE  WalkGood(buf, items, pos, w, k)
<1> DEFINE N == Len(buf) + 1
           M == Len(items) + 1
           D == FieldsIn(buf)
           p == pos[k]
<1>1. buf \in Seq(Nat) /\ items \in Seq(Items) /\ Len(items) \in Nat /\ N \in Nat /\ Len(buf) \in Nat
  BY DEF Layout
<1>2. p \in Nat /\ p >= 1 /\ pos[M] \in Nat /\ N <= pos[M] /\ M \in 1..M
  <2>1. M \in 1..M
    BY <1>1
  <2> QED BY <1>1, <2>1 DEF Layout
<1> SUFFICES ASSUME p <= N
             PROVE  /\ \A r \in w[p] : ReadFrom(r, items, k, D)
                    /\ N = pos[M] => \E r : w[p] = {r} /\ Len(r) = Len(items) - k + 1
  BY DEF WalkGood
<1>3. p \in 1..N
  BY <1>2, <1>1
<1>4. k <= Len(items) =>
         /\ k \in 1..Len(items) /\ k + 1 \in 1..M /\ items[k] \in Items
         /\ pos[k + 1] = p + Len(Enc(items[k])) /\ Holds(buf, p, Enc(items[k]))
         /\ pos[k + 1] \in Nat /\ pos[k + 1] <= pos[M]
         /\ Len(Enc(items[k])) \in Nat /\ Len(Enc(items[k])) >= 1
  <2> SUFFICES ASSUME k <= Len(items)
               PROVE  /\ k \in 1..Len(items) /\ k + 1 \in 1..M /\ items[k] \in Items
                      /\ pos[k + 1] = p + Len(Enc(items[k])) /\ Holds(buf, p, Enc(items[k]))
                      /\ pos[k + 1] \in Nat /\ pos[k + 1] <= pos[M]
                      /\ Len(Enc(items[k])) \in Nat /\ Len(Enc(items[k])) >= 1
    OBVIOUS
  <2>1. k \in 1..Len(items) /\ k + 1 \in 1..M /\ k + 1 <= M
    BY <1>1
  <2>2. items[k] \in Items
    BY <1>1, <2>1
  <2>3. Len(Enc(items[k])) \in Nat /\ Len(Enc(items[k])) >= 1
    BY <2>2, EncParts
  <2>4. pos[k + 1] = p + Len(Enc(items[k])) /\ Holds(buf, p, Enc(items[k]))
    BY <2>1 DEF Layout
  <2>5. pos[k + 1] \in Nat /\ pos[k + 1] <= pos[M]
    BY <1>2, <2>1 DEF Layout
  <2> QED BY <2>1, <2>2, <2>3, <2>4, <2>5
<1>5. CASE p = N
  <2>1. w[p] = {<< >>}
    BY <1>3, <1>5 DEF Walks, WalkFrom
  <2>2. ReadFrom(<< >>, items, k, D)
    <3>1. << >> \in Seq(D) /\ Len(<< >>) = 0
      OBVIOUS
    <3>2. 0 <= Len(items) - k + 1
      BY <1>1
    <3> HIDE DEF D
    <3> QED BY <3>1, <3>2 DEF ReadFrom
  <2>3. ASSUME N = pos[M] PROVE Len(<< >>) = Len(items) - k + 1
    <3>1. ~ (k <= Len(items))
      BY <1>1, <1>2, <1>4, <1>5, <2>3
    <3> QED BY <1>1, <3>1
  <2> HIDE DEF p, N, M, D
  <2> QED BY <2>1, <2>2, <2>3
<1>6. CASE p # N
  <2>1. k <= Len(items)
    <3> SUFFICES ASSUME ~ (k <= Len(items)) PROVE FALSE
      OBVIOUS
    <3>1. k = M
      BY <1>1
    <3> QED BY <1>2, <1>6, <3>1
  <2> DEFINE e == items[k]
             q == pos[k + 1]
             x == Dec(e, q)
  <2>2. FieldIs(buf, p, e)
    <3>1. e \in Items /\ e.bytes \in BOOLEAN
      BY <1>4, <2>1 DEF Items
    <3> QED BY <1>1, <1>3, <1>4, <2>1, <3>1, NumberFound, BytesFound
  <2>3. FieldAt(buf, p) = IF q <= N THEN {x} ELSE {}
    BY <1>4, <2>1, <2>2 DEF FieldIs
  <2>4. CASE ~ (q <= N)
    <3>1. w[p] = {}
      <4>1. FieldAt(buf, p) = {}
        BY <2>3, <2>4
      <4> HIDE DEF p, x
      <4> QED BY <1>3, <1>6, <4>1, WalkOn
    <3>2. N # pos[M]
      BY <1>4, <2>1, <2>4
    <3> HIDE DEF p, N, M, D
    <3> QED BY <3>1, <3>2
  <2>5. CASE q <= N
    <3>1. FieldAt(buf, p) = {x} /\ x.next = q /\ Like(x, e)
      BY <2>3, <2>5 DEF Dec, Like
    <3>2. x \in D
      BY <1>3, <3>1 DEF FieldsIn
    <3> HIDE DEF x, p, D
    <3>3. w[p] = {<<x>> \o rest : rest \in w[q]}
      BY <1>3, <1>6, <3>1, WalkOn
    <3>4. \A r \in w[q] : ReadFrom(r, items, k + 1, D)
      BY <2>1, <2>5 DEF WalkGood, D
    <3>5. \A r \in w[q] : ReadFrom(<<x>> \o r, items, k, D) /\ Len(<<x>> \o r) = Len(r) + 1
      BY <1>1, <1>4, <2>1, <3>1, <3>2, <3>4, ReadOneMore
    <3>6. ASSUME N = pos[M] PROVE \E r : w[p] = {r} /\ Len(r) = Len(items) - k + 1
      <4>1. PICK r : w[q] = {r} /\ Len(r) = Len(items) - (k + 1) + 1
        BY <2>1, <2>5, <3>6 DEF WalkGood
      <4>2. w[p] = {<<x>> \o r}
        BY <3>3, <4>1
      <4>3. Len(<<x>> \o r) = Len(items) - (k + 1) + 1 + 1
        BY <3>5, <4>1
      <4>4. Len(items) - (k + 1) + 1 + 1 = Len(items) - k + 1
        BY <1>1
      <4> QED BY <4>2, <4>3, <4>4
    <3>7. \A r \in w[p] : ReadFrom(r, items, k, D)
      BY <3>3, <3>5
    <3> QED BY <3>6, <3>7
  <2> QED BY <2>4, <2>5
<1> QED BY <1>5, <1>6

\* The fields are those of the first items, perhaps not of all.
Prefix(r, items) ==
    /\ Len(r) \in Nat /\ Len(r) <= Len(items)
    /\ \A j \in 1..Len(r) : Like(r[j], items[j])

\* walk_fields gives back the items of a frame.
LEMMA WalkRead ==
    ASSUME NEW buf, NEW items, NEW pos, Layout(buf, items, pos)
    PROVE  /\ \A r \in walk_fields(buf) : Prefix(r, items)
           /\ Len(buf) + 1 = pos[Len(items) + 1] =>
                 \E r : walk_fields(buf) = {r} /\ Len(r) = Len(items)
<1>1. buf \in Seq(Nat) /\ items \in Seq(Items) /\ Len(items) \in Nat /\ Len(buf) \in Nat /\ pos[1] = 1
  BY DEF Layout
<1>2. PICK w : Walks(w, buf)
  BY <1>1, WalkEquation
<1> DEFINE M == Len(items) + 1
           bad == {k \in 1..M : ~ WalkGood(buf, items, pos, w, k)}
<1>3. bad = {}
  <2> SUFFICES ASSUME bad # {} PROVE FALSE
    OBVIOUS
  <2>1. PICK k \in bad : \A j \in bad : j <= k
    <3>1. bad \in SUBSET (1..M) /\ M \in Nat
      BY <1>1
    <3> HIDE DEF bad, M
    <3> QED BY <3>1, InkBounds
  <2>2. k \in 1..M /\ ~ WalkGood(buf, items, pos, w, k)
    OBVIOUS
  <2>3. k <= Len(items) => k + 1 \in 1..M /\ ~ (k + 1 <= k)
    BY <1>1, <2>2
  <2>4. k <= Len(items) => WalkGood(buf, items, pos, w, k + 1)
    BY <2>1, <2>3
  <2> QED BY <1>2, <2>2, <2>4, WalkItem
<1>4. 1 \in 1..M /\ pos[1] <= Len(buf) + 1
  BY <1>1
<1>5. WalkGood(buf, items, pos, w, 1)
  BY <1>3, <1>4
<1>6. walk_fields(buf) = w[pos[1]]
  BY <1>1, <1>2 DEF Walks
<1>7. /\ \A r \in walk_fields(buf) : ReadFrom(r, items, 1, FieldsIn(buf))
      /\ Len(buf) + 1 = pos[Len(items) + 1] =>
            \E r : walk_fields(buf) = {r} /\ Len(r) = Len(items) - 1 + 1
  BY <1>4, <1>5, <1>6 DEF WalkGood
<1>8. Len(items) - 1 + 1 = Len(items)
  BY <1>1
<1>9. ASSUME NEW r \in walk_fields(buf) PROVE Prefix(r, items)
  <2>1. r \in Seq(FieldsIn(buf)) /\ Len(r) <= Len(items)
    BY <1>7, <1>8 DEF ReadFrom
  <2>2. Len(r) \in Nat
    BY <2>1
  <2>3. ASSUME NEW j \in 1..Len(r) PROVE Like(r[j], items[j])
    <3>1. 1 + j - 1 = j
      OBVIOUS
    <3> QED BY <1>7, <3>1 DEF ReadFrom
  <2> QED BY <2>1, <2>2, <2>3 DEF Prefix
<1> QED BY <1>7, <1>8, <1>9

\* A frame without some of its end gives back some of its first items.
LEMMA TruncatedWalk ==
    ASSUME NEW buf, NEW items, Truncated(buf, items), NEW r \in walk_fields(buf)
    PROVE  Prefix(r, items)
BY WalkRead DEF Truncated

\* A complete frame gives back its items.
LEMMA EncodedWalk ==
    ASSUME NEW buf, NEW items, Encodes(buf, items)
    PROVE  \E r : walk_fields(buf) = {r} /\ Prefix(r, items) /\ Len(r) = Len(items)
<1>1. PICK pos : Layout(buf, items, pos) /\ Len(buf) + 1 = pos[Len(items) + 1]
  BY DEF Encodes
<1>2. PICK r : walk_fields(buf) = {r} /\ Len(r) = Len(items)
  BY <1>1, WalkRead
<1>3. Prefix(r, items)
  BY <1>1, <1>2, WalkRead
<1> QED BY <1>2, <1>3

\* The empty frame has no items.
LEMMA EmptyEncodes == Encodes(<< >>, << >>)
<1> DEFINE pos == [k \in 1..1 |-> 1]
<1>1. << >> \in Seq(Nat) /\ << >> \in Seq(Items) /\ Len(<< >>) = 0
  OBVIOUS
<1>2. pos \in [1..1 -> Nat \ {0}] /\ pos[1] = 1 /\ \A k \in 1..1 : pos[k] = 1
  OBVIOUS
<1> HIDE DEF pos
<1>3. Layout(<< >>, << >>, pos)
  BY <1>1, <1>2 DEF Layout
<1> QED BY <1>1, <1>2, <1>3 DEF Encodes

\* Bytes that are appended are held, and so are those that were held before.
LEMMA HoldsAppend ==
    ASSUME NEW buf \in Seq(Nat), NEW t \in Seq(Nat)
    PROVE  /\ Holds(buf \o t, Len(buf) + 1, t)
           /\ \A i \in Nat \ {0} : \A s \in Seq(Nat) :
                 i + Len(s) <= Len(buf) + 1 /\ Holds(buf, i, s) => Holds(buf \o t, i, s)
<1> DEFINE more == buf \o t
<1>1. /\ Len(buf) \in Nat /\ Len(t) \in Nat /\ Len(more) = Len(buf) + Len(t)
      /\ \A j \in 1..Len(buf) : more[j] = buf[j]
      /\ \A j \in 1..Len(t) : more[Len(buf) + j] = t[j]
  OBVIOUS
<1> HIDE DEF more
<1>2. Holds(more, Len(buf) + 1, t)
  <2> SUFFICES ASSUME NEW k \in 1..Len(t) PROVE more[Len(buf) + 1 + k - 1] = t[k]
    BY DEF Holds
  <2>1. Len(buf) + 1 + k - 1 = Len(buf) + k
    BY <1>1
  <2> QED BY <1>1, <2>1
<1>3. ASSUME NEW i \in Nat \ {0}, NEW s \in Seq(Nat), i + Len(s) <= Len(buf) + 1, Holds(buf, i, s)
      PROVE  Holds(more, i, s)
  <2> SUFFICES ASSUME NEW k \in 1..Len(s) PROVE more[i + k - 1] = s[k]
    BY DEF Holds
  <2>1. i + k - 1 \in 1..Len(buf) /\ i + k - 1 <= Len(buf)
    <3>1. Len(s) \in Nat /\ i \in Nat /\ i >= 1
      OBVIOUS
    <3> QED BY <1>1, <1>3, <3>1
  <2> QED BY <1>1, <1>3, <2>1 DEF Holds
<1> QED BY <1>2, <1>3 DEF more

\* A frame with one more item.
LEMMA AppendEncodes ==
    ASSUME NEW buf, NEW items, Encodes(buf, items), NEW e \in Items
    PROVE  Encodes(buf \o Enc(e), Append(items, e))
<1>1. PICK pos : Layout(buf, items, pos) /\ Len(buf) + 1 = pos[Len(items) + 1]
  BY DEF Encodes
<1> DEFINE M == Len(items) + 1
           t == Enc(e)
           more == buf \o t
           its == Append(items, e)
           p == [k \in 1..(M + 1) |-> IF k = M + 1 THEN Len(buf) + 1 + Len(t) ELSE pos[k]]
<1>2. /\ buf \in Seq(Nat) /\ items \in Seq(Items) /\ Len(items) \in Nat /\ Len(buf) \in Nat
      /\ pos \in [1..M -> Nat \ {0}]
  BY <1>1 DEF Layout
<1>3. t \in Seq(Nat) /\ Len(t) \in Nat
  BY EncParts
<1>4. more \in Seq(Nat) /\ Len(more) = Len(buf) + Len(t)
  <2> HIDE DEF t
  <2> QED BY <1>2, <1>3
<1>5. its \in Seq(Items) /\ Len(its) = M /\ its[M] = e /\ \A k \in 1..Len(items) : its[k] = items[k]
  BY <1>2
<1>6. /\ p \in [1..(M + 1) -> Nat \ {0}] /\ p[M + 1] = Len(buf) + 1 + Len(t)
      /\ \A k \in 1..M : p[k] = pos[k]
  <2> HIDE DEF t
  <2> QED BY <1>2, <1>3
<1> HIDE DEF more, its, p, t
<1>7. p[1] = 1 /\ p[M] = Len(buf) + 1
  <2>1. 1 \in 1..M /\ M \in 1..M
    BY <1>2
  <2> QED BY <1>1, <1>6, <2>1 DEF Layout
<1>8. ASSUME NEW k \in 1..M
      PROVE  p[k + 1] = p[k] + Len(Enc(its[k])) /\ Holds(more, p[k], Enc(its[k]))
  <2>1. CASE k = M
    <3>1. Holds(more, Len(buf) + 1, t)
      BY <1>2, <1>3, HoldsAppend DEF more
    <3> QED BY <1>5, <1>6, <1>7, <2>1, <3>1 DEF t
  <2>2. CASE k # M
    <3>1. k \in 1..Len(items) /\ k + 1 \in 1..M /\ M \in 1..M /\ k + 1 <= M
      BY <1>2, <2>2
    <3>2. /\ p[k] = pos[k] /\ p[k + 1] = pos[k + 1] /\ its[k] = items[k] /\ items[k] \in Items
          /\ pos[k] \in Nat \ {0}
      <4>1. items[k] \in Items
        BY <1>2, <3>1
      <4>2. pos[k] \in Nat \ {0}
        BY <1>2
      <4> QED BY <1>5, <1>6, <3>1, <4>1, <4>2
    <3>3. /\ pos[k + 1] = pos[k] + Len(Enc(items[k])) /\ Holds(buf, pos[k], Enc(items[k]))
          /\ pos[k + 1] <= pos[M]
      BY <1>1, <3>1 DEF Layout
    <3>4. Enc(items[k]) \in Seq(Nat)
      BY <3>2, EncParts
    <3>5. pos[k] + Len(Enc(items[k])) <= Len(buf) + 1
      BY <1>1, <3>3
    <3>6. Holds(more, pos[k], Enc(items[k]))
      BY <1>2, <1>3, <3>2, <3>3, <3>4, <3>5, HoldsAppend DEF more
    <3> QED BY <3>2, <3>3, <3>6
  <2> QED BY <2>1, <2>2
<1>9. ASSUME NEW j \in 1..(M + 1), NEW k \in 1..(M + 1), j <= k PROVE p[j] <= p[k]
  <2>1. M \in Nat /\ M >= 1 /\ M \in 1..M
    BY <1>2
  <2>2. CASE k # M + 1
    <3>1. j \in 1..M /\ k \in 1..M
      BY <1>9, <2>1, <2>2
    <3> QED BY <1>1, <1>6, <1>9, <3>1 DEF Layout
  <2>3. CASE k = M + 1 /\ j # M + 1
    <3>1. j \in 1..M /\ j <= M
      BY <2>1, <2>3
    <3>2. pos[j] <= pos[M] /\ pos[j] \in Nat
      BY <1>1, <1>2, <2>1, <3>1 DEF Layout
    <3>3. p[j] = pos[j]
      BY <1>6, <3>1
    <3> QED BY <1>1, <1>2, <1>3, <1>6, <2>3, <3>2, <3>3
  <2>4. CASE k = M + 1 /\ j = M + 1
    BY <1>2, <1>3, <1>6, <2>4
  <2> QED BY <2>2, <2>3, <2>4
<1>10. Len(more) + 1 = p[M + 1]
  BY <1>2, <1>3, <1>4, <1>6
<1>11. Len(more) + 1 <= p[M + 1]
  BY <1>2, <1>3, <1>4, <1>10
<1>12. Layout(more, its, p)
  BY <1>4, <1>5, <1>6, <1>7, <1>8, <1>9, <1>11 DEF Layout
<1>13. Encodes(more, its)
  BY <1>5, <1>10, <1>12 DEF Encodes
<1> QED BY <1>13 DEF more, its, t

\* A complete frame is a frame, and one that loses its last byte remains one.
LEMMA CutTruncated ==
    ASSUME NEW buf, NEW items
    PROVE  /\ Encodes(buf, items) => Truncated(buf, items)
           /\ Truncated(buf, items) /\ buf # << >> =>
                 Truncated(SubSeq(buf, 1, Len(buf) - 1), items)
<1>1. Encodes(buf, items) => Truncated(buf, items)
  BY DEF Encodes, Truncated
<1>2. ASSUME Truncated(buf, items), buf # << >>
      PROVE  Truncated(SubSeq(buf, 1, Len(buf) - 1), items)
  <2>1. PICK pos : Layout(buf, items, pos)
    BY <1>2 DEF Truncated
  <2> DEFINE less == SubSeq(buf, 1, Len(buf) - 1)
  <2>2. buf \in Seq(Nat)
    BY <2>1 DEF Layout
  <2>3. /\ less \in Seq(Nat) /\ Len(less) = Len(buf) - 1 /\ Len(buf) \in Nat
        /\ \A j \in 1..Len(less) : less[j] = buf[j]
    <3>1. Len(buf) \in Nat /\ Len(buf) >= 1
      BY <1>2, <2>2, EmptySeq
    <3>2. \A j \in 1..(Len(buf) - 1) : buf[j] \in Nat
      BY <2>2, <3>1
    <3>3. /\ less \in Seq(Nat)
          /\ Len(less) = IF 1 <= Len(buf) - 1 THEN (Len(buf) - 1) - 1 + 1 ELSE 0
          /\ \A j \in 1..((Len(buf) - 1) - 1 + 1) : less[j] = buf[1 + j - 1]
      BY <3>1, <3>2, SubSeqProperties
    <3> HIDE DEF less
    <3>4. Len(less) = Len(buf) - 1 /\ (Len(buf) - 1) - 1 + 1 = Len(buf) - 1
      <4> DEFINE n == Len(buf)
                 m == Len(less)
      <4>1. n \in Nat /\ n >= 1 /\ m = IF 1 <= n - 1 THEN (n - 1) - 1 + 1 ELSE 0
        BY <3>1, <3>3
      <4> HIDE DEF n, m
      <4>2. m = n - 1 /\ (n - 1) - 1 + 1 = n - 1
        BY <4>1
      <4> QED BY <4>2 DEF n, m
    <3>5. \A j \in 1..Len(less) : less[j] = buf[j]
      BY <3>3, <3>4
    <3> QED BY <3>1, <3>3, <3>4, <3>5
  <2> HIDE DEF less
  <2>4. ASSUME NEW k \in 1..Len(items) PROVE Holds(less, pos[k], Enc(items[k]))
    <3>1. Holds(buf, pos[k], Enc(items[k])) /\ pos[k] \in Nat \ {0}
      <4>1. Len(items) \in Nat
        BY <2>1 DEF Layout
      <4>2. k \in 1..(Len(items) + 1)
        BY <4>1
      <4> QED BY <2>1, <4>2 DEF Layout
    <3> SUFFICES ASSUME NEW j \in 1..Len(Enc(items[k])), pos[k] + j - 1 <= Len(less)
                 PROVE  less[pos[k] + j - 1] = Enc(items[k])[j]
      BY DEF Holds
    <3>2. pos[k] + j - 1 \in 1..Len(less) /\ pos[k] + j - 1 <= Len(buf)
      BY <2>3, <3>1
    <3> QED BY <2>3, <3>1, <3>2 DEF Holds
  <2>5. Len(less) + 1 <= pos[Len(items) + 1]
    <3>1. Len(items) \in Nat /\ Len(items) + 1 \in 1..(Len(items) + 1)
      BY <2>1 DEF Layout
    <3>2. pos[Len(items) + 1] \in Nat /\ Len(buf) + 1 <= pos[Len(items) + 1]
      BY <2>1, <3>1 DEF Layout
    <3> QED BY <2>3, <3>2
  <2>6. Layout(less, items, pos)
    BY <2>1, <2>3, <2>4, <2>5 DEF Layout
  <2> QED BY <2>6 DEF Truncated, less
<1> QED BY <1>1, <1>2

-----------------------------------------------------------------------------
(***************************************************************************)
(* Messages.  A message decides which item each of its field numbers       *)
(* carries, if any; the decoder finds that item, or none if it was cut.    *)
(***************************************************************************)

\* S holds the only item with field number n, or nothing if there is none.
Carries(items, n, S) ==
    \/ S = {} /\ \A j \in 1..Len(items) : items[j].field # n
    \/ \E k \in 1..Len(items) : /\ S = {items[k]}
                                /\ \A j \in 1..Len(items) : items[j].field = n <=> j = k

\* c says what the items carry for each of its field numbers.
Carrying(items, c) == \A n \in DOMAIN c : Carries(items, n, c[n])

\* More items, all with field number n.
Grown(items, its, n) ==
    /\ Len(its) \in Nat /\ Len(items) <= Len(its)
    /\ \A k \in 1..Len(items) : its[k] = items[k]
    /\ \A k \in 1..Len(its) : k > Len(items) => its[k].field = n

\* The fields with number n that were decoded: none, or the one that S holds.
Got(r, n, S) ==
    \/ Occurrences(r, n) = {} /\ LastOf(r, n) = {}
    \/ \E k \in 1..Len(r) : \E e \in S : /\ S = {e} /\ Occurrences(r, n) = {k}
                                         /\ LastOf(r, n) = {r[k]} /\ Like(r[k], e)

\* The only occurrence of a field is its last one.
LEMMA LastOfOne ==
    ASSUME NEW r, NEW n
    PROVE  /\ Occurrences(r, n) = {} => LastOf(r, n) = {}
           /\ \A k \in Int : Occurrences(r, n) = {k} => LastOf(r, n) = {r[k]}
<1>1. ASSUME NEW k \in Int, Occurrences(r, n) = {k} PROVE LastOf(r, n) = {r[k]}
  <2>1. {j \in Occurrences(r, n) : \A i \in Occurrences(r, n) : i <= j} = {k}
    BY <1>1
  <2> QED BY <2>1 DEF LastOf
<1>2. Occurrences(r, n) = {} => LastOf(r, n) = {}
  BY DEF LastOf
<1> QED BY <1>1, <1>2

\* What the items carry is what is decoded, and from a complete frame it is.
LEMMA Gets ==
    ASSUME NEW items, NEW r, Prefix(r, items), Len(items) \in Nat, NEW n, NEW S,
           Carries(items, n, S)
    PROVE  /\ Got(r, n, S)
           /\ Len(r) = Len(items) /\ S # {} => Occurrences(r, n) # {}
<1>1. /\ Len(r) \in Nat /\ Len(r) <= Len(items)
      /\ \A j \in 1..Len(r) : Like(r[j], items[j]) /\ r[j].field = items[j].field
  BY DEF Prefix, Like
<1>2. \A j \in 1..Len(r) : j \in 1..Len(items)
  BY <1>1
<1>3. CASE S = {} /\ \A j \in 1..Len(items) : items[j].field # n
  <2>1. Occurrences(r, n) = {}
    BY <1>1, <1>2, <1>3 DEF Occurrences
  <2> QED BY <1>3, <2>1, LastOfOne DEF Got
<1>4. ASSUME NEW k \in 1..Len(items), S = {items[k]},
             \A j \in 1..Len(items) : items[j].field = n <=> j = k
      PROVE  /\ Got(r, n, S)
             /\ Len(r) = Len(items) /\ S # {} => Occurrences(r, n) # {}
  <2>1. CASE k <= Len(r)
    <3>1. k \in 1..Len(r) /\ k \in Int
      BY <2>1
    <3>2. Occurrences(r, n) = {k}
      BY <1>1, <1>2, <1>4, <3>1 DEF Occurrences
    <3>3. LastOf(r, n) = {r[k]}
      BY <3>1, <3>2, LastOfOne
    <3>4. Like(r[k], items[k])
      BY <1>1, <3>1
    <3>5. Got(r, n, S)
      BY <1>4, <3>1, <3>2, <3>3, <3>4 DEF Got
    <3> QED BY <3>2, <3>5
  <2>2. CASE ~ (k <= Len(r))
    <3>1. \A j \in 1..Len(r) : j # k
      BY <1>1, <2>2
    <3>2. Occurrences(r, n) = {}
      BY <1>1, <1>2, <1>4, <3>1 DEF Occurrences
    <3>3. Got(r, n, S)
      BY <3>2, LastOfOne DEF Got
    <3>4. Len(r) # Len(items)
      BY <2>2
    <3> QED BY <3>3, <3>4
  <2> QED BY <2>1, <2>2
<1> QED BY <1>3, <1>4 DEF Carries

\* What a field that was decoded says.
LEMMA GotValues ==
    ASSUME NEW r, NEW n, NEW S, Got(r, n, S)
    PROVE  /\ S = {} => Occurrences(r, n) = {}
           /\ Occurrences(r, n) = {} => LastOf(r, n) = {}
           /\ \A e : S = {e} /\ Occurrences(r, n) # {} =>
                 /\ Bytes(r, n) = e.data /\ Number(r, n) = e.num
                 /\ \E f : LastOf(r, n) = {f} /\ Like(f, e)
           /\ \A k \in Occurrences(r, n) : \E e \in S : Like(r[k], e)
<1>1. CASE Occurrences(r, n) = {} /\ LastOf(r, n) = {}
  BY <1>1
<1>2. ASSUME NEW k \in 1..Len(r), NEW e \in S, S = {e}, Occurrences(r, n) = {k},
             LastOf(r, n) = {r[k]}, Like(r[k], e)
      PROVE  /\ S = {} => Occurrences(r, n) = {}
             /\ Occurrences(r, n) = {} => LastOf(r, n) = {}
             /\ \A d : S = {d} /\ Occurrences(r, n) # {} =>
                   /\ Bytes(r, n) = d.data /\ Number(r, n) = d.num
                   /\ \E f : LastOf(r, n) = {f} /\ Like(f, d)
             /\ \A j \in Occurrences(r, n) : \E d \in S : Like(r[j], d)
  <2> DEFINE f == CHOOSE g \in LastOf(r, n) : TRUE
  <2>1. f = r[k]
    BY <1>2
  <2>2. Bytes(r, n) = f.data /\ Number(r, n) = f.num
    BY <1>2 DEF Bytes, Number
  <2> HIDE DEF f
  <2>3. Bytes(r, n) = e.data /\ Number(r, n) = e.num
    BY <1>2, <2>1, <2>2 DEF Like
  <2> QED BY <1>2, <2>3
<1> QED BY <1>1, <1>2 DEF Got

\* Items with another field number do not change what is carried.
LEMMA KeepsCarrying ==
    ASSUME NEW items, NEW its, NEW n, Grown(items, its, n), Len(items) \in Nat,
           NEW m, m # n, NEW S, Carries(items, m, S)
    PROVE  Carries(its, m, S)
<1>1. /\ Len(its) \in Nat /\ Len(items) <= Len(its)
      /\ \A k \in 1..Len(items) : its[k] = items[k] /\ k \in 1..Len(its)
      /\ \A k \in 1..Len(its) : k \in 1..Len(items) \/ its[k].field = n
  BY DEF Grown
<1>2. CASE S = {} /\ \A j \in 1..Len(items) : items[j].field # m
  BY <1>1, <1>2 DEF Carries
<1>3. ASSUME NEW k \in 1..Len(items), S = {items[k]},
             \A j \in 1..Len(items) : items[j].field = m <=> j = k
      PROVE  Carries(its, m, S)
  <2>1. S = {its[k]} /\ k \in 1..Len(its)
    BY <1>1, <1>3
  <2>2. \A j \in 1..Len(its) : its[j].field = m <=> j = k
    BY <1>1, <1>3
  <2> QED BY <2>1, <2>2 DEF Carries
<1> QED BY <1>2, <1>3 DEF Carries

\* A complete frame of items that carry what c says.
Built(buf, items, c) ==
    /\ Encodes(buf, items) /\ Carrying(items, c) /\ c = [n \in DOMAIN c |-> c[n]]
    /\ buf \in Seq(Nat) /\ items \in Seq(Items) /\ Len(items) \in Nat

\* What has been put: one more item, or none.
Put(buf, items, its, c, n, X) ==
    /\ Built(buf, its, [c EXCEPT ![n] = X])
    /\ Grown(items, its, n)
    /\ X # {} => Len(its) = Len(items) + 1

\* An item is put behind a frame, with a field number that the frame does not carry.
LEMMA PutItem ==
    ASSUME NEW buf, NEW items, NEW c, Built(buf, items, c), NEW n, n \in DOMAIN c => c[n] = {},
           NEW e \in Items, e.field = n
    PROVE  Put(buf \o Enc(e), items, Append(items, e), c, n, {e})
<1> DEFINE its == Append(items, e)
           more == buf \o Enc(e)
           d == [c EXCEPT ![n] = {e}]
<1>1. /\ Encodes(buf, items) /\ Carrying(items, c)
      /\ buf \in Seq(Nat) /\ items \in Seq(Items) /\ Len(items) \in Nat
  BY DEF Built
<1>2. /\ its \in Seq(Items) /\ Len(its) = Len(items) + 1 /\ its[Len(items) + 1] = e
      /\ \A k \in 1..Len(items) : its[k] = items[k]
  BY <1>1
<1>3. Encodes(more, its)
  BY <1>1, AppendEncodes
<1>4. more \in Seq(Nat)
  <2>1. Enc(e) \in Seq(Nat)
    BY EncParts
  <2> QED BY <1>1, <2>1
<1> HIDE DEF its, more
<1>5. Grown(items, its, n)
  <2>1. Len(its) \in Nat /\ Len(items) <= Len(its)
    BY <1>1, <1>2
  <2>2. \A k \in 1..Len(its) : k > Len(items) => k = Len(items) + 1
    BY <1>1, <1>2
  <2> QED BY <1>2, <2>1, <2>2 DEF Grown
<1>6. ASSUME NEW m \in DOMAIN c PROVE Carries(its, m, d[m])
  <2>1. Carries(items, m, c[m])
    BY <1>1 DEF Carrying
  <2>2. CASE m # n
    <3>1. d[m] = c[m]
      BY <2>2
    <3> HIDE DEF d
    <3> QED BY <1>1, <1>5, <2>1, <2>2, <3>1, KeepsCarrying
  <2>3. CASE m = n
    <3>1. d[m] = {e} /\ c[m] = {}
      BY <2>3
    <3>2. \A j \in 1..Len(items) : items[j].field # n
      BY <2>1, <2>3, <3>1 DEF Carries
    <3>3. Len(items) + 1 \in 1..Len(its) /\ {e} = {its[Len(items) + 1]}
      BY <1>1, <1>2
    <3>4. ASSUME NEW j \in 1..Len(its) PROVE its[j].field = n <=> j = Len(items) + 1
      <4>1. j = Len(items) + 1 \/ j \in 1..Len(items)
        BY <1>1, <1>2
      <4>2. j \in 1..Len(items) => j # Len(items) + 1
        BY <1>1
      <4> QED BY <1>2, <3>2, <4>1, <4>2
    <3> HIDE DEF d
    <3> QED BY <2>3, <3>1, <3>3, <3>4 DEF Carries
  <2> QED BY <2>2, <2>3
<1>7. Carrying(its, d)
  <2>1. DOMAIN d = DOMAIN c
    OBVIOUS
  <2> HIDE DEF d
  <2> QED BY <1>6, <2>1 DEF Carrying
<1>8. Built(more, its, d)
  <2>1. d = [m \in DOMAIN d |-> d[m]]
    OBVIOUS
  <2> HIDE DEF d
  <2> QED BY <1>1, <1>2, <1>3, <1>4, <1>7, <2>1 DEF Built
<1>9. Put(more, items, its, c, n, {e})
  BY <1>2, <1>5, <1>8 DEF Put
<1> QED BY <1>9 DEF more, its

\* At most one element.
OneOf(X) == X = {} \/ \E x : X = {x}

\* An optional set is empty or has one element.
LEMMA OptionalOne ==
    ASSUME NEW S, NEW X \in Optional(S)
    PROVE  OneOf(X) /\ X \in SUBSET S
BY DEF Optional, OneOf

\* An item is put behind a frame if there is one.
LEMMA PutSome ==
    ASSUME NEW buf, NEW items, NEW c, Built(buf, items, c), NEW n, n \in DOMAIN c, c[n] = {},
           NEW X \in SUBSET Items, OneOf(X), \A e \in X : e.field = n,
           NEW E, E = {Enc(e) : e \in X}
    PROVE  \E its : Put(buf \o PutOptional(E), items, its, c, n, X)
<1>1. /\ buf \in Seq(Nat) /\ items \in Seq(Items) /\ Len(items) \in Nat
  BY DEF Built
<1>2. CASE X = {}
  <2>1. buf \o PutOptional(E) = buf
    <3>1. PutOptional(E) = << >>
      BY <1>2 DEF PutOptional
    <3> QED BY <1>1, <3>1, ConcatEmptySeq
  <2>2. [c EXCEPT ![n] = X] = c
    BY <1>2 DEF Built
  <2>3. Grown(items, items, n)
    BY <1>1 DEF Grown
  <2>4. Put(buf, items, items, c, n, X)
    BY <1>2, <2>2, <2>3 DEF Put
  <2> QED BY <2>1, <2>4
<1>3. ASSUME NEW e, X = {e} PROVE \E its : Put(buf \o PutOptional(E), items, its, c, n, X)
  <2>1. e \in Items /\ e.field = n
    BY <1>3
  <2>2. E = {Enc(e)}
    BY <1>3
  <2>3. PutOptional(E) = Enc(e)
    BY <2>2 DEF PutOptional
  <2>4. Put(buf \o Enc(e), items, Append(items, e), c, n, {e})
    BY <2>1, PutItem
  <2> QED BY <1>3, <2>3, <2>4
<1> QED BY <1>2, <1>3 DEF OneOf

\* The items of bytes and of numbers.
LEMMA ItemsType ==
    ASSUME NEW n \in Fields
    PROVE  /\ \A d \in Octets : /\ BytesItem(n, d) \in Items
                                /\ Enc(BytesItem(n, d)) = put_len_field(n, d)
           /\ \A v \in Word : /\ NumberItem(n, v) \in Items
                              /\ Enc(NumberItem(n, v)) = put_varint_field(n, v)
<1>1. WORD \in Nat /\ WORD > 0
  BY WireAssumption
<1>2. 0 \in Word /\ << >> \in Octets
  BY <1>1 DEF Word, Octets
<1>3. \A d \in Octets : BytesItem(n, d) \in Items
  BY <1>2 DEF BytesItem, Items
<1>4. \A v \in Word : NumberItem(n, v) \in Items
  BY <1>2 DEF NumberItem, Items
<1>5. \A d : Enc(BytesItem(n, d)) = put_len_field(n, d)
  BY DEF Enc, BytesItem
<1>6. \A v : Enc(NumberItem(n, v)) = put_varint_field(n, v)
  BY DEF Enc, NumberItem
<1> QED BY <1>3, <1>4, <1>5, <1>6

\* A field of bytes, and a field with a number, put behind a frame.
LEMMA PutField ==
    ASSUME NEW buf, NEW items, NEW c, Built(buf, items, c), NEW n \in Fields,
           n \in DOMAIN c => c[n] = {}
    PROVE  /\ \A d \in Octets : \E its :
                 Put(buf \o put_len_field(n, d), items, its, c, n, {BytesItem(n, d)})
           /\ \A v \in Word : \E its :
                 Put(buf \o put_varint_field(n, v), items, its, c, n, {NumberItem(n, v)})
<1>1. ASSUME NEW d \in Octets
      PROVE  \E its : Put(buf \o put_len_field(n, d), items, its, c, n, {BytesItem(n, d)})
  <2>1. BytesItem(n, d) \in Items /\ Enc(BytesItem(n, d)) = put_len_field(n, d)
    BY ItemsType
  <2>2. BytesItem(n, d).field = n
    BY DEF BytesItem
  <2> QED BY <2>1, <2>2, PutItem
<1>2. ASSUME NEW v \in Word
      PROVE  \E its : Put(buf \o put_varint_field(n, v), items, its, c, n, {NumberItem(n, v)})
  <2>1. NumberItem(n, v) \in Items /\ Enc(NumberItem(n, v)) = put_varint_field(n, v)
    BY ItemsType
  <2>2. NumberItem(n, v).field = n
    BY DEF NumberItem
  <2> QED BY <2>1, <2>2, PutItem
<1> QED BY <1>1, <1>2

\* An optional field put behind a frame.
LEMMA PutOptionalField ==
    ASSUME NEW buf, NEW items, NEW c, Built(buf, items, c), NEW n \in Fields,
           n \in DOMAIN c, c[n] = {}
    PROVE  /\ \A O \in SUBSET Octets : OneOf(O) => \E its :
                 Put(buf \o PutOptional({put_len_field(n, d) : d \in O}), items, its, c, n,
                     {BytesItem(n, d) : d \in O})
           /\ \A O \in SUBSET Word : OneOf(O) => \E its :
                 Put(buf \o PutOptional({put_varint_field(n, v) : v \in O}), items, its, c, n,
                     {NumberItem(n, v) : v \in O})
<1>1. ASSUME NEW O \in SUBSET Octets, OneOf(O)
      PROVE  \E its : Put(buf \o PutOptional({put_len_field(n, d) : d \in O}), items, its, c, n,
                          {BytesItem(n, d) : d \in O})
  <2> DEFINE X == {BytesItem(n, d) : d \in O}
             E == {put_len_field(n, d) : d \in O}
  <2>1. X \in SUBSET Items /\ \A e \in X : e.field = n
    <3>1. \A d \in O : BytesItem(n, d) \in Items /\ BytesItem(n, d).field = n
      BY ItemsType DEF BytesItem
    <3> QED BY <3>1
  <2>2. OneOf(X)
    BY <1>1 DEF OneOf
  <2>3. E = {Enc(e) : e \in X}
    <3>1. \A d \in O : Enc(BytesItem(n, d)) = put_len_field(n, d)
      BY ItemsType
    <3> QED BY <3>1
  <2> HIDE DEF X, E
  <2>4. \E its : Put(buf \o PutOptional(E), items, its, c, n, X)
    BY <2>1, <2>2, <2>3, PutSome
  <2> QED BY <2>4 DEF X, E
<1>2. ASSUME NEW O \in SUBSET Word, OneOf(O)
      PROVE  \E its : Put(buf \o PutOptional({put_varint_field(n, v) : v \in O}), items, its, c, n,
                          {NumberItem(n, v) : v \in O})
  <2> DEFINE X == {NumberItem(n, v) : v \in O}
             E == {put_varint_field(n, v) : v \in O}
  <2>1. X \in SUBSET Items /\ \A e \in X : e.field = n
    <3>1. \A v \in O : NumberItem(n, v) \in Items /\ NumberItem(n, v).field = n
      BY ItemsType DEF NumberItem
    <3> QED BY <3>1
  <2>2. OneOf(X)
    BY <1>2 DEF OneOf
  <2>3. E = {Enc(e) : e \in X}
    <3>1. \A v \in O : Enc(NumberItem(n, v)) = put_varint_field(n, v)
      BY ItemsType
    <3> QED BY <3>1
  <2> HIDE DEF X, E
  <2>4. \E its : Put(buf \o PutOptional(E), items, its, c, n, X)
    BY <2>1, <2>2, <2>3, PutSome
  <2> QED BY <2>4 DEF X, E
<1> QED BY <1>1, <1>2

\* The empty frame carries nothing, whatever the fields.
LEMMA BuiltEmpty ==
    ASSUME NEW K
    PROVE  Built(<< >>, << >>, [n \in K |-> {}])
<1> DEFINE c == [n \in K |-> {}]
<1>1. << >> \in Seq(Nat) /\ << >> \in Seq(Items) /\ Len(<< >>) = 0
  OBVIOUS
<1>2. Carrying(<< >>, c)
  <2>1. \A n \in DOMAIN c : c[n] = {}
    OBVIOUS
  <2>2. \A n : Carries(<< >>, n, {})
    BY <1>1 DEF Carries
  <2> HIDE DEF c
  <2> QED BY <2>1, <2>2 DEF Carrying
<1>3. c = [n \in DOMAIN c |-> c[n]]
  OBVIOUS
<1> HIDE DEF c
<1>4. Built(<< >>, << >>, c)
  BY <1>1, <1>2, <1>3, EmptyEncodes DEF Built
<1> QED BY <1>4 DEF c

\* A required field that was decoded says what was put.
LEMMA RequiredRead ==
    ASSUME NEW r, NEW n, Occurrences(r, n) # {}
    PROVE  /\ \A d : Got(r, n, {BytesItem(n, d)}) => Bytes(r, n) = d
           /\ \A v : Got(r, n, {NumberItem(n, v)}) => Number(r, n) = v
<1>1. ASSUME NEW d, Got(r, n, {BytesItem(n, d)}) PROVE Bytes(r, n) = d
  <2>1. Bytes(r, n) = BytesItem(n, d).data
    BY <1>1, GotValues
  <2> QED BY <2>1 DEF BytesItem
<1>2. ASSUME NEW v, Got(r, n, {NumberItem(n, v)}) PROVE Number(r, n) = v
  <2>1. Number(r, n) = NumberItem(n, v).num
    BY <1>2, GotValues
  <2> QED BY <2>1 DEF NumberItem
<1> QED BY <1>1, <1>2

\* An optional field of bytes says what was put, if it was decoded.
LEMMA OptionalRead ==
    ASSUME NEW r, NEW n, NEW O, OneOf(O), Got(r, n, {BytesItem(n, d) : d \in O})
    PROVE  /\ Occurrences(r, n) = {} => {f.data : f \in LastOf(r, n)} = {}
           /\ Occurrences(r, n) # {} => {f.data : f \in LastOf(r, n)} = O
           /\ \A k \in Occurrences(r, n) : r[k].data \in O
<1> DEFINE X == {BytesItem(n, d) : d \in O}
<1>1. /\ X = {} => Occurrences(r, n) = {}
      /\ Occurrences(r, n) = {} => LastOf(r, n) = {}
      /\ \A e : X = {e} /\ Occurrences(r, n) # {} => \E f : LastOf(r, n) = {f} /\ Like(f, e)
      /\ \A k \in Occurrences(r, n) : \E e \in X : Like(r[k], e)
  <2>1. Got(r, n, X)
    OBVIOUS
  <2> HIDE DEF X
  <2> QED BY <2>1, GotValues
<1>2. CASE O = {}
  BY <1>1, <1>2
<1>3. ASSUME NEW d, O = {d}, Occurrences(r, n) # {}
      PROVE  {f.data : f \in LastOf(r, n)} = O
  <2>1. X = {BytesItem(n, d)}
    BY <1>3
  <2>2. PICK f : LastOf(r, n) = {f} /\ Like(f, BytesItem(n, d))
    BY <1>1, <1>3, <2>1
  <2>3. f.data = d
    BY <2>2 DEF Like, BytesItem
  <2> QED BY <1>3, <2>2, <2>3
<1>4. ASSUME NEW k \in Occurrences(r, n) PROVE r[k].data \in O
  <2>1. PICK d \in O : Like(r[k], BytesItem(n, d))
    BY <1>1, <1>4
  <2> QED BY <2>1 DEF Like, BytesItem
<1> QED BY <1>1, <1>2, <1>3, <1>4 DEF OneOf

\* An optional number is read as it was put, if it was decoded.
LEMMA OptionalNumberRead ==
    ASSUME NEW r, NEW n, NEW O, OneOf(O), Got(r, n, {NumberItem(n, v) : v \in O})
    PROVE  /\ Occurrences(r, n) = {} => {f.num : f \in LastOf(r, n)} = {}
           /\ Occurrences(r, n) # {} => {f.num : f \in LastOf(r, n)} = O
<1> DEFINE X == {NumberItem(n, v) : v \in O}
<1>1. /\ X = {} => Occurrences(r, n) = {}
      /\ Occurrences(r, n) = {} => LastOf(r, n) = {}
      /\ \A e : X = {e} /\ Occurrences(r, n) # {} => \E f : LastOf(r, n) = {f} /\ Like(f, e)
  <2>1. Got(r, n, X)
    OBVIOUS
  <2> HIDE DEF X
  <2> QED BY <2>1, GotValues
<1>2. CASE O = {}
  BY <1>1, <1>2
<1>3. ASSUME NEW v, O = {v}, Occurrences(r, n) # {}
      PROVE  {f.num : f \in LastOf(r, n)} = O
  <2>1. X = {NumberItem(n, v)}
    BY <1>3
  <2>2. PICK f : LastOf(r, n) = {f} /\ Like(f, NumberItem(n, v))
    BY <1>1, <1>3, <2>1
  <2>3. f.num = v
    BY <2>2 DEF Like, NumberItem
  <2> QED BY <1>3, <2>2, <2>3
<1> QED BY <1>1, <1>2, <1>3 DEF OneOf

\* The field numbers of the messages.
LEMMA FieldNumbers ==
    /\ 1 \in Fields /\ 2 \in Fields /\ 3 \in Fields /\ 4 \in Fields /\ 5 \in Fields
    /\ CONFIG_ACCOUNT_FIELD \in Fields /\ CONFIG_ACCOUNT_FIELD \notin 1..5
    /\ 0 \in Word /\ 1 \in Word
BY WireAssumption DEF Fields, Word

\* What a complete frame carries is decoded.
LEMMA BuiltRead ==
    ASSUME NEW buf, NEW items, NEW c, Built(buf, items, c)
    PROVE  \E r : /\ walk_fields(buf) = {r}
                  /\ \A n \in DOMAIN c : Got(r, n, c[n]) /\ (c[n] # {} => Occurrences(r, n) # {})
<1>1. Encodes(buf, items) /\ Carrying(items, c) /\ Len(items) \in Nat
  BY DEF Built
<1>2. PICK r : walk_fields(buf) = {r} /\ Prefix(r, items) /\ Len(r) = Len(items)
  BY <1>1, EncodedWalk
<1>3. ASSUME NEW n \in DOMAIN c PROVE Got(r, n, c[n]) /\ (c[n] # {} => Occurrences(r, n) # {})
  <2>1. Carries(items, n, c[n])
    BY <1>1 DEF Carrying
  <2> QED BY <1>1, <1>2, <2>1, Gets
<1> QED BY <1>2, <1>3

-----------------------------------------------------------------------------
(***************************************************************************)
(* The messages inside a response                                          *)
(***************************************************************************)

\* What the fields of MembershipAllocationSuccess carry.
SuccessCarried(s, c) ==
    /\ DOMAIN c = 1..4 \cup {CONFIG_ACCOUNT_FIELD}
    /\ c[1] = {NumberItem(1, s.leaf_index)}
    /\ c[2] = {BytesItem(2, s.merkle_root)}
    /\ c[3] = {NumberItem(3, s.block_number)}
    /\ c[4] = {BytesItem(4, s.transaction_hash)}
    /\ c[CONFIG_ACCOUNT_FIELD] = {BytesItem(CONFIG_ACCOUNT_FIELD, d) : d \in s.config_account_id}

\* A success is encoded field by field.
LEMMA SuccessBuilt ==
    ASSUME NEW s \in Successes
    PROVE  \E items, c : Built(EncodeSuccess(s), items, c) /\ SuccessCarried(s, c)
<1> DEFINE C == CONFIG_ACCOUNT_FIELD
           K == 1..4 \cup {C}
           O == s.config_account_id
           c0 == [n \in K |-> {}]
           c1 == [c0 EXCEPT ![1] = {NumberItem(1, s.leaf_index)}]
           c2 == [c1 EXCEPT ![2] = {BytesItem(2, s.merkle_root)}]
           c3 == [c2 EXCEPT ![3] = {NumberItem(3, s.block_number)}]
           c4 == [c3 EXCEPT ![4] = {BytesItem(4, s.transaction_hash)}]
           c5 == [c4 EXCEPT ![C] = {BytesItem(C, d) : d \in O}]
           a1 == put_varint_field(1, s.leaf_index)
           a2 == put_len_field(2, s.merkle_root)
           a3 == put_varint_field(3, s.block_number)
           a4 == put_len_field(4, s.transaction_hash)
           a5 == PutOptional({put_len_field(C, d) : d \in O})
<1>1. /\ s.leaf_index \in Word /\ s.merkle_root \in Octets /\ s.block_number \in Word
      /\ s.transaction_hash \in Octets /\ O \in SUBSET Octets /\ OneOf(O)
  <2>1. O \in Optional(Octets)
    BY DEF Successes
  <2>2. O \in SUBSET Octets /\ OneOf(O)
    <3> HIDE DEF O
    <3> QED BY <2>1, OptionalOne
  <2> QED BY <2>2 DEF Successes
<1>2. EncodeSuccess(s) = a1 \o a2 \o a3 \o a4 \o a5
  BY DEF EncodeSuccess
<1>3. C \in Fields /\ C \notin 1..5
  BY FieldNumbers
<1>4. /\ DOMAIN c0 = K /\ DOMAIN c1 = K /\ DOMAIN c2 = K /\ DOMAIN c3 = K /\ DOMAIN c4 = K
      /\ c0[1] = {} /\ c1[2] = {} /\ c2[3] = {} /\ c3[4] = {} /\ c4[C] = {}
      /\ 1 \in K /\ 2 \in K /\ 3 \in K /\ 4 \in K /\ C \in K
  <2> HIDE DEF C
  <2> QED BY <1>3
<1>5. SuccessCarried(s, c5)
  BY <1>3 DEF SuccessCarried
<1>6. Built(<< >>, << >>, c0)
  BY BuiltEmpty
<1> HIDE DEF c0, c1, c2, c3, c4, c5, a1, a2, a3, a4, a5, K, O, C
<1>7. PICK i1 : Built(<< >> \o a1, i1, c1)
  BY <1>1, <1>4, <1>6, FieldNumbers, PutField DEF Put, a1, c1
<1>8. PICK i2 : Built(<< >> \o a1 \o a2, i2, c2)
  BY <1>1, <1>4, <1>7, FieldNumbers, PutField DEF Put, a2, c2
<1>9. PICK i3 : Built(<< >> \o a1 \o a2 \o a3, i3, c3)
  BY <1>1, <1>4, <1>8, FieldNumbers, PutField DEF Put, a3, c3
<1>10. PICK i4 : Built(<< >> \o a1 \o a2 \o a3 \o a4, i4, c4)
  BY <1>1, <1>4, <1>9, FieldNumbers, PutField DEF Put, a4, c4
<1>11. PICK i5 : Built(<< >> \o a1 \o a2 \o a3 \o a4 \o a5, i5, c5)
  <2> DEFINE b == << >> \o a1 \o a2 \o a3 \o a4
  <2>1. Built(b, i4, c4)
    BY <1>10
  <2> HIDE DEF b
  <2>2. \E its : Put(b \o PutOptional({put_len_field(C, d) : d \in O}), i4, its, c4, C,
                     {BytesItem(C, d) : d \in O})
    BY <1>1, <1>3, <1>4, <2>1, PutOptionalField
  <2> QED BY <2>2 DEF Put, a5, c5, b
<1>12. << >> \o a1 = a1
  <2>1. a1 \in Seq(Nat)
    <3>1. NumberItem(1, s.leaf_index) \in Items /\ a1 = Enc(NumberItem(1, s.leaf_index))
      BY <1>1, FieldNumbers, ItemsType DEF a1
    <3> QED BY <3>1, EncParts
  <2> QED BY <2>1, ConcatEmptySeq
<1> QED BY <1>2, <1>5, <1>11, <1>12

\* A success that is encoded is decoded.
LEMMA SuccessRoundTrip ==
    ASSUME NEW s \in Successes
    PROVE  EncodeSuccess(s) \in Seq(Nat) /\ DecodeSuccess(EncodeSuccess(s)) = {s}
<1> DEFINE C == CONFIG_ACCOUNT_FIELD
           O == s.config_account_id
<1>1. PICK items, c : Built(EncodeSuccess(s), items, c) /\ SuccessCarried(s, c)
  BY SuccessBuilt
<1>2. EncodeSuccess(s) \in Seq(Nat)
  BY <1>1 DEF Built
<1>3. PICK r : /\ walk_fields(EncodeSuccess(s)) = {r}
               /\ \A n \in DOMAIN c : Got(r, n, c[n]) /\ (c[n] # {} => Occurrences(r, n) # {})
  BY <1>1, BuiltRead
<1>4. 1 \in DOMAIN c /\ 2 \in DOMAIN c /\ 3 \in DOMAIN c /\ 4 \in DOMAIN c /\ C \in DOMAIN c
  BY <1>1 DEF SuccessCarried
<1>5. /\ Number(r, 1) = s.leaf_index /\ Bytes(r, 2) = s.merkle_root
      /\ Number(r, 3) = s.block_number /\ Bytes(r, 4) = s.transaction_hash
  BY <1>1, <1>3, <1>4, RequiredRead DEF SuccessCarried
<1>6. OneOf(O)
  <2>1. O \in Optional(Octets)
    BY DEF Successes
  <2> QED BY <2>1, OptionalOne
<1>7. {f.data : f \in LastOf(r, C)} = O
  <2>1. Got(r, C, {BytesItem(C, d) : d \in O})
    BY <1>1, <1>3, <1>4 DEF SuccessCarried
  <2>2. O # {} => Occurrences(r, C) # {}
    <3>1. O # {} => c[C] # {}
      BY <1>1 DEF SuccessCarried
    <3> QED BY <1>3, <1>4, <3>1
  <2>3. O = {} => {f.data : f \in LastOf(r, C)} = {}
    <3> HIDE DEF O, C
    <3>1. O = {} => {BytesItem(C, d) : d \in O} = {}
      OBVIOUS
    <3>2. O = {} => LastOf(r, C) = {}
      BY <2>1, <3>1, GotValues
    <3> QED BY <3>2
  <2> HIDE DEF O, C
  <2> QED BY <1>6, <2>1, <2>2, <2>3, OptionalRead
<1>8. s = [leaf_index |-> s.leaf_index, merkle_root |-> s.merkle_root,
           block_number |-> s.block_number, transaction_hash |-> s.transaction_hash,
           config_account_id |-> s.config_account_id]
  BY DEF Successes
<1>9. DecodeSuccess(EncodeSuccess(s)) =
        {[leaf_index |-> Number(r, 1), merkle_root |-> Bytes(r, 2), block_number |-> Number(r, 3),
          transaction_hash |-> Bytes(r, 4), config_account_id |-> {f.data : f \in LastOf(r, C)}]}
  BY <1>3 DEF DecodeSuccess
<1> QED BY <1>2, <1>5, <1>7, <1>8, <1>9

\* A failure that is encoded is decoded.
LEMMA FailureRoundTrip ==
    ASSUME NEW f \in Failures
    PROVE  EncodeFailure(f) \in Seq(Nat) /\ DecodeFailure(EncodeFailure(f)) = {f}
<1> DEFINE c0 == [n \in {1} |-> {}]
           c1 == [c0 EXCEPT ![1] = {BytesItem(1, f.error_message)}]
           a1 == put_len_field(1, f.error_message)
<1>1. f.error_message \in Octets
  BY DEF Failures
<1>2. /\ DOMAIN c0 = {1} /\ c0[1] = {}
      /\ DOMAIN c1 = {1} /\ c1[1] = {BytesItem(1, f.error_message)}
  OBVIOUS
<1>3. Built(<< >>, << >>, c0)
  BY BuiltEmpty
<1> HIDE DEF c0, c1, a1
<1>4. PICK items : Built(<< >> \o a1, items, c1)
  BY <1>1, <1>2, <1>3, FieldNumbers, PutField DEF Put, a1, c1
<1>5. << >> \o a1 = a1 /\ a1 \in Seq(Nat)
  <2>1. a1 \in Seq(Nat)
    <3>1. BytesItem(1, f.error_message) \in Items /\ a1 = Enc(BytesItem(1, f.error_message))
      BY <1>1, FieldNumbers, ItemsType DEF a1
    <3> QED BY <3>1, EncParts
  <2> QED BY <2>1, ConcatEmptySeq
<1>6. PICK r : walk_fields(a1) = {r} /\ Got(r, 1, c1[1]) /\ (c1[1] # {} => Occurrences(r, 1) # {})
  BY <1>2, <1>4, <1>5, BuiltRead
<1>7. Bytes(r, 1) = f.error_message
  BY <1>2, <1>6, RequiredRead
<1>8. f = [error_message |-> f.error_message]
  BY DEF Failures
<1>9. EncodeFailure(f) = a1
  BY DEF EncodeFailure, a1
<1>10. DecodeFailure(a1) = {[error_message |-> Bytes(r, 1)]}
  BY <1>6 DEF DecodeFailure
<1> QED BY <1>5, <1>7, <1>8, <1>9, <1>10

-----------------------------------------------------------------------------
(***************************************************************************)
(* Requests                                                                *)
(***************************************************************************)

\* What the fields of RlnGifterRequest carry.
RequestCarried(m, c) ==
    /\ DOMAIN c = 1..5
    /\ c[1] = {BytesItem(1, m.request_id)}
    /\ c[2] = {BytesItem(2, m.authentication_type)}
    /\ c[3] = {BytesItem(3, m.authentication_payload)}
    /\ c[4] = {BytesItem(4, m.identity_commitment)}
    /\ c[5] = {NumberItem(5, v) : v \in m.rate_limit}

\* The first four fields of a request come first.
Ordered(items) == Len(items) >= 4 /\ \A k \in 1..4 : items[k].field = k

InOrder(items, n) == Len(items) = n /\ \A k \in 1..n : items[k].field = k

\* The next item of a frame is behind those that are there.
LEMMA NextInOrder ==
    ASSUME NEW items, NEW its, NEW i \in Nat, NEW n \in Nat, n = i + 1,
           InOrder(items, i), Len(its) = n, Grown(items, its, n)
    PROVE  InOrder(its, n)
<1> SUFFICES ASSUME NEW k \in 1..n PROVE its[k].field = k
  BY DEF InOrder
<1>1. CASE k = n
  <2>1. k \in 1..Len(its) /\ k > Len(items)
    BY <1>1 DEF InOrder
  <2> QED BY <1>1, <2>1 DEF Grown
<1>2. CASE k # n
  <2>1. k \in 1..i /\ k \in 1..Len(items)
    BY <1>2 DEF InOrder
  <2> QED BY <2>1 DEF Grown, InOrder
<1> QED BY <1>1, <1>2

\* A frame that grows stays in order.
LEMMA OrderedGrows ==
    ASSUME NEW items, NEW its, NEW n, Grown(items, its, n), Len(items) \in Nat, Ordered(items)
    PROVE  Ordered(its)
<1>1. Len(its) \in Nat /\ Len(items) <= Len(its) /\ Len(items) >= 4
  BY DEF Grown, Ordered
<1>2. \A k \in 1..4 : k \in 1..Len(items)
  BY <1>1
<1> QED BY <1>1, <1>2 DEF Grown, Ordered

\* A request is encoded field by field.
LEMMA RequestBuilt ==
    ASSUME NEW m \in Requests
    PROVE  \E items, c : /\ Built(EncodeRequest(m), items, c)
                         /\ RequestCarried(m, c) /\ Ordered(items)
<1> DEFINE O == m.rate_limit
           c0 == [n \in 1..5 |-> {}]
           c1 == [c0 EXCEPT ![1] = {BytesItem(1, m.request_id)}]
           c2 == [c1 EXCEPT ![2] = {BytesItem(2, m.authentication_type)}]
           c3 == [c2 EXCEPT ![3] = {BytesItem(3, m.authentication_payload)}]
           c4 == [c3 EXCEPT ![4] = {BytesItem(4, m.identity_commitment)}]
           c5 == [c4 EXCEPT ![5] = {NumberItem(5, v) : v \in O}]
           a1 == put_len_field(1, m.request_id)
           a2 == put_len_field(2, m.authentication_type)
           a3 == put_len_field(3, m.authentication_payload)
           a4 == put_len_field(4, m.identity_commitment)
           a5 == PutOptional({put_varint_field(5, v) : v \in O})
<1>1. /\ m.request_id \in Octets /\ m.authentication_type \in Octets
      /\ m.authentication_payload \in Octets /\ m.identity_commitment \in Octets
      /\ O \in SUBSET Word /\ OneOf(O)
  <2>1. O \in Optional(Word)
    BY DEF Requests
  <2>2. O \in SUBSET Word /\ OneOf(O)
    <3> HIDE DEF O
    <3> QED BY <2>1, OptionalOne
  <2> QED BY <2>2 DEF Requests
<1>2. EncodeRequest(m) = a1 \o a2 \o a3 \o a4 \o a5
  BY DEF EncodeRequest
<1>3. /\ DOMAIN c0 = 1..5 /\ DOMAIN c1 = 1..5 /\ DOMAIN c2 = 1..5 /\ DOMAIN c3 = 1..5
      /\ DOMAIN c4 = 1..5
      /\ c0[1] = {} /\ c1[2] = {} /\ c2[3] = {} /\ c3[4] = {} /\ c4[5] = {}
  OBVIOUS
<1>4. RequestCarried(m, c5)
  BY DEF RequestCarried
<1>5. Built(<< >>, << >>, c0)
  BY BuiltEmpty
<1> HIDE DEF c0, c1, c2, c3, c4, c5, a1, a2, a3, a4, a5, O
<1>6. PICK i1 : Put(<< >> \o a1, << >>, i1, c0, 1, {BytesItem(1, m.request_id)})
  BY <1>1, <1>3, <1>5, FieldNumbers, PutField DEF a1
<1>7. Built(<< >> \o a1, i1, c1) /\ InOrder(i1, 1)
  <2>1. /\ Built(<< >> \o a1, i1, c1) /\ Grown(<< >>, i1, 1) /\ Len(i1) = 0 + 1
    BY <1>6, EmptySeq DEF Put, c1
  <2> QED BY <2>1 DEF Grown, InOrder
<1>8. PICK i2 : Put(<< >> \o a1 \o a2, i1, i2, c1, 2, {BytesItem(2, m.authentication_type)})
  BY <1>1, <1>3, <1>7, FieldNumbers, PutField DEF a2
<1>9. Built(<< >> \o a1 \o a2, i2, c2) /\ InOrder(i2, 2)
  <2>1. Built(<< >> \o a1 \o a2, i2, c2) /\ Grown(i1, i2, 2) /\ Len(i2) = 2
    BY <1>7, <1>8 DEF Put, c2, InOrder
  <2>2. InOrder(i2, 2)
    <3> DEFINE i == 1
               n == 2
    <3>1. i \in Nat /\ n \in Nat /\ n = i + 1
      OBVIOUS
    <3>2. InOrder(i1, i) /\ Grown(i1, i2, n) /\ Len(i2) = n
      BY <1>7, <2>1
    <3> HIDE DEF i, n
    <3>3. InOrder(i2, n)
      BY <3>1, <3>2, NextInOrder
    <3> QED BY <3>3 DEF n
  <2> QED BY <2>1, <2>2
<1>10. PICK i3 : Put(<< >> \o a1 \o a2 \o a3, i2, i3, c2, 3, {BytesItem(3, m.authentication_payload)})
  BY <1>1, <1>3, <1>9, FieldNumbers, PutField DEF a3
<1>11. Built(<< >> \o a1 \o a2 \o a3, i3, c3) /\ InOrder(i3, 3)
  <2>1. Built(<< >> \o a1 \o a2 \o a3, i3, c3) /\ Grown(i2, i3, 3) /\ Len(i3) = 3
    BY <1>9, <1>10 DEF Put, c3, InOrder
  <2>2. InOrder(i3, 3)
    <3> DEFINE i == 2
               n == 3
    <3>1. i \in Nat /\ n \in Nat /\ n = i + 1
      OBVIOUS
    <3>2. InOrder(i2, i) /\ Grown(i2, i3, n) /\ Len(i3) = n
      BY <1>9, <2>1
    <3> HIDE DEF i, n
    <3>3. InOrder(i3, n)
      BY <3>1, <3>2, NextInOrder
    <3> QED BY <3>3 DEF n
  <2> QED BY <2>1, <2>2
<1> DEFINE b == << >> \o a1 \o a2 \o a3 \o a4
<1>12. PICK i4 : Put(b, i3, i4, c3, 4, {BytesItem(4, m.identity_commitment)})
  BY <1>1, <1>3, <1>11, FieldNumbers, PutField DEF a4
<1> HIDE DEF b
<1>13. Built(b, i4, c4) /\ Len(i4) = 4 /\ Ordered(i4)
  <2>1. Built(b, i4, c4) /\ Grown(i3, i4, 4) /\ Len(i4) = 4
    BY <1>11, <1>12 DEF Put, c4, InOrder
  <2>2. InOrder(i4, 4)
    <3> DEFINE i == 3
               n == 4
    <3>1. i \in Nat /\ n \in Nat /\ n = i + 1
      OBVIOUS
    <3>2. InOrder(i3, i) /\ Grown(i3, i4, n) /\ Len(i4) = n
      BY <1>11, <2>1
    <3> HIDE DEF i, n
    <3>3. InOrder(i4, n)
      BY <3>1, <3>2, NextInOrder
    <3> QED BY <3>3 DEF n
  <2> QED BY <2>1, <2>2 DEF Ordered, InOrder
<1>14. PICK i5 : Put(b \o PutOptional({put_varint_field(5, v) : v \in O}), i4, i5, c4, 5,
                     {NumberItem(5, v) : v \in O})
  <2>1. 5 \in DOMAIN c4 /\ 5 \in Fields
    BY <1>3, FieldNumbers
  <2> QED BY <1>1, <1>3, <1>13, <2>1, PutOptionalField
<1>15. Built(b \o a5, i5, c5) /\ Grown(i4, i5, 5)
  BY <1>14 DEF Put, a5, c5
<1>16. Ordered(i5)
  BY <1>13, <1>15, OrderedGrows
<1>17. << >> \o a1 = a1
  <2>1. a1 \in Seq(Nat)
    <3>1. BytesItem(1, m.request_id) \in Items /\ a1 = Enc(BytesItem(1, m.request_id))
      BY <1>1, FieldNumbers, ItemsType DEF a1
    <3> QED BY <3>1, EncParts
  <2> QED BY <2>1, ConcatEmptySeq
<1>18. b \o a5 = EncodeRequest(m)
  BY <1>2, <1>17 DEF b
<1> QED BY <1>4, <1>15, <1>16, <1>18

\* Where the identity commitment was decoded, so were the fields before it.
LEMMA OrderedRead ==
    ASSUME NEW items, Ordered(items), Len(items) \in Nat, NEW r, Prefix(r, items),
           NEW S, Carries(items, 4, S), Occurrences(r, 4) # {}
    PROVE  \A n \in 1..4 : Occurrences(r, n) # {}
<1>1. /\ Len(r) \in Nat /\ Len(r) <= Len(items) /\ Len(items) >= 4
      /\ \A j \in 1..Len(r) : r[j].field = items[j].field
  BY DEF Prefix, Like, Ordered
<1>2. PICK j \in 1..Len(r) : r[j].field = 4
  BY DEF Occurrences
<1>3. j \in 1..Len(items) /\ 4 \in 1..Len(items) /\ items[j].field = 4 /\ items[4].field = 4
  BY <1>1, <1>2 DEF Ordered
<1>4. j = 4
  BY <1>3 DEF Carries
<1>5. \A n \in 1..4 : n \in 1..Len(r) /\ r[n].field = n
  BY <1>1, <1>2, <1>4 DEF Ordered
<1> QED BY <1>5 DEF Occurrences

-----------------------------------------------------------------------------
(***************************************************************************)
(* Responses                                                               *)
(***************************************************************************)

\* The encodings of the messages inside a response, if there are any.
SuccessBytes(m) == {EncodeSuccess(s) : s \in m.success}

FailureBytes(m) == {EncodeFailure(f) : f \in m.failure}

\* What the fields of RlnGifterResponse carry.
ResponseCarried(m, c) ==
    /\ DOMAIN c = 1..5
    /\ c[1] = {BytesItem(1, m.request_id)}
    /\ c[2] = {NumberItem(2, IF m.auth_success THEN 1 ELSE 0)}
    /\ c[3] = {BytesItem(3, d) : d \in m.error}
    /\ c[4] = {BytesItem(4, d) : d \in SuccessBytes(m)}
    /\ c[5] = {BytesItem(5, d) : d \in FailureBytes(m)}

\* The parts of a response: each optional one is there once or not at all.
LEMMA ResponseParts ==
    ASSUME NEW m \in Responses
    PROVE  /\ m.request_id \in Octets /\ m.auth_success \in BOOLEAN
           /\ OneOf(m.error) /\ m.error \in SUBSET Octets
           /\ OneOf(m.success) /\ m.success \in SUBSET Successes
           /\ OneOf(m.failure) /\ m.failure \in SUBSET Failures
           /\ OneOf(SuccessBytes(m)) /\ SuccessBytes(m) \in SUBSET Octets
           /\ OneOf(FailureBytes(m)) /\ FailureBytes(m) \in SUBSET Octets
<1> DEFINE GS == {s \in Successes : Len(EncodeSuccess(s)) < WORD}
           GF == {f \in Failures : Len(EncodeFailure(f)) < WORD}
<1>1. /\ m.request_id \in Octets /\ m.auth_success \in BOOLEAN /\ m.error \in Optional(Octets)
      /\ m.success \in Optional(GS) /\ m.failure \in Optional(GF)
  BY DEF Responses
<1>2. OneOf(m.error) /\ m.error \in SUBSET Octets
  BY <1>1, OptionalOne
<1>3. OneOf(m.success) /\ m.success \in SUBSET GS
  <2> HIDE DEF GS
  <2> QED BY <1>1, OptionalOne
<1>4. OneOf(m.failure) /\ m.failure \in SUBSET GF
  <2> HIDE DEF GF
  <2> QED BY <1>1, OptionalOne
<1>5. \A s \in GS : EncodeSuccess(s) \in Octets
  BY SuccessRoundTrip DEF Octets
<1>6. \A f \in GF : EncodeFailure(f) \in Octets
  BY FailureRoundTrip DEF Octets
<1>7. m.success \in SUBSET Successes /\ m.failure \in SUBSET Failures
  BY <1>3, <1>4
<1> HIDE DEF GS, GF
<1>8. OneOf(SuccessBytes(m)) /\ SuccessBytes(m) \in SUBSET Octets
  BY <1>3, <1>5 DEF OneOf, SuccessBytes
<1>9. OneOf(FailureBytes(m)) /\ FailureBytes(m) \in SUBSET Octets
  BY <1>4, <1>6 DEF OneOf, FailureBytes
<1> QED BY <1>1, <1>2, <1>3, <1>4, <1>7, <1>8, <1>9

\* A frame with one more optional field of bytes.
GrownBy(buf, c, n, O) ==
    \E its : Built(buf \o PutOptional({put_len_field(n, d) : d \in O}), its,
                   [c EXCEPT ![n] = {BytesItem(n, d) : d \in O}])

\* Such a field can be put behind a frame.
LEMMA OptionalBytesPut ==
    ASSUME NEW buf, NEW items, NEW c, Built(buf, items, c), NEW n \in Fields,
           n \in DOMAIN c, c[n] = {}, NEW O \in SUBSET Octets, OneOf(O)
    PROVE  GrownBy(buf, c, n, O)
<1>1. \E its : Put(buf \o PutOptional({put_len_field(n, d) : d \in O}), items, its, c, n,
                   {BytesItem(n, d) : d \in O})
  BY PutOptionalField
<1> QED BY <1>1 DEF Put, GrownBy

\* A response is encoded field by field.
LEMMA ResponseBuilt ==
    ASSUME NEW m \in Responses
    PROVE  \E items, c : Built(EncodeResponse(m), items, c) /\ ResponseCarried(m, c)
<1> DEFINE v == IF m.auth_success THEN 1 ELSE 0
           A == m.error
           S == SuccessBytes(m)
           F == FailureBytes(m)
           c0 == [n \in 1..5 |-> {}]
           c1 == [c0 EXCEPT ![1] = {BytesItem(1, m.request_id)}]
           c2 == [c1 EXCEPT ![2] = {NumberItem(2, v)}]
           c3 == [c2 EXCEPT ![3] = {BytesItem(3, d) : d \in A}]
           c4 == [c3 EXCEPT ![4] = {BytesItem(4, d) : d \in S}]
           c5 == [c4 EXCEPT ![5] = {BytesItem(5, d) : d \in F}]
           a1 == put_len_field(1, m.request_id)
           a2 == put_varint_field(2, v)
           a3 == PutOptional({put_len_field(3, d) : d \in A})
           a4 == PutOptional({put_len_field(4, d) : d \in S})
           a5 == PutOptional({put_len_field(5, d) : d \in F})
<1>1. /\ m.request_id \in Octets /\ v \in Word
      /\ A \in SUBSET Octets /\ OneOf(A) /\ S \in SUBSET Octets /\ OneOf(S)
      /\ F \in SUBSET Octets /\ OneOf(F)
  BY ResponseParts, FieldNumbers
<1>2. EncodeResponse(m) = a1 \o a2 \o a3 \o a4 \o a5
  <2>1. {put_len_field(4, d) : d \in S} = {put_len_field(4, EncodeSuccess(s)) : s \in m.success}
    BY DEF SuccessBytes
  <2>2. {put_len_field(5, d) : d \in F} = {put_len_field(5, EncodeFailure(f)) : f \in m.failure}
    BY DEF FailureBytes
  <2> HIDE DEF S, F
  <2> QED BY <2>1, <2>2 DEF EncodeResponse
<1>3. /\ DOMAIN c0 = 1..5 /\ DOMAIN c1 = 1..5 /\ DOMAIN c2 = 1..5 /\ DOMAIN c3 = 1..5
      /\ DOMAIN c4 = 1..5
      /\ c0[1] = {} /\ c1[2] = {} /\ c2[3] = {} /\ c3[4] = {} /\ c4[5] = {}
  OBVIOUS
<1>4. ResponseCarried(m, c5)
  BY DEF ResponseCarried
<1>5. Built(<< >>, << >>, c0)
  BY BuiltEmpty
<1> HIDE DEF c0, c1, c2, c3, c4, c5, a1, a2, a3, a4, a5, v, A, S, F
<1>6. PICK i1 : Built(<< >> \o a1, i1, c1)
  BY <1>1, <1>3, <1>5, FieldNumbers, PutField DEF Put, a1, c1
<1> DEFINE b2 == << >> \o a1 \o a2
<1>7. PICK i2 : Built(b2, i2, c2)
  BY <1>1, <1>3, <1>6, FieldNumbers, PutField DEF Put, a2, c2
<1>8. 3 \in DOMAIN c2 /\ 4 \in DOMAIN c3 /\ 5 \in DOMAIN c4
  BY <1>3
<1> DEFINE b3 == b2 \o a3
           b4 == b3 \o a4
           b5 == b4 \o a5
<1> HIDE DEF b2
<1>9. PICK i3 : Built(b3, i3, c3)
  <2>1. GrownBy(b2, c2, 3, A)
    BY <1>1, <1>3, <1>7, <1>8, FieldNumbers, OptionalBytesPut
  <2> QED BY <2>1 DEF GrownBy, a3, c3
<1> HIDE DEF b3
<1>10. PICK i4 : Built(b4, i4, c4)
  <2>1. GrownBy(b3, c3, 4, S)
    BY <1>1, <1>3, <1>8, <1>9, FieldNumbers, OptionalBytesPut
  <2> QED BY <2>1 DEF GrownBy, a4, c4
<1> HIDE DEF b4
<1>11. PICK i5 : Built(b5, i5, c5)
  <2>1. GrownBy(b4, c4, 5, F)
    BY <1>1, <1>3, <1>8, <1>10, FieldNumbers, OptionalBytesPut
  <2> QED BY <2>1 DEF GrownBy, a5, c5
<1>12. << >> \o a1 = a1
  <2>1. a1 \in Seq(Nat)
    <3>1. BytesItem(1, m.request_id) \in Items /\ a1 = Enc(BytesItem(1, m.request_id))
      BY <1>1, FieldNumbers, ItemsType DEF a1
    <3> QED BY <3>1, EncParts
  <2> QED BY <2>1, ConcatEmptySeq
<1>13. b5 = EncodeResponse(m)
  BY <1>2, <1>12 DEF b2, b3, b4
<1> HIDE DEF b5
<1> QED BY <1>4, <1>11, <1>13

\* A success inside a response is read as it was put, if it was decoded.
LEMMA SuccessRead ==
    ASSUME NEW r, NEW m \in Responses, Got(r, 4, {BytesItem(4, d) : d \in SuccessBytes(m)})
    PROVE  /\ Occurrences(r, 4) = {} => UNION {DecodeSuccess(f.data) : f \in LastOf(r, 4)} = {}
           /\ Occurrences(r, 4) # {} =>
                 UNION {DecodeSuccess(f.data) : f \in LastOf(r, 4)} = m.success
           /\ \A k \in Occurrences(r, 4) : DecodeSuccess(r[k].data) # {}
<1> DEFINE L == LastOf(r, 4)
           O == SuccessBytes(m)
           U == UNION {DecodeSuccess(f.data) : f \in L}
<1>1. OneOf(O) /\ OneOf(m.success) /\ m.success \in SUBSET Successes
  BY ResponseParts
<1>2. /\ Occurrences(r, 4) = {} => {f.data : f \in L} = {}
      /\ Occurrences(r, 4) # {} => {f.data : f \in L} = O
      /\ \A k \in Occurrences(r, 4) : r[k].data \in O
  BY <1>1, OptionalRead
<1>3. \A s \in m.success : DecodeSuccess(EncodeSuccess(s)) = {s}
  BY <1>1, SuccessRoundTrip
<1>4. U = UNION {DecodeSuccess(d) : d \in {f.data : f \in L}}
  <2>1. {DecodeSuccess(f.data) : f \in L} = {DecodeSuccess(d) : d \in {f.data : f \in L}}
    <3> HIDE DEF L
    <3> QED OBVIOUS
  <2> QED BY <2>1
<1> HIDE DEF L, U
<1>5. UNION {DecodeSuccess(d) : d \in O} = m.success
  <2>1. CASE m.success = {}
    BY <2>1 DEF SuccessBytes
  <2>2. ASSUME NEW s, m.success = {s} PROVE UNION {DecodeSuccess(d) : d \in O} = m.success
    <3>1. O = {EncodeSuccess(s)}
      BY <2>2 DEF SuccessBytes
    <3>2. {DecodeSuccess(d) : d \in O} = {{s}}
      BY <1>3, <2>2, <3>1
    <3> QED BY <2>2, <3>2
  <2> QED BY <1>1, <2>1, <2>2 DEF OneOf
<1>6. \A d \in O : DecodeSuccess(d) # {}
  BY <1>3 DEF SuccessBytes
<1> HIDE DEF O
<1>7. Occurrences(r, 4) = {} => U = {}
  BY <1>2, <1>4
<1>8. Occurrences(r, 4) # {} => U = m.success
  BY <1>2, <1>4, <1>5
<1>9. \A k \in Occurrences(r, 4) : DecodeSuccess(r[k].data) # {}
  BY <1>2, <1>6
<1> QED BY <1>7, <1>8, <1>9 DEF U, L

\* A failure inside a response is read as it was put, if it was decoded.
LEMMA FailureRead ==
    ASSUME NEW r, NEW m \in Responses, Got(r, 5, {BytesItem(5, d) : d \in FailureBytes(m)})
    PROVE  /\ Occurrences(r, 5) = {} => UNION {DecodeFailure(f.data) : f \in LastOf(r, 5)} = {}
           /\ Occurrences(r, 5) # {} =>
                 UNION {DecodeFailure(f.data) : f \in LastOf(r, 5)} = m.failure
           /\ \A k \in Occurrences(r, 5) : DecodeFailure(r[k].data) # {}
<1> DEFINE L == LastOf(r, 5)
           O == FailureBytes(m)
           U == UNION {DecodeFailure(f.data) : f \in L}
<1>1. OneOf(O) /\ OneOf(m.failure) /\ m.failure \in SUBSET Failures
  BY ResponseParts
<1>2. /\ Occurrences(r, 5) = {} => {f.data : f \in L} = {}
      /\ Occurrences(r, 5) # {} => {f.data : f \in L} = O
      /\ \A k \in Occurrences(r, 5) : r[k].data \in O
  BY <1>1, OptionalRead
<1>3. \A s \in m.failure : DecodeFailure(EncodeFailure(s)) = {s}
  BY <1>1, FailureRoundTrip
<1>4. U = UNION {DecodeFailure(d) : d \in {f.data : f \in L}}
  <2>1. {DecodeFailure(f.data) : f \in L} = {DecodeFailure(d) : d \in {f.data : f \in L}}
    <3> HIDE DEF L
    <3> QED OBVIOUS
  <2> QED BY <2>1
<1> HIDE DEF L, U
<1>5. UNION {DecodeFailure(d) : d \in O} = m.failure
  <2>1. CASE m.failure = {}
    BY <2>1 DEF FailureBytes
  <2>2. ASSUME NEW s, m.failure = {s} PROVE UNION {DecodeFailure(d) : d \in O} = m.failure
    <3>1. O = {EncodeFailure(s)}
      BY <2>2 DEF FailureBytes
    <3>2. {DecodeFailure(d) : d \in O} = {{s}}
      BY <1>3, <2>2, <3>1
    <3> QED BY <2>2, <3>2
  <2> QED BY <1>1, <2>1, <2>2 DEF OneOf
<1>6. \A d \in O : DecodeFailure(d) # {}
  BY <1>3 DEF FailureBytes
<1> HIDE DEF O
<1>7. Occurrences(r, 5) = {} => U = {}
  BY <1>2, <1>4
<1>8. Occurrences(r, 5) # {} => U = m.failure
  BY <1>2, <1>4, <1>5
<1>9. \A k \in Occurrences(r, 5) : DecodeFailure(r[k].data) # {}
  BY <1>2, <1>6
<1> QED BY <1>7, <1>8, <1>9 DEF U, L

-----------------------------------------------------------------------------
(***************************************************************************)
(* What the decoders make of the fields                                    *)
(***************************************************************************)

RequestOf(r) ==
    [request_id |-> Bytes(r, 1), authentication_type |-> Bytes(r, 2),
     authentication_payload |-> Bytes(r, 3), identity_commitment |-> Bytes(r, 4),
     rate_limit |-> {f.num : f \in LastOf(r, 5)}]

ResponseOf(r) ==
    [request_id |-> Bytes(r, 1), auth_success |-> Number(r, 2) # 0,
     error |-> {f.data : f \in LastOf(r, 3)},
     success |-> UNION {DecodeSuccess(f.data) : f \in LastOf(r, 4)},
     failure |-> UNION {DecodeFailure(f.data) : f \in LastOf(r, 5)}]

\* The fields say what c says, as far as they were decoded.
AllGot(r, c) == \A n \in 1..5 : Got(r, n, c[n])

\* A request whose first four fields were decoded is the request that was sent,
\* perhaps without its rate.
LEMMA RequestRead ==
    ASSUME NEW m \in Requests, NEW c, RequestCarried(m, c), NEW r, AllGot(r, c),
           \A n \in 1..4 : Occurrences(r, n) # {}
    PROVE  /\ RequestOf(r) \in {m, [m EXCEPT !.rate_limit = {}]}
           /\ (m.rate_limit # {} => Occurrences(r, 5) # {}) => RequestOf(r) = m
<1> DEFINE O == m.rate_limit
           R == {f.num : f \in LastOf(r, 5)}
<1>1. /\ Bytes(r, 1) = m.request_id /\ Bytes(r, 2) = m.authentication_type
      /\ Bytes(r, 3) = m.authentication_payload /\ Bytes(r, 4) = m.identity_commitment
  BY RequiredRead DEF RequestCarried, AllGot
<1>2. OneOf(O)
  <2>1. O \in Optional(Word)
    BY DEF Requests
  <2> QED BY <2>1, OptionalOne
<1>3. Got(r, 5, {NumberItem(5, v) : v \in O})
  BY DEF RequestCarried, AllGot
<1>4. Occurrences(r, 5) = {} => R = {}
  <2> HIDE DEF O
  <2> QED BY <1>2, <1>3, OptionalNumberRead
<1>5. Occurrences(r, 5) # {} => R = O
  <2> HIDE DEF O
  <2> QED BY <1>2, <1>3, OptionalNumberRead
<1>6. m = [request_id |-> m.request_id, authentication_type |-> m.authentication_type,
           authentication_payload |-> m.authentication_payload,
           identity_commitment |-> m.identity_commitment, rate_limit |-> m.rate_limit]
  BY DEF Requests
<1>7. [m EXCEPT !.rate_limit = {}] =
          [request_id |-> m.request_id, authentication_type |-> m.authentication_type,
           authentication_payload |-> m.authentication_payload,
           identity_commitment |-> m.identity_commitment, rate_limit |-> {}]
  BY DEF Requests
<1>8. RequestOf(r) =
          [request_id |-> m.request_id, authentication_type |-> m.authentication_type,
           authentication_payload |-> m.authentication_payload,
           identity_commitment |-> m.identity_commitment, rate_limit |-> R]
  BY <1>1 DEF RequestOf
<1> HIDE DEF R
<1>9. R = {} \/ R = O
  BY <1>4, <1>5
<1>10. (m.rate_limit # {} => Occurrences(r, 5) # {}) => R = O
  BY <1>4, <1>5
<1> QED BY <1>6, <1>7, <1>8, <1>9, <1>10

\* A response whose first two fields were decoded is the response that was sent,
\* perhaps without some of its optional parts, and its nested messages decode.
LEMMA ResponseRead ==
    ASSUME NEW m \in Responses, NEW c, ResponseCarried(m, c), NEW r, AllGot(r, c),
           Occurrences(r, 1) # {}, Occurrences(r, 2) # {}
    PROVE  /\ ResponseOf(r).request_id = m.request_id
           /\ ResponseOf(r).auth_success = m.auth_success
           /\ ResponseOf(r).error \subseteq m.error
           /\ ResponseOf(r).success \subseteq m.success
           /\ ResponseOf(r).failure \subseteq m.failure
           /\ (\A n \in 1..5 : c[n] # {} => Occurrences(r, n) # {}) => ResponseOf(r) = m
           /\ \A k \in Occurrences(r, 4) : DecodeSuccess(r[k].data) # {}
           /\ \A k \in Occurrences(r, 5) : DecodeFailure(r[k].data) # {}
<1> DEFINE E == {f.data : f \in LastOf(r, 3)}
           S == UNION {DecodeSuccess(f.data) : f \in LastOf(r, 4)}
           F == UNION {DecodeFailure(f.data) : f \in LastOf(r, 5)}
<1>1. /\ Got(r, 1, {BytesItem(1, m.request_id)})
      /\ Got(r, 2, {NumberItem(2, IF m.auth_success THEN 1 ELSE 0)})
      /\ Got(r, 3, {BytesItem(3, d) : d \in m.error})
      /\ Got(r, 4, {BytesItem(4, d) : d \in SuccessBytes(m)})
      /\ Got(r, 5, {BytesItem(5, d) : d \in FailureBytes(m)})
  <2>1. 1 \in 1..5 /\ 2 \in 1..5 /\ 3 \in 1..5 /\ 4 \in 1..5 /\ 5 \in 1..5
    OBVIOUS
  <2>2. Got(r, 1, c[1]) /\ Got(r, 2, c[2]) /\ Got(r, 3, c[3]) /\ Got(r, 4, c[4]) /\ Got(r, 5, c[5])
    BY <2>1, Zenon DEF AllGot
  <2> QED BY <2>2, Zenon DEF ResponseCarried
<1>2. Bytes(r, 1) = m.request_id
  BY <1>1, RequiredRead
<1>3. (Number(r, 2) # 0) = m.auth_success
  <2>1. Number(r, 2) = IF m.auth_success THEN 1 ELSE 0
    BY <1>1, RequiredRead
  <2>2. m.auth_success \in BOOLEAN
    BY ResponseParts
  <2> QED BY <2>1, <2>2
<1>4. /\ Occurrences(r, 3) = {} => E = {}
      /\ Occurrences(r, 3) # {} => E = m.error
  BY <1>1, ResponseParts, OptionalRead
<1>5. /\ Occurrences(r, 4) = {} => S = {}
      /\ Occurrences(r, 4) # {} => S = m.success
      /\ \A k \in Occurrences(r, 4) : DecodeSuccess(r[k].data) # {}
  BY <1>1, SuccessRead
<1>6. /\ Occurrences(r, 5) = {} => F = {}
      /\ Occurrences(r, 5) # {} => F = m.failure
      /\ \A k \in Occurrences(r, 5) : DecodeFailure(r[k].data) # {}
  BY <1>1, FailureRead
<1>7. ResponseOf(r) = [request_id |-> m.request_id, auth_success |-> m.auth_success,
                       error |-> E, success |-> S, failure |-> F]
  BY <1>2, <1>3 DEF ResponseOf
<1> HIDE DEF E, S, F
<1>8. ASSUME \A n \in 1..5 : c[n] # {} => Occurrences(r, n) # {}
      PROVE  E = m.error /\ S = m.success /\ F = m.failure
  <2>1. m.error # {} => c[3] # {}
    BY DEF ResponseCarried
  <2>2. m.success # {} => c[4] # {}
    BY DEF ResponseCarried, SuccessBytes
  <2>3. m.failure # {} => c[5] # {}
    BY DEF ResponseCarried, FailureBytes
  <2>4. /\ m.error # {} => Occurrences(r, 3) # {}
        /\ m.success # {} => Occurrences(r, 4) # {}
        /\ m.failure # {} => Occurrences(r, 5) # {}
    BY <1>8, <2>1, <2>2, <2>3
  <2> QED BY <1>4, <1>5, <1>6, <2>4
<1>9. m = [request_id |-> m.request_id, auth_success |-> m.auth_success,
           error |-> m.error, success |-> m.success, failure |-> m.failure]
  BY DEF Responses
<1>10. (\A n \in 1..5 : c[n] # {} => Occurrences(r, n) # {}) => ResponseOf(r) = m
  BY <1>7, <1>8, <1>9
<1>11. /\ ResponseOf(r).request_id = m.request_id
       /\ ResponseOf(r).auth_success = m.auth_success
       /\ ResponseOf(r).error = E /\ ResponseOf(r).success = S /\ ResponseOf(r).failure = F
  BY <1>7
<1>12. E \subseteq m.error /\ S \subseteq m.success /\ F \subseteq m.failure
  BY <1>4, <1>5, <1>6
<1> QED BY <1>5, <1>6, <1>10, <1>11, <1>12

-----------------------------------------------------------------------------
(***************************************************************************)
(* The invariant, and the theorems                                         *)
(***************************************************************************)

\* The items and what they carry are those of the message.
Meant(items, c) ==
    /\ items \in Seq(Items) /\ Len(items) \in Nat /\ Carrying(items, c)
    /\ \/ kind = "request" /\ msg \in Requests /\ RequestCarried(msg, c) /\ Ordered(items)
       \/ kind = "response" /\ msg \in Responses /\ ResponseCarried(msg, c)

\* The frame has the items of the message, and then of a later version, one after the
\* other, all of them unless it has lost its end.
FrameHolds ==
    /\ cut \in BOOLEAN
    /\ \E items, c : /\ Meant(items, c) /\ Truncated(frame, items)
                     /\ ~ cut => Built(frame, items, c)

\* A frame starts with all the fields of its message.
LEMMA FrameInit == Init => FrameHolds
<1> SUFFICES ASSUME Init PROVE FrameHolds
  OBVIOUS
<1>1. cut \in BOOLEAN
  BY DEF Init
<1>2. CASE kind = "request" /\ msg \in RequestMessages /\ frame = EncodeRequest(msg)
  <2>1. msg \in Requests
    BY <1>2, MessagesAssumption
  <2>2. PICK items, c : Built(frame, items, c) /\ RequestCarried(msg, c) /\ Ordered(items)
    BY <1>2, <2>1, RequestBuilt
  <2>3. Meant(items, c) /\ Truncated(frame, items)
    BY <1>2, <2>1, <2>2, CutTruncated DEF Meant, Built
  <2> QED BY <1>1, <2>2, <2>3 DEF FrameHolds
<1>3. CASE kind = "response" /\ msg \in ResponseMessages /\ frame = EncodeResponse(msg)
  <2>1. msg \in Responses
    BY <1>3, MessagesAssumption
  <2>2. PICK items, c : Built(frame, items, c) /\ ResponseCarried(msg, c)
    BY <1>3, <2>1, ResponseBuilt
  <2>3. Meant(items, c) /\ Truncated(frame, items)
    BY <1>3, <2>1, <2>2, CutTruncated DEF Meant, Built
  <2> QED BY <1>1, <2>2, <2>3 DEF FrameHolds
<1> QED BY <1>2, <1>3 DEF Init

\* A field of a later version changes nothing of what the message carries.
LEMMA FrameExtend ==
    ASSUME FrameHolds, NEW field \in UnknownFields, NEW data \in {<< >>, << 0 >>},
           Extend(field, data)
    PROVE  FrameHolds'
<1>1. PICK items, c : Meant(items, c) /\ (~ cut => Built(frame, items, c))
  BY DEF FrameHolds
<1>2. /\ ~ cut /\ cut' = cut /\ kind' = kind /\ msg' = msg
      /\ frame' = frame \o put_len_field(field, data)
  BY DEF Extend
<1>3. Built(frame, items, c)
  BY <1>1, <1>2
<1>4. DOMAIN c = 1..5
  BY <1>1 DEF Meant, RequestCarried, ResponseCarried
<1>5. field \in Fields /\ field \notin 1..5
  BY UnknownAssumption DEF Fields
<1>6. data \in Octets
  <2>1. WORD \in Nat /\ WORD > 1
    BY WireAssumption
  <2>2. CASE data = << >>
    <3>1. data \in Seq(Nat) /\ Len(data) = 0
      BY <2>2
    <3> QED BY <2>1, <3>1 DEF Octets
  <2>3. CASE data = << 0 >>
    <3>1. data \in Seq(Nat) /\ Len(data) = 1
      BY <2>3
    <3> QED BY <2>1, <3>1 DEF Octets
  <2> QED BY <2>2, <2>3
<1>7. PICK its : Put(frame', items, its, c, field, {BytesItem(field, data)})
  BY <1>2, <1>3, <1>4, <1>5, <1>6, PutField
<1>8. [c EXCEPT ![field] = {BytesItem(field, data)}] = c
  <2>1. c = [n \in DOMAIN c |-> c[n]]
    BY <1>3 DEF Built
  <2> QED BY <1>4, <1>5, <2>1
<1>9. Built(frame', its, c) /\ Grown(items, its, field)
  BY <1>7, <1>8 DEF Put
<1>10. Ordered(items) => Ordered(its)
  BY <1>1, <1>9, OrderedGrows DEF Meant
<1>11. Meant(its, c)'
  BY <1>1, <1>2, <1>9, <1>10 DEF Meant, Built
<1>12. Truncated(frame', its)
  BY <1>9, CutTruncated DEF Built
<1> QED BY <1>2, <1>9, <1>11, <1>12 DEF FrameHolds

\* Every step keeps the frame's items.
LEMMA FrameStep == FrameHolds /\ [Next]_vars => FrameHolds'
<1> SUFFICES ASSUME FrameHolds, [Next]_vars PROVE FrameHolds'
  OBVIOUS
<1>1. CASE Cut
  <2>1. PICK items, c : Meant(items, c) /\ Truncated(frame, items)
    BY DEF FrameHolds
  <2>2. /\ frame # << >> /\ frame' = SubSeq(frame, 1, Len(frame) - 1)
        /\ cut' = TRUE /\ kind' = kind /\ msg' = msg
    BY <1>1 DEF Cut
  <2>3. Truncated(frame', items)
    BY <2>1, <2>2, CutTruncated
  <2>4. Meant(items, c)'
    BY <2>1, <2>2 DEF Meant
  <2> QED BY <2>2, <2>3, <2>4 DEF FrameHolds
<1>2. CASE \E field \in UnknownFields, data \in {<< >>, << 0 >>} : Extend(field, data)
  BY <1>2, FrameExtend
<1>3. CASE UNCHANGED vars
  BY <1>3 DEF FrameHolds, Meant, vars
<1> QED BY <1>1, <1>2, <1>3 DEF Next

\* The invariant holds.
LEMMA FrameInvariant == Spec => []FrameHolds
BY FrameInit, FrameStep, PTL DEF Spec

\* What the peers rely on: a frame that arrives as it was sent decodes to the message
\* that was encoded, with or without fields of a later version.
THEOREM FramesRoundTrip == Spec => []RoundTrip
<1>1. FrameHolds => RoundTrip
  <2> SUFFICES ASSUME FrameHolds, ~ cut PROVE Decoded = {msg}
    BY DEF RoundTrip
  <2>1. PICK items, c : Meant(items, c) /\ Built(frame, items, c)
    BY DEF FrameHolds
  <2>2. DOMAIN c = 1..5
    BY <2>1 DEF Meant, RequestCarried, ResponseCarried
  <2>3. PICK r : /\ walk_fields(frame) = {r}
                 /\ \A n \in 1..5 : Got(r, n, c[n]) /\ (c[n] # {} => Occurrences(r, n) # {})
    BY <2>1, <2>2, BuiltRead
  <2>4. AllGot(r, c)
    BY <2>3 DEF AllGot
  <2>5. CASE kind = "request" /\ msg \in Requests /\ RequestCarried(msg, c)
    <3>1. \A n \in 1..4 : c[n] # {}
      BY <2>5 DEF RequestCarried
    <3>2. \A n \in 1..4 : Occurrences(r, n) # {}
      BY <2>3, <3>1
    <3>3. msg.rate_limit # {} => Occurrences(r, 5) # {}
      <4>1. msg.rate_limit # {} => c[5] # {}
        BY <2>5 DEF RequestCarried
      <4> QED BY <2>3, <4>1
    <3>4. RequestOf(r) = msg
      BY <2>4, <2>5, <3>2, <3>3, RequestRead
    <3>5. {w \in walk_fields(frame) : Occurrences(w, 1) # {} /\ Occurrences(w, 4) # {}} = {r}
      BY <2>3, <3>2
    <3>6. DecodeRequest(frame) = {RequestOf(r)}
      BY <3>5 DEF DecodeRequest, RequestOf
    <3> QED BY <2>5, <3>4, <3>6 DEF Decoded
  <2>6. CASE kind = "response" /\ msg \in Responses /\ ResponseCarried(msg, c)
    <3>1. c[1] # {} /\ c[2] # {}
      BY <2>6 DEF ResponseCarried
    <3>2. Occurrences(r, 1) # {} /\ Occurrences(r, 2) # {}
      BY <2>3, <3>1
    <3>3. /\ ResponseOf(r) = msg
          /\ \A k \in Occurrences(r, 4) : DecodeSuccess(r[k].data) # {}
          /\ \A k \in Occurrences(r, 5) : DecodeFailure(r[k].data) # {}
      BY <2>3, <2>4, <2>6, <3>2, ResponseRead
    <3>4. {w \in walk_fields(frame) :
             /\ Occurrences(w, 1) # {} /\ Occurrences(w, 2) # {}
             /\ \A k \in Occurrences(w, 4) : DecodeSuccess(w[k].data) # {}
             /\ \A k \in Occurrences(w, 5) : DecodeFailure(w[k].data) # {}} = {r}
      BY <2>3, <3>2, <3>3
    <3>5. DecodeResponse(frame) = {ResponseOf(r)}
      BY <3>4 DEF DecodeResponse, ResponseOf
    <3> QED BY <2>6, <3>3, <3>5 DEF Decoded
  <2> QED BY <2>1, <2>5, <2>6 DEF Meant
<1> QED BY <1>1, FrameInvariant, PTL

\* A frame that loses its end is refused, or decodes to the message without some of its
\* optional parts: the decoders never report what was not sent.
THEOREM CutFramesInventNothing == Spec => []CutNeverInvents
<1>1. FrameHolds => CutNeverInvents
  <2> SUFFICES ASSUME FrameHolds, NEW m \in Decoded
               PROVE  IF kind = "request" THEN m \in {msg, [msg EXCEPT !.rate_limit = {}]}
                      ELSE /\ m.request_id = msg.request_id /\ m.auth_success = msg.auth_success
                           /\ m.error \subseteq msg.error
                           /\ m.success \subseteq msg.success
                           /\ m.failure \subseteq msg.failure
    BY DEF CutNeverInvents
  <2>1. PICK items, c : Meant(items, c) /\ Truncated(frame, items)
    BY DEF FrameHolds
  <2>2. DOMAIN c = 1..5 /\ Len(items) \in Nat
    BY <2>1 DEF Meant, RequestCarried, ResponseCarried
  <2>3. ASSUME NEW r \in walk_fields(frame) PROVE Prefix(r, items) /\ AllGot(r, c)
    <3>1. Prefix(r, items)
      BY <2>1, TruncatedWalk
    <3>2. \A n \in 1..5 : Carries(items, n, c[n])
      BY <2>1, <2>2 DEF Meant, Carrying
    <3>3. \A n \in 1..5 : Got(r, n, c[n])
      BY <2>2, <3>1, <3>2, Gets
    <3> QED BY <3>1, <3>3 DEF AllGot
  <2>4. CASE kind = "request" /\ msg \in Requests /\ RequestCarried(msg, c) /\ Ordered(items)
    <3>1. m \in DecodeRequest(frame)
      BY <2>4 DEF Decoded
    <3>2. PICK r \in walk_fields(frame) : m = RequestOf(r) /\ Occurrences(r, 4) # {}
      BY <3>1 DEF DecodeRequest, RequestOf
    <3>3. Carries(items, 4, c[4])
      BY <2>1, <2>2 DEF Meant, Carrying
    <3>4. \A n \in 1..4 : Occurrences(r, n) # {}
      BY <2>2, <2>3, <2>4, <3>2, <3>3, OrderedRead
    <3> QED BY <2>3, <2>4, <3>2, <3>4, RequestRead
  <2>5. CASE kind = "response" /\ msg \in Responses /\ ResponseCarried(msg, c)
    <3>1. m \in DecodeResponse(frame)
      BY <2>5 DEF Decoded
    <3>2. PICK r \in walk_fields(frame) :
            m = ResponseOf(r) /\ Occurrences(r, 1) # {} /\ Occurrences(r, 2) # {}
      BY <3>1 DEF DecodeResponse, ResponseOf
    <3>3. AllGot(r, c)
      BY <2>3
    <3>4. /\ m.request_id = msg.request_id /\ m.auth_success = msg.auth_success
          /\ m.error \subseteq msg.error /\ m.success \subseteq msg.success
          /\ m.failure \subseteq msg.failure
      BY <2>5, <3>2, <3>3, ResponseRead
    <3> QED BY <2>5, <3>4
  <2> QED BY <2>1, <2>4, <2>5 DEF Meant
<1> QED BY <1>1, FrameInvariant, PTL

=============================================================================
