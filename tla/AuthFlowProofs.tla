--------------------------- MODULE AuthFlowProofs ---------------------------
(***************************************************************************)
(* Proofs about the way of an authentication payload.                      *)
(***************************************************************************)
EXTENDS AuthFlow, NullifierKeyProofs

-----------------------------------------------------------------------------
(***************************************************************************)
(* The verifier's TLV reader                                               *)
(***************************************************************************)

\* An element of a buffer: a stretch of it, and the value at the end of that stretch.
ElementsOf(buf) ==
    {e \in [value : Seq(Nat), full : Seq(Nat)] :
        \E i, v \in 1..(Len(buf) + 1), n \in 0..Len(buf) :
           e.value = SubSeq(buf, v, n) /\ e.full = SubSeq(buf, i, n)}

\* Where an element's value starts and ends.
LEMMA ElementEnds ==
    ASSUME NEW i \in Nat, NEW n \in Nat, NEW k \in Nat \ {0}
    PROVE  /\ i + 1 + k \in Nat /\ i + 1 + k + n \in Nat
           /\ i + 1 + k > i + 1 /\ i + 1 + k + n >= i + 1 + k
OBVIOUS

\* A length of two bytes is a number.
LEMMA TwoByteLength ==
    ASSUME NEW a \in Nat, NEW b \in Nat, NEW c \in Nat
    PROVE  a * b + c \in Nat
OBVIOUS

\* What attest_read_len makes of the bytes of a length.
LEMMA LengthRead ==
    ASSUME NEW buf \in Seq(Nat), NEW i \in Nat \ {0}, NEW l \in attest_read_len(buf, i)
    PROVE  l[1] \in Nat /\ l[2] \in 1..3
<1>1. i <= Len(buf)
  BY DEF attest_read_len
<1>2. \A k \in 1..Len(buf) : buf[k] \in Nat
  OBVIOUS
<1>3. HALF \in Nat /\ BYTE \in Nat
  BY HalfAssumption DEF BYTE
<1>4. CASE buf[i] < HALF
  <2>1. l = <<buf[i], 1>>
    BY <1>1, <1>2, <1>3, <1>4, SMTT(30) DEF attest_read_len
  <2> QED BY <1>1, <1>2, <2>1
<1>5. CASE buf[i] = HALF + 1 /\ i + 1 <= Len(buf)
  <2>1. l = <<buf[i + 1], 2>>
    BY <1>1, <1>2, <1>3, <1>5 DEF attest_read_len
  <2> QED BY <1>1, <1>2, <1>5, <2>1
<1>6. CASE buf[i] = HALF + 2 /\ i + 2 <= Len(buf)
  <2>1. l = <<buf[i + 1] * BYTE + buf[i + 2], 3>>
    BY <1>1, <1>2, <1>3, <1>6 DEF attest_read_len
  <2>2. buf[i + 1] \in Nat /\ buf[i + 2] \in Nat
    BY <1>1, <1>2, <1>6
  <2>3. buf[i + 1] * BYTE + buf[i + 2] \in Nat
    BY <1>3, <2>2, TwoByteLength
  <2> QED BY <2>1, <2>3
<1> QED BY <1>1, <1>4, <1>5, <1>6 DEF attest_read_len

\* What find_tag finds at position i, where the length l was read, if it finds f[j] from
\* a later position j on.
FoundAt(buf, tag, f, i, l) ==
    LET vstart == i + 1 + l[2]
        vend == vstart + l[1]
    IN IF vend > Len(buf) + 1 THEN {}
       ELSE IF buf[i] = tag
         THEN {[value |-> SubSeq(buf, vstart, vend - 1), full |-> SubSeq(buf, i, vend - 1)]}
       ELSE f[vend]

FindFrom(buf, tag, f, i) ==
    IF i >= Len(buf) THEN {}
    ELSE UNION {FoundAt(buf, tag, f, i, l) : l \in attest_read_len(buf, i + 1)}

\* One step of the search finds elements of the buffer, and looks ahead only.
LEMMA FindLooksAhead ==
    ASSUME NEW buf \in Seq(Nat), NEW tag, NEW i \in 1..(Len(buf) + 1), NEW f
    PROVE  /\ f \in [1..(Len(buf) + 1) -> SUBSET ElementsOf(buf)] =>
                 FindFrom(buf, tag, f, i) \in SUBSET ElementsOf(buf)
           /\ \A g : (\A j \in 1..(Len(buf) + 1) : j > i => f[j] = g[j]) =>
                 FindFrom(buf, tag, f, i) = FindFrom(buf, tag, g, i)
<1> DEFINE N == Len(buf) + 1
           Step(h, l) == FoundAt(buf, tag, h, i, l)
           L == attest_read_len(buf, i + 1)
<1>1. CASE i >= Len(buf)
  BY <1>1 DEF FindFrom
<1>2. CASE ~ (i >= Len(buf))
  <2>1. i \in Nat /\ i >= 1 /\ i + 1 \in Nat \ {0} /\ Len(buf) \in Nat
    OBVIOUS
  <2>2. \A l \in L : l[1] \in Nat /\ l[2] \in 1..3
    BY <2>1, LengthRead
  <2>3. \A h : FindFrom(buf, tag, h, i) = UNION {Step(h, l) : l \in L}
    BY <1>2 DEF FindFrom
  <2>4. ASSUME f \in [1..(Len(buf) + 1) -> SUBSET ElementsOf(buf)], NEW l \in L
        PROVE  Step(f, l) \in SUBSET ElementsOf(buf)
    <3> DEFINE vstart == i + 1 + l[2]
               vend == vstart + l[1]
    <3>1. vstart \in Nat /\ vend \in Nat /\ vstart > i + 1 /\ vend >= vstart
      <4>1. l[1] \in Nat /\ l[2] \in Nat \ {0}
        BY <2>2
      <4> QED BY <2>1, <4>1, ElementEnds
    <3>2. CASE vend > Len(buf) + 1
      BY <3>2 DEF FoundAt
    <3>3. CASE ~ (vend > Len(buf) + 1) /\ buf[i] = tag
      <4> HIDE DEF vstart, vend
      <4>1. i \in 1..(Len(buf) + 1) /\ vstart \in 1..(Len(buf) + 1) /\ vend - 1 \in 0..Len(buf)
        BY <2>1, <3>1, <3>3
      <4>2. [value |-> SubSeq(buf, vstart, vend - 1), full |-> SubSeq(buf, i, vend - 1)]
              \in ElementsOf(buf)
        <5> DEFINE e == [value |-> SubSeq(buf, vstart, vend - 1),
                         full |-> SubSeq(buf, i, vend - 1)]
        <5>1. SubSeq(buf, vstart, vend - 1) \in Seq(Nat) /\ SubSeq(buf, i, vend - 1) \in Seq(Nat)
          BY <4>1, SMTT(30)
        <5>2. \E a, v \in 1..(Len(buf) + 1), n \in 0..Len(buf) :
                 e.value = SubSeq(buf, v, n) /\ e.full = SubSeq(buf, a, n)
          BY <4>1
        <5> QED BY <5>1, <5>2 DEF ElementsOf
      <4> QED BY <3>3, <4>2 DEF vstart, vend, FoundAt
    <3>4. CASE ~ (vend > Len(buf) + 1) /\ buf[i] # tag
      <4>1. vend \in 1..(Len(buf) + 1)
        BY <2>1, <3>1, <3>4
      <4> QED BY <2>4, <3>4, <4>1 DEF FoundAt
    <3> QED BY <3>2, <3>3, <3>4
  <2>5. f \in [1..(Len(buf) + 1) -> SUBSET ElementsOf(buf)] =>
           FindFrom(buf, tag, f, i) \in SUBSET ElementsOf(buf)
    <3> HIDE DEF Step, L
    <3> QED BY <2>3, <2>4
  <2>6. ASSUME NEW g, \A j \in 1..(Len(buf) + 1) : j > i => f[j] = g[j]
        PROVE  FindFrom(buf, tag, f, i) = FindFrom(buf, tag, g, i)
    <3>1. \A l \in L : Step(f, l) = Step(g, l)
      <4> SUFFICES ASSUME NEW l \in L PROVE Step(f, l) = Step(g, l)
        OBVIOUS
      <4> DEFINE vend == i + 1 + l[2] + l[1]
      <4>0. l[1] \in Nat /\ l[2] \in Nat \ {0}
        BY <2>2
      <4>1. vend \in Nat /\ vend > i
        BY <2>1, <4>0, ElementEnds
      <4>2. ~ (vend > Len(buf) + 1) => f[vend] = g[vend]
        BY <2>1, <2>6, <4>1
      <4> QED BY <4>2 DEF FoundAt
    <3> HIDE DEF Step, L
    <3>2. {Step(f, l) : l \in L} = {Step(g, l) : l \in L}
      BY <3>1
    <3> QED BY <2>3, <3>2
  <2> QED BY <2>5, <2>6
<1> QED BY <1>1, <1>2

\* find_tag is the search from the first position on.
LEMMA FindTagIsSearch ==
    ASSUME NEW buf \in Seq(Nat), NEW tag
    PROVE  \E f \in [1..(Len(buf) + 1) -> SUBSET ElementsOf(buf)] :
              /\ attest_find_tag(buf, tag) = f[1]
              /\ \A i \in 1..(Len(buf) + 1) : f[i] = FindFrom(buf, tag, f, i)
<1> DEFINE Scan[i \in 1..(Len(buf) + 1)] ==
              IF i >= Len(buf) THEN {}
              ELSE UNION {LET vstart == i + 1 + l[2]
                              vend == vstart + l[1]
                          IN IF vend > Len(buf) + 1 THEN {}
                             ELSE IF buf[i] = tag
                               THEN {[value |-> SubSeq(buf, vstart, vend - 1),
                                      full |-> SubSeq(buf, i, vend - 1)]}
                             ELSE Scan[vend] : l \in attest_read_len(buf, i + 1)}
           N == Len(buf) + 1
           T == SUBSET ElementsOf(buf)
           B == [i \in 1..N |-> [f \in [1..N -> T] |-> FindFrom(buf, tag, f, i)]]
<1>1. attest_find_tag(buf, tag) = Scan[1]
  BY DEF attest_find_tag
<1>2. Scan = CHOOSE f : f = [i \in 1..N |-> FindFrom(buf, tag, f, i)]
  BY DEF Scan, FindFrom, FoundAt
<1> HIDE DEF Scan
<1>3. N \in Nat /\ T # {}
  <2>1. {} \in T
    OBVIOUS
  <2> HIDE DEF T
  <2> QED BY <2>1
<1>4. \A i \in 1..N : \A f \in [1..N -> T] : B[i][f] = FindFrom(buf, tag, f, i)
  <2> HIDE DEF N, T
  <2> QED OBVIOUS
<1>5. LooksAhead(B, N, T)
  <2>1. \A i \in 1..N : \A f \in [1..N -> T] : FindFrom(buf, tag, f, i) \in T
    BY FindLooksAhead
  <2>2. B \in [1..N -> [[1..N -> T] -> T]]
    <3> HIDE DEF N, T
    <3> QED BY <2>1
  <2>3. ASSUME NEW f \in [1..N -> T], NEW g \in [1..N -> T], NEW i \in 1..N,
               \A j \in 1..N : j > i => f[j] = g[j]
        PROVE  B[i][f] = B[i][g]
    <3>1. FindFrom(buf, tag, f, i) = FindFrom(buf, tag, g, i)
      BY <2>3, FindLooksAhead
    <3> HIDE DEF N, T, B
    <3> QED BY <1>4, <3>1
  <2> HIDE DEF B, N, T
  <2> QED BY <2>2, <2>3 DEF LooksAhead
<1>6. PICK f \in [1..N -> T] : Solves(f, B, N)
  <2> HIDE DEF N, T, B
  <2> QED BY <1>3, <1>5, RecursionAhead
<1>7. f = [i \in 1..N |-> FindFrom(buf, tag, f, i)]
  <2> HIDE DEF N, T, B
  <2> QED BY <1>4, <1>6 DEF Solves
<1>8. Scan = [i \in 1..N |-> FindFrom(buf, tag, Scan, i)]
  <2> HIDE DEF N, T, B
  <2> QED BY <1>2, <1>7, Zenon
<1>9. \A i \in 1..N : Scan[i] = f[i]
  <2> DEFINE differ == {i \in 1..N : Scan[i] # f[i]}
  <2> SUFFICES ASSUME differ # {} PROVE FALSE
    OBVIOUS
  <2>1. differ \in SUBSET (1..N)
    OBVIOUS
  <2>2. PICK i \in differ : \A j \in differ : j <= i
    <3> HIDE DEF differ, N
    <3> QED BY <1>3, <2>1, InkBounds
  <2>3. \A j \in 1..N : j > i => Scan[j] = f[j]
    BY <1>3, <2>2
  <2>4. FindFrom(buf, tag, Scan, i) = FindFrom(buf, tag, f, i)
    BY <2>3, FindLooksAhead
  <2>5. Scan[i] = FindFrom(buf, tag, Scan, i) /\ f[i] = FindFrom(buf, tag, f, i)
    <3> HIDE DEF N, T, B
    <3> QED BY <1>4, <1>6, <1>8 DEF Solves
  <2> QED BY <2>4, <2>5
<1>10. 1 \in 1..N
  BY <1>3
<1>11. attest_find_tag(buf, tag) = f[1]
  BY <1>1, <1>9, <1>10
<1>12. \A i \in 1..N : f[i] = FindFrom(buf, tag, f, i)
  <2> HIDE DEF N, T, B
  <2> QED BY <1>4, <1>6 DEF Solves
<1> QED BY <1>11, <1>12


\* What find_tag returns is made of bytes of the buffer.
LEMMA FoundWithin ==
    ASSUME NEW buf \in Seq(Nat), NEW tag, NEW e \in attest_find_tag(buf, tag)
    PROVE  /\ e.value \in Seq(Nat) /\ ToSet(e.value) \subseteq ToSet(buf)
           /\ e.full \in Seq(Nat) /\ ToSet(e.full) \subseteq ToSet(buf)
<1>1. e \in ElementsOf(buf)
  BY FindTagIsSearch, SMTT(30)
<1>2. PICK i, v \in 1..(Len(buf) + 1), n \in 0..Len(buf) :
         e.value = SubSeq(buf, v, n) /\ e.full = SubSeq(buf, i, n)
  BY <1>1 DEF ElementsOf
<1>3. \A k \in 1..(Len(buf) + 1) :
         SubSeq(buf, k, n) \in Seq(Nat) /\ ToSet(SubSeq(buf, k, n)) \subseteq ToSet(buf)
  <2> SUFFICES ASSUME NEW k \in 1..(Len(buf) + 1)
               PROVE  SubSeq(buf, k, n) \in Seq(Nat) /\ ToSet(SubSeq(buf, k, n)) \subseteq ToSet(buf)
    OBVIOUS
  <2>1. SubSeq(buf, k, n) \in Seq(Nat)
    BY <1>2
  <2>2. \A j \in 1..Len(SubSeq(buf, k, n)) :
           SubSeq(buf, k, n)[j] = buf[k + j - 1] /\ k + j - 1 \in 1..Len(buf)
    BY <1>2
  <2> QED BY <2>1, <2>2 DEF ToSet
<1> QED BY <1>2, <1>3

-----------------------------------------------------------------------------
(***************************************************************************)
(* Hex text                                                                *)
(***************************************************************************)

\* A byte is two hex digits.
LEMMA TwoDigits ==
    ASSUME NEW b \in Byte, NEW q, NEW r, q = b \div NIBBLE, r = b % NIBBLE
    PROVE  q \in Nat /\ q < NIBBLE /\ r \in Nat /\ r < NIBBLE /\ NIBBLE * q + r = b
<1>1. NIBBLE \in Nat /\ NIBBLE > 0 /\ b \in Nat /\ b < NIBBLE * NIBBLE
  BY NibbleAssumption, HalfAssumption DEF Byte, BYTE
<1>2. q \in Int /\ r \in 0..(NIBBLE - 1) /\ b = NIBBLE * q + r
  BY <1>1
<1>3. q >= 0
  BY <1>1, <1>2
<1>4. q < NIBBLE
  BY <1>1, <1>2
<1> QED BY <1>1, <1>2, <1>3, <1>4

\* A sequence over a set is one over a larger set.
LEMMA SequenceWithin ==
    ASSUME NEW S, NEW T, S \subseteq T, NEW s \in Seq(S)
    PROVE  s \in Seq(T)
<1>1. s = [i \in 1..Len(s) |-> s[i]] /\ \A i \in 1..Len(s) : s[i] \in T
  OBVIOUS
<1> QED BY <1>1

\* A byte string is a sequence of numbers.
LEMMA BytesAreNumbers == Seq(Byte) \subseteq Seq(Nat) /\ Byte \subseteq Nat /\ BYTE \in Nat
<1>1. BYTE \in Nat /\ Byte \subseteq Nat
  BY HalfAssumption DEF Byte, BYTE
<1> QED BY <1>1, SequenceWithin

\* hex::encode: two digits for a byte, the high one first.
LEMMA EncodedText ==
    ASSUME NEW bytes \in Seq(Byte)
    PROVE  /\ hex_encode(bytes) \in Seq(Nat) /\ Len(hex_encode(bytes)) = 2 * Len(bytes)
           /\ \A i \in 1..Len(hex_encode(bytes)) : hex_encode(bytes)[i] < NIBBLE
           /\ \A k \in 1..Len(bytes) : /\ hex_encode(bytes)[2 * k - 1] = bytes[k] \div NIBBLE
                                       /\ hex_encode(bytes)[2 * k] = bytes[k] % NIBBLE
<1> DEFINE n == Len(bytes)
           D(i) == LET b == bytes[(i + 1) \div 2]
                   IN IF i % 2 = 1 THEN b \div NIBBLE ELSE b % NIBBLE
           text == [i \in 1..(2 * n) |-> D(i)]
<1>1. n \in Nat /\ \A k \in 1..n : bytes[k] \in Byte
  OBVIOUS
<1>2. \A i \in 1..(2 * n) : (i + 1) \div 2 \in 1..n
  BY <1>1
<1>3. \A i \in 1..(2 * n) : D(i) \in Nat /\ D(i) < NIBBLE
  <2>1. \A b \in Byte : /\ b \div NIBBLE \in Nat /\ b \div NIBBLE < NIBBLE
                        /\ b % NIBBLE \in Nat /\ b % NIBBLE < NIBBLE
    BY TwoDigits
  <2> QED BY <1>1, <1>2, <2>1
<1>4. hex_encode(bytes) = text
  BY DEF hex_encode
<1>5. \A k \in 1..n : /\ 2 * k - 1 \in 1..(2 * n) /\ 2 * k \in 1..(2 * n)
                      /\ D(2 * k - 1) = bytes[k] \div NIBBLE
                      /\ D(2 * k) = bytes[k] % NIBBLE
  <2> SUFFICES ASSUME NEW k \in 1..n
               PROVE  /\ 2 * k - 1 \in 1..(2 * n) /\ 2 * k \in 1..(2 * n)
                      /\ D(2 * k - 1) = bytes[k] \div NIBBLE
                      /\ D(2 * k) = bytes[k] % NIBBLE
    OBVIOUS
  <2>1. 2 * k - 1 \in 1..(2 * n) /\ 2 * k \in 1..(2 * n)
    BY <1>1
  <2>2. (2 * k - 1) % 2 = 1 /\ (2 * k) % 2 # 1
    BY <1>1
  <2>3. (2 * k - 1 + 1) \div 2 = k /\ (2 * k + 1) \div 2 = k
    BY <1>1
  <2> QED BY <2>1, <2>2, <2>3
<1> HIDE DEF D
<1>6. /\ text \in Seq(Nat) /\ Len(text) = 2 * n
      /\ \A i \in 1..(2 * n) : text[i] = D(i)
  BY <1>1, <1>3
<1> HIDE DEF text
<1> QED BY <1>1, <1>3, <1>4, <1>5, <1>6

\* hex::decode reads what hex::encode wrote.
LEMMA DecodeEncoded ==
    ASSUME NEW bytes \in Seq(Byte)
    PROVE  hex_decode(hex_encode(bytes)) = {bytes}
<1> DEFINE text == hex_encode(bytes)
           n == Len(bytes)
<1>1. /\ text \in Seq(Nat) /\ Len(text) = 2 * n /\ n \in Nat
      /\ \A i \in 1..Len(text) : text[i] < NIBBLE
      /\ \A k \in 1..n : text[2 * k - 1] = bytes[k] \div NIBBLE /\ text[2 * k] = bytes[k] % NIBBLE
  BY EncodedText
<1> HIDE DEF text
<1>2. Len(text) % 2 = 0 /\ Len(text) \div 2 = n
  BY <1>1
<1>3. \A k \in 1..n : NIBBLE * text[2 * k - 1] + text[2 * k] = bytes[k]
  <2>1. \A k \in 1..n : bytes[k] \in Byte
    OBVIOUS
  <2> QED BY <1>1, <2>1, TwoDigits
<1>4. [k \in 1..n |-> NIBBLE * text[2 * k - 1] + text[2 * k]] = bytes
  BY <1>3
<1> QED BY <1>1, <1>2, <1>4 DEF hex_decode, text

\* The first character that str::trim_start_matches keeps.
LEMMA LeastKept ==
    ASSUME NEW rest \in SUBSET Nat, NEW m \in rest, \A j \in rest : m <= j
    PROVE  (CHOOSE i \in rest : \A j \in rest : i <= j) = m
<1> DEFINE P(i) == \A j \in rest : i <= j
           c == CHOOSE i \in rest : P(i)
<1>1. c \in rest /\ P(c)
  <2> HIDE DEF P
  <2>1. P(m)
    BY DEF P
  <2> QED BY <2>1
<1> HIDE DEF c
<1>2. c = m
  BY <1>1
<1> QED BY <1>2 DEF c

\* Text without a prefix is left as it is, and one prefix is removed.
LEMMA TrimPrefix ==
    ASSUME NEW text \in Seq(Nat), \A i \in 1..Len(text) : text[i] # PREFIX
    PROVE  trim_0x(text) = text /\ trim_0x(<<PREFIX>> \o text) = text
<1> DEFINE pre == <<PREFIX>> \o text
           R(t) == {i \in 1..Len(t) : t[i] # PREFIX}
           n == Len(text)
<1>0. n \in Nat /\ NIBBLE \in Nat
  BY NibbleAssumption
<1>1. /\ pre \in Seq(Nat) /\ Len(pre) = n + 1 /\ pre[1] = PREFIX
      /\ \A i \in 1..n : pre[i + 1] = text[i]
  BY <1>0 DEF PREFIX
<1> HIDE DEF pre
<1>2. R(text) = 1..n
  OBVIOUS
<1>3. R(pre) = 2..(n + 1)
  <2>1. \A i \in 2..(n + 1) : pre[i] # PREFIX
    <3> TAKE i \in 2..(n + 1)
    <3>1. i - 1 \in 1..n /\ i = (i - 1) + 1
      BY <1>0
    <3>2. pre[i] = text[i - 1]
      BY <1>1, <3>1
    <3> QED BY <3>1, <3>2
  <2>2. \A i \in 1..(n + 1) : pre[i] # PREFIX <=> i \in 2..(n + 1)
    <3>1. \A i \in 1..(n + 1) : i = 1 \/ i \in 2..(n + 1)
      BY <1>0
    <3>2. 1 \notin 2..(n + 1)
      BY <1>0
    <3> QED BY <1>1, <2>1, <3>1, <3>2, Zenon
  <2>3. 2..(n + 1) \subseteq 1..(n + 1)
    BY <1>0
  <2> QED BY <1>1, <2>2, <2>3
<1>4. CASE n = 0
  <2>1. R(text) = {} /\ R(pre) = {}
    BY <1>2, <1>3, <1>4
  <2>2. trim_0x(text) = << >> /\ trim_0x(pre) = << >>
    BY <2>1 DEF trim_0x
  <2>3. text = << >>
    BY <1>4
  <2> QED BY <2>2, <2>3 DEF pre
<1>5. CASE n # 0
  <2>1. 1 \in R(text) /\ \A j \in R(text) : 1 <= j
    BY <1>0, <1>2, <1>5
  <2>2. 2 \in R(pre) /\ \A j \in R(pre) : 2 <= j
    BY <1>0, <1>3, <1>5
  <2>3. R(text) \in SUBSET Nat /\ R(pre) \in SUBSET Nat
    BY <1>0, <1>2, <1>3
  <2>4. /\ (CHOOSE i \in R(text) : \A j \in R(text) : i <= j) = 1
        /\ (CHOOSE i \in R(pre) : \A j \in R(pre) : i <= j) = 2
    <3> HIDE DEF R
    <3> QED BY <2>1, <2>2, <2>3, LeastKept
  <2>5. trim_0x(text) = SubSeq(text, 1, n) /\ trim_0x(pre) = SubSeq(pre, 2, n + 1)
    <3>1. \A t : trim_0x(t) = IF R(t) = {} THEN << >>
                   ELSE SubSeq(t, CHOOSE i \in R(t) : \A j \in R(t) : i <= j, Len(t))
      BY DEF trim_0x
    <3> HIDE DEF R
    <3>2. R(text) # {} /\ R(pre) # {}
      BY <2>1, <2>2
    <3> QED BY <1>1, <2>4, <3>1, <3>2
  <2>6. SubSeq(text, 1, n) = text
    BY <1>0
  <2>7. SubSeq(pre, 2, n + 1) = text
    <3>1. Len(SubSeq(pre, 2, n + 1)) = n /\ SubSeq(pre, 2, n + 1) \in Seq(Nat)
      BY <1>0, <1>1
    <3>2. \A i \in 1..n : SubSeq(pre, 2, n + 1)[i] = text[i]
      <4> TAKE i \in 1..n
      <4>1. SubSeq(pre, 2, n + 1)[i] = pre[2 + i - 1] /\ 2 + i - 1 = i + 1
        BY <1>0, <1>1, SMTT(30)
      <4> QED BY <1>1, <4>1
    <3> QED BY <3>1, <3>2
  <2> QED BY <2>5, <2>6, <2>7 DEF pre
<1> QED BY <1>4, <1>5

\* Hex text, with a prefix or without, is read as the bytes it was made of, and text of
\* an odd length as none.
LEMMA TextRead ==
    ASSUME NEW bytes \in Seq(Byte), NEW form \in TextForms
    PROVE  FromHex(TextOf(form, bytes)) = IF form = "odd" THEN {} ELSE {bytes}
<1> DEFINE text == hex_encode(bytes)
<1>1. text \in Seq(Nat) /\ Len(text) = 2 * Len(bytes) /\ \A i \in 1..Len(text) : text[i] < NIBBLE
  BY EncodedText
<1>2. NIBBLE \in Nat /\ NIBBLE # 0 /\ Len(bytes) \in Nat
  BY NibbleAssumption, HalfAssumption DEF BYTE
<1> HIDE DEF text
<1>3. \A i \in 1..Len(text) : text[i] # PREFIX /\ text[i] \in Nat
  BY <1>1, <1>2 DEF PREFIX
<1>4. trim_0x(text) = text /\ trim_0x(<<PREFIX>> \o text) = text
  BY <1>1, <1>3, TrimPrefix
<1>5. hex_decode(text) = {bytes}
  BY DecodeEncoded DEF text
<1>6. CASE form = "plain"
  BY <1>4, <1>5, <1>6 DEF TextOf, FromHex, text
<1>7. CASE form = "prefixed"
  BY <1>4, <1>5, <1>7 DEF TextOf, FromHex, text
<1>8. CASE form = "odd"
  <2> DEFINE odd == text \o <<0>>
  <2>1. /\ odd \in Seq(Nat) /\ Len(odd) = 2 * Len(bytes) + 1
        /\ \A i \in 1..Len(odd) : odd[i] = IF i <= Len(text) THEN text[i] ELSE 0
    BY <1>1, <1>2
  <2> HIDE DEF odd
  <2>2. \A i \in 1..Len(odd) : odd[i] # PREFIX
    BY <1>1, <1>2, <1>3, <2>1 DEF PREFIX
  <2>3. trim_0x(odd) = odd
    BY <2>1, <2>2, TrimPrefix
  <2>4. Len(odd) % 2 # 0
    BY <1>2, <2>1
  <2>5. hex_decode(odd) = {}
    BY <2>4 DEF hex_decode
  <2> QED BY <1>8, <2>3, <2>5 DEF TextOf, FromHex, text, odd
<1> QED BY <1>6, <1>7, <1>8 DEF TextForms

\* What a buffer's prefix contains, the buffer contains.
LEMMA SubSeqOfPrefix ==
    ASSUME NEW buf \in Seq(Nat), NEW b \in Nat, NEW k \in 1..(Len(buf) + 1), NEW n \in 0..Len(buf)
    PROVE  SubSeq(buf \o <<b>>, k, n) = SubSeq(buf, k, n)
<1> DEFINE more == buf \o <<b>>
<1>1. more \in Seq(Nat) /\ Len(more) = Len(buf) + 1 /\ \A j \in 1..Len(buf) : more[j] = buf[j]
  OBVIOUS
<1> HIDE DEF more
<1>2. /\ SubSeq(more, k, n) \in Seq(Nat) /\ SubSeq(buf, k, n) \in Seq(Nat)
      /\ Len(SubSeq(more, k, n)) = Len(SubSeq(buf, k, n))
  BY <1>1, SMTT(30)
<1>3. \A j \in 1..Len(SubSeq(buf, k, n)) : SubSeq(more, k, n)[j] = SubSeq(buf, k, n)[j]
  <2> TAKE j \in 1..Len(SubSeq(buf, k, n))
  <2>1. /\ SubSeq(more, k, n)[j] = more[k + j - 1]
        /\ SubSeq(buf, k, n)[j] = buf[k + j - 1] /\ k + j - 1 \in 1..Len(buf)
    BY <1>1, <1>2
  <2> QED BY <1>1, <2>1
<1>4. SubSeq(more, k, n) = SubSeq(buf, k, n)
  BY <1>2, <1>3, SameSequence
<1> QED BY <1>4 DEF more

\* The lengths that attest_read_len knows.
LEMMA LengthForms ==
    ASSUME NEW buf \in Seq(Nat), NEW i \in 1..Len(buf)
    PROVE  /\ buf[i] < HALF => attest_read_len(buf, i) = {<<buf[i], 1>>}
           /\ buf[i] = HALF + 1 /\ i + 1 <= Len(buf) =>
                 attest_read_len(buf, i) = {<<buf[i + 1], 2>>}
           /\ buf[i] = HALF + 2 /\ i + 2 <= Len(buf) =>
                 attest_read_len(buf, i) = {<<buf[i + 1] * BYTE + buf[i + 2], 3>>}
           /\ attest_read_len(buf, i) # {} =>
                 \/ buf[i] < HALF
                 \/ buf[i] = HALF + 1 /\ i + 1 <= Len(buf)
                 \/ buf[i] = HALF + 2 /\ i + 2 <= Len(buf)
<1>1. ~ (i > Len(buf)) /\ HALF \in Nat /\ buf[i] \in Nat
  BY HalfAssumption
<1>2. CASE buf[i] < HALF
  <2>1. buf[i] # HALF + 1 /\ buf[i] # HALF + 2
    BY <1>1, <1>2
  <2> QED BY <1>1, <1>2, <2>1 DEF attest_read_len
<1>3. CASE buf[i] = HALF + 1
  <2>1. ~ (buf[i] < HALF) /\ buf[i] # HALF + 2
    BY <1>1, <1>3
  <2> QED BY <1>1, <1>3, <2>1 DEF attest_read_len
<1>4. CASE buf[i] = HALF + 2
  <2>1. ~ (buf[i] < HALF) /\ buf[i] # HALF + 1
    BY <1>1, <1>4
  <2> QED BY <1>1, <1>4, <2>1 DEF attest_read_len
<1>5. CASE ~ (buf[i] < HALF) /\ buf[i] # HALF + 1 /\ buf[i] # HALF + 2
  BY <1>1, <1>5 DEF attest_read_len
<1> QED BY <1>2, <1>3, <1>4, <1>5

\* A length that was read is the one that is there, and more bytes do not change it.
LEMMA LengthOfPrefix ==
    ASSUME NEW buf \in Seq(Nat), NEW b \in Nat, NEW i \in Nat \ {0},
           NEW l \in attest_read_len(buf, i)
    PROVE  attest_read_len(buf, i) = {l} /\ attest_read_len(buf \o <<b>>, i) = {l}
<1> DEFINE more == buf \o <<b>>
<1>1. /\ more \in Seq(Nat) /\ Len(more) = Len(buf) + 1
      /\ \A j \in 1..Len(buf) : more[j] = buf[j] /\ buf[j] \in Nat
  OBVIOUS
<1> SUFFICES attest_read_len(buf, i) = {l} /\ attest_read_len(more, i) = {l}
  OBVIOUS
<1> HIDE DEF more
<1>2. i \in 1..Len(buf) /\ Len(buf) \in Nat
  BY SMTT(30) DEF attest_read_len
<1>3. more[i] = buf[i] /\ i \in 1..Len(more)
  BY <1>1, <1>2
<1>4. CASE buf[i] < HALF
  <2>1. attest_read_len(buf, i) = {<<buf[i], 1>>}
    BY <1>2, <1>4, LengthForms
  <2>2. attest_read_len(more, i) = {<<more[i], 1>>}
    BY <1>1, <1>3, <1>4, LengthForms
  <2> QED BY <1>3, <2>1, <2>2
<1>5. CASE buf[i] = HALF + 1 /\ i + 1 <= Len(buf)
  <2>1. more[i + 1] = buf[i + 1] /\ i + 1 <= Len(more)
    BY <1>1, <1>2, <1>5
  <2>2. attest_read_len(buf, i) = {<<buf[i + 1], 2>>}
    BY <1>2, <1>5, LengthForms
  <2>3. attest_read_len(more, i) = {<<more[i + 1], 2>>}
    <3>1. more \in Seq(Nat) /\ more[i] = HALF + 1
      BY <1>1, <1>3, <1>5
    <3> QED BY <1>3, <2>1, <3>1, LengthForms
  <2> QED BY <2>1, <2>2, <2>3
<1>6. CASE buf[i] = HALF + 2 /\ i + 2 <= Len(buf)
  <2>1. i + 1 \in 1..Len(buf) /\ i + 2 \in 1..Len(buf) /\ i + 2 <= Len(more)
    BY <1>1, <1>2, <1>6
  <2>2. more[i + 1] = buf[i + 1] /\ more[i + 2] = buf[i + 2]
    BY <1>1, <2>1
  <2>3. attest_read_len(buf, i) = {<<buf[i + 1] * BYTE + buf[i + 2], 3>>}
    BY <1>2, <1>6, LengthForms
  <2>4. attest_read_len(more, i) = {<<more[i + 1] * BYTE + more[i + 2], 3>>}
    <3>1. more \in Seq(Nat) /\ more[i] = HALF + 2
      BY <1>1, <1>3, <1>6
    <3> QED BY <1>3, <2>1, <3>1, LengthForms
  <2> QED BY <2>2, <2>3, <2>4
<1>7. attest_read_len(buf, i) # {}
  OBVIOUS
<1> QED BY <1>2, <1>4, <1>5, <1>6, <1>7, LengthForms

\* What find_tag has found stays found when a byte is appended.
LEMMA FoundInPrefix ==
    ASSUME NEW buf \in Seq(Nat), NEW b \in Nat, NEW tag, attest_find_tag(buf, tag) # {}
    PROVE  attest_find_tag(buf \o <<b>>, tag) = attest_find_tag(buf, tag)
<1> DEFINE more == buf \o <<b>>
           N == Len(buf) + 1
<1>1. more \in Seq(Nat) /\ Len(more) = N /\ N \in Nat /\ Len(buf) \in Nat
  OBVIOUS
<1>2. \A j \in 1..Len(buf) : more[j] = buf[j]
  OBVIOUS
<1>3. PICK f \in [1..N -> SUBSET ElementsOf(buf)] :
         /\ attest_find_tag(buf, tag) = f[1]
         /\ \A i \in 1..N : f[i] = FindFrom(buf, tag, f, i)
  BY FindTagIsSearch
<1>4. PICK g \in [1..(N + 1) -> SUBSET ElementsOf(more)] :
         /\ attest_find_tag(more, tag) = g[1]
         /\ \A i \in 1..(N + 1) : g[i] = FindFrom(more, tag, g, i)
  <2> HIDE DEF more
  <2> QED BY <1>1, FindTagIsSearch, SMTT(30)
<1> DEFINE differ == {i \in 1..N : f[i] # {} /\ g[i] # f[i]}
<1>5. differ = {}
  <2> SUFFICES ASSUME differ # {} PROVE FALSE
    OBVIOUS
  <2>1. differ \in SUBSET (1..N)
    OBVIOUS
  <2>2. PICK i \in differ : \A j \in differ : j <= i
    <3> HIDE DEF differ, N
    <3> QED BY <1>1, <2>1, InkBounds
  <2>3. i \in 1..N /\ i \in 1..(N + 1) /\ f[i] # {} /\ g[i] # f[i]
    BY <1>1
  <2>4. \A j \in 1..N : j > i /\ f[j] # {} => g[j] = f[j]
    BY <1>1, <2>2
  <2>5. f[i] = FindFrom(buf, tag, f, i) /\ g[i] = FindFrom(more, tag, g, i)
    BY <1>3, <1>4, <2>3
  <2>6. ~ (i >= Len(buf)) /\ attest_read_len(buf, i + 1) # {}
    <3>1. FindFrom(buf, tag, f, i) # {}
      BY <2>3, <2>5
    <3> QED BY <3>1 DEF FindFrom
  <2>7. PICK l : l \in attest_read_len(buf, i + 1)
    BY <2>6
  <2>8. i + 1 \in Nat \ {0} /\ i \in Nat /\ i >= 1
    BY <2>3
  <2>9. attest_read_len(buf, i + 1) = {l} /\ attest_read_len(more, i + 1) = {l}
    BY <2>7, <2>8, LengthOfPrefix
  <2>10. l[1] \in Nat /\ l[2] \in 1..3
    BY <2>7, <2>8, LengthRead
  <2> HIDE DEF differ, more
  <2>11. ~ (i >= Len(more))
    BY <1>1, <2>3, <2>6
  <2>12. f[i] = FoundAt(buf, tag, f, i, l) /\ g[i] = FoundAt(more, tag, g, i, l)
    BY <2>5, <2>6, <2>9, <2>11 DEF FindFrom
  <2> DEFINE vstart == i + 1 + l[2]
             vend == vstart + l[1]
  <2>13. vstart \in Nat /\ vend \in Nat /\ vstart > i + 1 /\ vend >= vstart
    <3>1. l[1] \in Nat /\ l[2] \in Nat \ {0}
      BY <2>10
    <3> QED BY <2>8, <3>1, ElementEnds
  <2>14. ~ (vend > Len(buf) + 1)
    BY <2>3, <2>12 DEF FoundAt
  <2>15. ~ (vend > Len(more) + 1) /\ more[i] = buf[i]
    <3> HIDE DEF vstart, vend
    <3>1. i \in 1..Len(buf)
      BY <1>1, <2>6, <2>8
    <3>2. more[i] = buf[i]
      BY <1>2, <3>1
    <3>3. Len(more) = Len(buf) + 1
      BY <1>1
    <3>4. ~ (vend > Len(more) + 1)
      BY <1>1, <2>13, <2>14, <3>3
    <3> QED BY <3>2, <3>4
  <2>16. CASE buf[i] = tag
    <3>1. /\ SubSeq(more, vstart, vend - 1) = SubSeq(buf, vstart, vend - 1)
          /\ SubSeq(more, i, vend - 1) = SubSeq(buf, i, vend - 1)
      <4> HIDE DEF vstart, vend
      <4>1. vstart \in 1..N /\ i \in 1..N /\ vend - 1 \in 0..Len(buf)
        BY <1>1, <2>8, <2>13, <2>14
      <4> QED BY <4>1, SubSeqOfPrefix DEF more
    <3> QED BY <2>3, <2>12, <2>14, <2>15, <2>16, <3>1 DEF FoundAt
  <2>17. CASE buf[i] # tag
    <3>1. f[i] = f[vend] /\ g[i] = g[vend]
      BY <2>12, <2>14, <2>15, <2>17 DEF FoundAt
    <3> HIDE DEF vstart, vend
    <3>2. vend \in 1..N /\ vend > i
      BY <1>1, <2>8, <2>13, <2>14
    <3> QED BY <2>3, <2>4, <3>1, <3>2
  <2> QED BY <2>16, <2>17
<1>6. 1 \in 1..N
  BY <1>1
<1>7. f[1] # {}
  BY <1>3
<1> QED BY <1>3, <1>4, <1>5, <1>6, <1>7

-----------------------------------------------------------------------------
(***************************************************************************)
(* The card client's TLV reader                                            *)
(***************************************************************************)

\* f holds the values of the digits data[i + 1], data[i + 2] ... up to each position.
Sums(f, data, i, n) == f = [k \in 0..n |-> IF k = 0 THEN 0 ELSE f[k - 1] * BYTE + data[i + k]]

\* The recursive function that adds up the bytes of a length exists.
LEMMA SumsExist ==
    ASSUME NEW n \in Nat, NEW data, NEW i, \A k \in 1..n : data[i + k] \in Nat
    PROVE  \E f \in [0..n -> Nat] : Sums(f, data, i, n)
<1> DEFINE bad == {m \in 0..n : ~ \E f \in [0..m -> Nat] : Sums(f, data, i, m)}
<1>0. BYTE \in Nat
  BY BytesAreNumbers
<1> SUFFICES ASSUME bad # {} PROVE FALSE
  OBVIOUS
<1>1. PICK m \in bad : \A j \in bad : m <= j
  <2>1. bad \in SUBSET Nat
    OBVIOUS
  <2> HIDE DEF bad
  <2> QED BY <2>1, LeastNatural
<1>2. m \in 0..n /\ ~ \E f \in [0..m -> Nat] : Sums(f, data, i, m)
  OBVIOUS
<1>3. CASE m = 0
  <2> DEFINE f == [k \in 0..0 |-> 0]
  <2>1. f \in [0..0 -> Nat]
    OBVIOUS
  <2>2. Sums(f, data, i, 0)
    <3>1. \A k \in 0..0 : k = 0
      OBVIOUS
    <3> QED BY <3>1 DEF Sums
  <2> HIDE DEF f
  <2> QED BY <1>2, <1>3, <2>1, <2>2
<1>4. CASE m # 0
  <2>1. m - 1 \in 0..n /\ ~ (m <= m - 1) /\ m \in 1..n /\ m - 1 \in Nat
    BY <1>2, <1>4
  <2>2. PICK f \in [0..(m - 1) -> Nat] : Sums(f, data, i, m - 1)
    BY <1>1, <2>1
  <2> DEFINE V(k) == IF k = 0 THEN 0 ELSE f[k - 1] * BYTE + data[i + k]
             g == [k \in 0..m |-> V(k)]
  <2>3. \A k \in 0..(m - 1) : f[k] = V(k)
    BY <2>2 DEF Sums
  <2>4. \A k \in 0..m : V(k) \in Nat
    <3> TAKE k \in 0..m
    <3>1. CASE k = 0
      BY <3>1
    <3>2. CASE k # 0
      <4>1. k - 1 \in 0..(m - 1) /\ k \in 1..n
        BY <1>2, <2>1, <3>2
      <4>2. f[k - 1] \in Nat /\ data[i + k] \in Nat
        BY <4>1
      <4>3. f[k - 1] * BYTE + data[i + k] \in Nat
        <5> DEFINE a == f[k - 1]
                   c == data[i + k]
        <5> HIDE DEF a, c
        <5>1. a \in Nat /\ c \in Nat
          BY <4>2 DEF a, c
        <5>2. a * BYTE + c \in Nat
          BY <1>0, <5>1
        <5> QED BY <5>2 DEF a, c
      <4> QED BY <3>2, <4>3
    <3> QED BY <3>1, <3>2
  <2>5. g \in [0..m -> Nat]
    <3> HIDE DEF V
    <3> QED BY <2>4
  <2>6. \A k \in 0..(m - 1) : g[k] = f[k]
    <3>1. 0..(m - 1) \subseteq 0..m
      BY <2>1
    <3> HIDE DEF V
    <3> QED BY <2>3, <3>1
  <2>7. \A k \in 0..m : V(k) = IF k = 0 THEN 0 ELSE g[k - 1] * BYTE + data[i + k]
    <3> TAKE k \in 0..m
    <3>1. CASE k = 0
      BY <3>1
    <3>2. CASE k # 0
      <4>1. k - 1 \in 0..(m - 1)
        BY <2>1, <3>2
      <4> HIDE DEF g
      <4> QED BY <2>6, <3>2, <4>1
    <3> QED BY <3>1, <3>2
  <2>8. Sums(g, data, i, m)
    <3>1. g = [k \in 0..m |-> V(k)]
      OBVIOUS
    <3> HIDE DEF g, V
    <3> QED BY <2>7, <3>1 DEF Sums
  <2> HIDE DEF g
  <2> QED BY <1>2, <2>5, <2>8
<1> QED BY <1>3, <1>4

\* Whatever the digits, the value is a number, and that of one digit or of two is as
\* expected.
SumIs(v, data, i, n) ==
    /\ v \in Nat
    /\ n = 1 => v = data[i + 1]
    /\ n = 2 => v = data[i + 1] * BYTE + data[i + 2]

\* Its values for the lengths of up to two bytes.
LEMMA SumsValues ==
    ASSUME NEW n \in Nat, NEW data, NEW i, \A k \in 1..n : data[i + k] \in Nat,
           NEW f, Sums(f, data, i, n)
    PROVE  SumIs(f[n], data, i, n)
<1>0. BYTE \in Nat
  BY BytesAreNumbers
<1>1. \A k \in 0..n : f[k] = IF k = 0 THEN 0 ELSE f[k - 1] * BYTE + data[i + k]
  BY DEF Sums
<1>2. \A k \in 0..n : f[k] \in Nat
  <2> DEFINE bad == {k \in 0..n : f[k] \notin Nat}
  <2> SUFFICES ASSUME bad # {} PROVE FALSE
    OBVIOUS
  <2>1. PICK m \in bad : \A j \in bad : m <= j
    <3>1. bad \in SUBSET Nat
      OBVIOUS
    <3> HIDE DEF bad
    <3> QED BY <3>1, LeastNatural
  <2>2. m \in 0..n /\ f[m] \notin Nat
    OBVIOUS
  <2>3. m # 0
    BY <1>1, <2>2
  <2>4. m - 1 \in 0..n /\ m \in 1..n /\ ~ (m <= m - 1)
    BY <2>2, <2>3
  <2>5. f[m - 1] \in Nat /\ data[i + m] \in Nat
    BY <2>1, <2>4
  <2>6. f[m] = f[m - 1] * BYTE + data[i + m]
    BY <1>1, <2>2, <2>3
  <2> DEFINE a == f[m - 1]
             c == data[i + m]
  <2> HIDE DEF a, c
  <2>7. a \in Nat /\ c \in Nat /\ f[m] = a * BYTE + c
    BY <2>5, <2>6 DEF a, c
  <2> QED BY <1>0, <2>2, <2>7
<1>3. f[0] = 0
  BY <1>1
<1>4. n >= 1 => f[1] = data[i + 1]
  <2> HAVE n >= 1
  <2>1. 1 \in 0..n /\ 1 \in 1..n
    OBVIOUS
  <2>2. f[1] = f[0] * BYTE + data[i + 1] /\ data[i + 1] \in Nat
    BY <1>1, <2>1
  <2> QED BY <1>0, <1>3, <2>2
<1>5. n >= 2 => f[2] = data[i + 1] * BYTE + data[i + 2]
  <2> HAVE n >= 2
  <2>1. 2 \in 0..n
    OBVIOUS
  <2>2. f[2] = f[1] * BYTE + data[i + 2]
    BY <1>1, <2>1
  <2> QED BY <1>4, <2>2
<1>6. f[n] \in Nat
  BY <1>2
<1> QED BY <1>4, <1>5, <1>6 DEF SumIs

\* The lengths that the card client reads: always numbers, and the verifier's where
\* it knows the form.
LEMMA ApduLengths ==
    ASSUME NEW data \in Seq(Nat), NEW i \in 1..Len(data)
    PROVE  /\ \A l \in apdu_read_len(data, i) : l[1] \in Nat /\ l[2] \in Nat \ {0}
           /\ attest_read_len(data, i) # {} => apdu_read_len(data, i) = attest_read_len(data, i)
<1> DEFINE n == data[i] - HALF
           len[k \in 0..n] == IF k = 0 THEN 0 ELSE len[k - 1] * BYTE + data[i + k]
<1>0. HALF \in Nat /\ data[i] \in Nat /\ Len(data) \in Nat
  BY HalfAssumption
<1>1. CASE data[i] < HALF
  <2>1. apdu_read_len(data, i) = {<<data[i], 1>>}
    <3>1. ~ (data[i] >= HALF)
      BY <1>0, <1>1
    <3> QED BY <1>1, <3>1 DEF apdu_read_len
  <2>2. attest_read_len(data, i) = {<<data[i], 1>>}
    BY <1>1, LengthForms
  <2> QED BY <1>0, <2>1, <2>2
<1>2. CASE data[i] >= HALF /\ i + n <= Len(data)
  <2>1. n \in Nat /\ ~ (data[i] < HALF)
    BY <1>0, <1>2
  <2>2. apdu_read_len(data, i) = {<<len[n], 1 + n>>}
    BY <1>2, <2>1 DEF apdu_read_len
  <2>3. len = CHOOSE f : Sums(f, data, i, n)
    BY DEF len, Sums
  <2> HIDE DEF len
  <2>4. \A k \in 1..n : data[i + k] \in Nat
    <3> TAKE k \in 1..n
    <3>1. i + k \in 1..Len(data)
      BY <1>0, <1>2, <2>1
    <3> QED BY <3>1
  <2> HIDE DEF n
  <2>5. \E f : Sums(f, data, i, n)
    BY <2>1, <2>4, SumsExist
  <2>6. Sums(len, data, i, n)
    BY <2>3, <2>5
  <2>7. SumIs(len[n], data, i, n)
    BY <2>1, <2>4, <2>6, SumsValues
  <2>8. attest_read_len(data, i) # {} => attest_read_len(data, i) = {<<len[n], 1 + n>>}
    <3> HAVE attest_read_len(data, i) # {}
    <3>1. CASE data[i] = HALF + 1 /\ i + 1 <= Len(data)
      <4>1. n = 1 /\ 1 + n = 2
        BY <1>0, <3>1 DEF n
      <4> QED BY <2>7, <3>1, <4>1, LengthForms DEF SumIs
    <3>2. CASE data[i] = HALF + 2 /\ i + 2 <= Len(data)
      <4>1. n = 2 /\ 1 + n = 3
        BY <1>0, <3>2 DEF n
      <4> QED BY <2>7, <3>2, <4>1, LengthForms DEF SumIs
    <3> QED BY <2>1, <3>1, <3>2, LengthForms
  <2> QED BY <2>1, <2>2, <2>7, <2>8 DEF SumIs
<1>3. CASE data[i] >= HALF /\ ~ (i + n <= Len(data))
  <2>1. ~ (data[i] < HALF)
    BY <1>0, <1>3
  <2>2. apdu_read_len(data, i) = {}
    BY <1>3, <2>1 DEF apdu_read_len
  <2>3. /\ ~ (data[i] = HALF + 1 /\ i + 1 <= Len(data))
        /\ ~ (data[i] = HALF + 2 /\ i + 2 <= Len(data))
    BY <1>0, <1>3
  <2>4. attest_read_len(data, i) = {}
    BY <2>1, <2>3, LengthForms
  <2> QED BY <2>2, <2>4
<1> QED BY <1>0, <1>1, <1>2, <1>3

\* What the card client's find_tag finds at position i, where the length l was read, if
\* it finds f[j] from a later position j on.
ApduAt(data, tag, f, i, l) ==
    LET vstart == i + 1 + l[2]
        vend == vstart + l[1]
    IN IF vend > Len(data) + 1 THEN {}
       ELSE IF data[i] = tag THEN {SubSeq(data, vstart, vend - 1)}
       ELSE f[vend]

ApduFrom(data, tag, f, i) ==
    IF i + 1 > Len(data) THEN {}
    ELSE UNION {ApduAt(data, tag, f, i, l) : l \in apdu_read_len(data, i + 1)}

\* One step of the search finds sequences, and looks ahead only.
LEMMA ApduLooksAhead ==
    ASSUME NEW data \in Seq(Nat), NEW tag, NEW i \in 1..(Len(data) + 1), NEW f
    PROVE  /\ f \in [1..(Len(data) + 1) -> SUBSET Seq(Nat)] =>
                 ApduFrom(data, tag, f, i) \in SUBSET Seq(Nat)
           /\ \A g : (\A j \in 1..(Len(data) + 1) : j > i => f[j] = g[j]) =>
                 ApduFrom(data, tag, f, i) = ApduFrom(data, tag, g, i)
<1> DEFINE Step(h, l) == ApduAt(data, tag, h, i, l)
           L == apdu_read_len(data, i + 1)
<1>1. CASE i + 1 > Len(data)
  BY <1>1 DEF ApduFrom
<1>2. CASE ~ (i + 1 > Len(data))
  <2>1. i \in Nat /\ i >= 1 /\ i + 1 \in 1..Len(data) /\ Len(data) \in Nat
    BY <1>2
  <2>2. \A l \in L : l[1] \in Nat /\ l[2] \in Nat \ {0}
    BY <2>1, ApduLengths
  <2>3. \A h : ApduFrom(data, tag, h, i) = UNION {Step(h, l) : l \in L}
    BY <1>2 DEF ApduFrom
  <2>4. ASSUME f \in [1..(Len(data) + 1) -> SUBSET Seq(Nat)], NEW l \in L
        PROVE  Step(f, l) \in SUBSET Seq(Nat)
    <3> DEFINE vstart == i + 1 + l[2]
               vend == vstart + l[1]
    <3>1. vstart \in Nat /\ vend \in Nat /\ vstart > i + 1 /\ vend >= vstart
      BY <2>1, <2>2, ElementEnds
    <3>2. CASE vend > Len(data) + 1
      BY <3>2 DEF ApduAt
    <3>3. CASE ~ (vend > Len(data) + 1) /\ data[i] = tag
      <4>1. SubSeq(data, vstart, vend - 1) \in Seq(Nat)
        <5> HIDE DEF vstart, vend
        <5>1. vstart \in 1..(Len(data) + 1) /\ vend - 1 \in 0..Len(data)
          BY <2>1, <3>1, <3>3
        <5> QED BY <5>1
      <4> QED BY <3>3, <4>1 DEF ApduAt
    <3>4. CASE ~ (vend > Len(data) + 1) /\ data[i] # tag
      <4>1. vend \in 1..(Len(data) + 1)
        BY <2>1, <3>1, <3>4
      <4> QED BY <2>4, <3>4, <4>1 DEF ApduAt
    <3> QED BY <3>2, <3>3, <3>4
  <2>5. f \in [1..(Len(data) + 1) -> SUBSET Seq(Nat)] =>
           ApduFrom(data, tag, f, i) \in SUBSET Seq(Nat)
    <3> HIDE DEF Step, L
    <3> QED BY <2>3, <2>4
  <2>6. ASSUME NEW g, \A j \in 1..(Len(data) + 1) : j > i => f[j] = g[j]
        PROVE  ApduFrom(data, tag, f, i) = ApduFrom(data, tag, g, i)
    <3>1. \A l \in L : Step(f, l) = Step(g, l)
      <4> SUFFICES ASSUME NEW l \in L PROVE Step(f, l) = Step(g, l)
        OBVIOUS
      <4> DEFINE vend == i + 1 + l[2] + l[1]
      <4>1. vend \in Nat /\ vend > i
        <5>1. l[1] \in Nat /\ l[2] \in Nat \ {0}
          BY <2>2
        <5>2. i + 1 + l[2] > i + 1 /\ vend >= i + 1 + l[2] /\ vend \in Nat /\ i + 1 + l[2] \in Nat
          BY <2>1, <5>1, ElementEnds
        <5> HIDE DEF vend
        <5> QED BY <2>1, <5>2
      <4>2. ~ (vend > Len(data) + 1) => f[vend] = g[vend]
        BY <2>1, <2>6, <4>1
      <4> QED BY <4>2 DEF ApduAt
    <3> HIDE DEF Step, L
    <3>2. {Step(f, l) : l \in L} = {Step(g, l) : l \in L}
      BY <3>1
    <3> QED BY <2>3, <3>2
  <2> QED BY <2>5, <2>6
<1> QED BY <1>1, <1>2

\* The card client's find_tag is the search from the first position on.
LEMMA ApduFindIsSearch ==
    ASSUME NEW data \in Seq(Nat), NEW tag
    PROVE  \E f \in [1..(Len(data) + 1) -> SUBSET Seq(Nat)] :
              /\ apdu_find_tag(data, tag) = f[1]
              /\ \A i \in 1..(Len(data) + 1) : f[i] = ApduFrom(data, tag, f, i)
<1> DEFINE Scan[i \in 1..(Len(data) + 1)] ==
              IF i + 1 > Len(data) THEN {}
              ELSE UNION {LET vstart == i + 1 + l[2]
                              vend == vstart + l[1]
                          IN IF vend > Len(data) + 1 THEN {}
                             ELSE IF data[i] = tag THEN {SubSeq(data, vstart, vend - 1)}
                             ELSE Scan[vend] : l \in apdu_read_len(data, i + 1)}
           N == Len(data) + 1
           T == SUBSET Seq(Nat)
           B == [i \in 1..N |-> [f \in [1..N -> T] |-> ApduFrom(data, tag, f, i)]]
<1>1. apdu_find_tag(data, tag) = Scan[1]
  BY DEF apdu_find_tag
<1>2. Scan = CHOOSE f : f = [i \in 1..N |-> ApduFrom(data, tag, f, i)]
  BY DEF Scan, ApduFrom, ApduAt
<1> HIDE DEF Scan
<1>3. N \in Nat /\ T # {}
  <2>1. {} \in T
    OBVIOUS
  <2> HIDE DEF T
  <2> QED BY <2>1
<1>4. \A i \in 1..N : \A f \in [1..N -> T] : B[i][f] = ApduFrom(data, tag, f, i)
  <2> HIDE DEF N, T
  <2> QED OBVIOUS
<1>5. LooksAhead(B, N, T)
  <2>1. \A i \in 1..N : \A f \in [1..N -> T] : ApduFrom(data, tag, f, i) \in T
    BY ApduLooksAhead
  <2>2. B \in [1..N -> [[1..N -> T] -> T]]
    <3> HIDE DEF N, T
    <3> QED BY <2>1
  <2>3. ASSUME NEW f \in [1..N -> T], NEW g \in [1..N -> T], NEW i \in 1..N,
               \A j \in 1..N : j > i => f[j] = g[j]
        PROVE  B[i][f] = B[i][g]
    <3>1. ApduFrom(data, tag, f, i) = ApduFrom(data, tag, g, i)
      BY <2>3, ApduLooksAhead
    <3> HIDE DEF N, T, B
    <3> QED BY <1>4, <3>1
  <2> HIDE DEF B, N, T
  <2> QED BY <2>2, <2>3 DEF LooksAhead
<1>6. PICK f \in [1..N -> T] : Solves(f, B, N)
  <2> HIDE DEF N, T, B
  <2> QED BY <1>3, <1>5, RecursionAhead
<1>7. f = [i \in 1..N |-> ApduFrom(data, tag, f, i)]
  <2> HIDE DEF N, T, B
  <2> QED BY <1>4, <1>6 DEF Solves
<1>8. Scan = [i \in 1..N |-> ApduFrom(data, tag, Scan, i)]
  <2> HIDE DEF N, T, B
  <2> QED BY <1>2, <1>7, Zenon
<1>9. \A i \in 1..N : Scan[i] = f[i]
  <2> DEFINE differ == {i \in 1..N : Scan[i] # f[i]}
  <2> SUFFICES ASSUME differ # {} PROVE FALSE
    OBVIOUS
  <2>1. differ \in SUBSET (1..N)
    OBVIOUS
  <2>2. PICK i \in differ : \A j \in differ : j <= i
    <3> HIDE DEF differ, N
    <3> QED BY <1>3, <2>1, InkBounds
  <2>3. \A j \in 1..N : j > i => Scan[j] = f[j]
    BY <1>3, <2>2
  <2>4. ApduFrom(data, tag, Scan, i) = ApduFrom(data, tag, f, i)
    BY <2>3, ApduLooksAhead
  <2>5. Scan[i] = ApduFrom(data, tag, Scan, i) /\ f[i] = ApduFrom(data, tag, f, i)
    <3> HIDE DEF N, T, B
    <3> QED BY <1>4, <1>6, <1>8 DEF Solves
  <2> QED BY <2>4, <2>5
<1>10. 1 \in 1..N
  BY <1>3
<1>11. apdu_find_tag(data, tag) = f[1]
  BY <1>1, <1>9, <1>10
<1>12. \A i \in 1..N : f[i] = ApduFrom(data, tag, f, i)
  <2> HIDE DEF N, T, B
  <2> QED BY <1>4, <1>6 DEF Solves
<1> QED BY <1>11, <1>12

\* What the verifier's reader finds, the card client's finds too.
LEMMA ReadersAgree ==
    ASSUME NEW data \in Seq(Nat), NEW tag, NEW e \in attest_find_tag(data, tag)
    PROVE  apdu_find_tag(data, tag) = {e.value}
<1> DEFINE N == Len(data) + 1
<1>1. N \in Nat /\ Len(data) \in Nat
  OBVIOUS
<1>2. PICK f \in [1..N -> SUBSET ElementsOf(data)] :
         /\ attest_find_tag(data, tag) = f[1]
         /\ \A i \in 1..N : f[i] = FindFrom(data, tag, f, i)
  BY FindTagIsSearch
<1>3. PICK g \in [1..N -> SUBSET Seq(Nat)] :
         /\ apdu_find_tag(data, tag) = g[1]
         /\ \A i \in 1..N : g[i] = ApduFrom(data, tag, g, i)
  BY ApduFindIsSearch
<1> DEFINE differ == {i \in 1..N : \E x \in f[i] : g[i] # {x.value}}
<1>4. differ = {}
  <2> SUFFICES ASSUME differ # {} PROVE FALSE
    OBVIOUS
  <2>1. differ \in SUBSET (1..N)
    OBVIOUS
  <2>2. PICK i \in differ : \A j \in differ : j <= i
    <3> HIDE DEF differ, N
    <3> QED BY <1>1, <2>1, InkBounds
  <2>3. i \in 1..N
    BY <2>1
  <2>4. PICK x \in f[i] : g[i] # {x.value}
    OBVIOUS
  <2>5. \A j \in 1..N : j > i => \A y \in f[j] : g[j] = {y.value}
    BY <1>1, <2>2
  <2> HIDE DEF differ
  <2>6. f[i] = FindFrom(data, tag, f, i) /\ g[i] = ApduFrom(data, tag, g, i)
    BY <1>2, <1>3, <2>3
  <2>7. PICK l \in attest_read_len(data, i + 1) : ~ (i >= Len(data)) /\ x \in FoundAt(data, tag, f, i, l)
    BY <2>4, <2>6 DEF FindFrom
  <2>8. i \in Nat /\ i >= 1 /\ i + 1 \in 1..Len(data) /\ ~ (i + 1 > Len(data)) /\ i + 1 \in Nat \ {0}
    BY <1>1, <2>3, <2>7
  <2>9. apdu_read_len(data, i + 1) = {l}
    <3>1. attest_read_len(data, i + 1) = {l}
      BY <2>7, <2>8, LengthOfPrefix
    <3> QED BY <2>8, <3>1, ApduLengths
  <2>10. g[i] = ApduAt(data, tag, g, i, l)
    BY <2>6, <2>8, <2>9 DEF ApduFrom
  <2>11. l[1] \in Nat /\ l[2] \in Nat \ {0}
    BY <2>7, <2>8, LengthRead, SMTT(30)
  <2> DEFINE vstart == i + 1 + l[2]
             vend == vstart + l[1]
  <2>12. vstart \in Nat /\ vend \in Nat /\ vstart > i + 1 /\ vend >= vstart
    BY <2>8, <2>11, ElementEnds
  <2>13. ~ (vend > Len(data) + 1)
    BY <2>7 DEF FoundAt
  <2>14. CASE data[i] = tag
    <3>1. x = [value |-> SubSeq(data, vstart, vend - 1), full |-> SubSeq(data, i, vend - 1)]
      BY <2>7, <2>13, <2>14 DEF FoundAt
    <3>2. g[i] = {SubSeq(data, vstart, vend - 1)}
      BY <2>10, <2>13, <2>14 DEF ApduAt
    <3> QED BY <2>4, <3>1, <3>2
  <2>15. CASE data[i] # tag
    <3>1. x \in f[vend] /\ g[i] = g[vend]
      BY <2>7, <2>10, <2>13, <2>15 DEF FoundAt, ApduAt
    <3>2. vend \in 1..N /\ vend > i
      BY <1>1, <2>8, <2>12, <2>13
    <3> HIDE DEF vend
    <3> QED BY <2>4, <2>5, <3>1, <3>2
  <2> QED BY <2>14, <2>15
<1>5. 1 \in 1..N
  BY <1>1
<1> QED BY <1>2, <1>3, <1>4, <1>5

-----------------------------------------------------------------------------
(***************************************************************************)
(* Replies                                                                 *)
(***************************************************************************)

\* What verify_auth may reply with.
IsReply(r) == r = error_reply \/ r = reject \/ \E n : r = Verdict(TRUE, n)

\* verify_auth replies with the envelope, a refusal or an acceptance.
LEMMA EthReplies ==
    ASSUME NEW req, NEW v \in EthVerify(req)
    PROVE  v = reject \/ \E n : v = Verdict(TRUE, n)
BY DEF EthVerify

\* The verifier of keycards has one of three replies.
LEMMA KeycardReplies ==
    ASSUME NEW req, NEW v \in KeycardVerify(req)
    PROVE  v = reject \/ \E n : v = Verdict(TRUE, n)
BY DEF KeycardVerify

\* Every verifier module has one of three replies, to any argument.
LEMMA VerifierReplies ==
    ASSUME NEW module, NEW args
    PROVE  IsReply(verify_auth(module, args))
<1> DEFINE V(req) == IF module = "eth_auth_module" THEN EthVerify(req) ELSE KeycardVerify(req)
           verdict == UNION {V(req) : req \in {r \in args : r.auth_type = Hosts(module)}}
           v == CHOOSE x \in verdict : TRUE
<1>1. verify_auth(module, args) = IF verdict = {} THEN error_reply ELSE v
  BY DEF verify_auth
<1>2. CASE verdict = {}
  BY <1>1, <1>2 DEF IsReply
<1>3. CASE verdict # {}
  <2>1. v \in verdict
    <3> HIDE DEF verdict
    <3> QED BY <1>3
  <2>2. PICK req : v \in V(req)
    <3> HIDE DEF V, v
    <3> QED BY <2>1
  <2> HIDE DEF v
  <2>3. v = reject \/ \E n : v = Verdict(TRUE, n)
    BY <2>2, EthReplies, KeycardReplies
  <2> HIDE DEF verdict
  <2> QED BY <1>1, <1>3, <2>3 DEF IsReply
<1> QED BY <1>2, <1>3

\* A reply that arrives whole is read as it is, and a broken one is not read.
LEMMA ReplyRead ==
    ASSUME NEW r, IsReply(r), NEW raw1
    PROVE  /\ raw1 \in Whole(r) => call_module_json(raw1) = {Obj(r)}
           /\ raw1 \in Broken => UNION {parse_verdict(v) : v \in call_module_json(raw1)} = {}
           /\ parse_verdict(Obj(r)) = IF r = error_reply THEN {} ELSE {r}
<1>1. raw1 = Json(Str(Json(Obj(r)))) => call_module_json(raw1) = {Obj(r)}
  BY DEF call_module_json, parse_ok, CarriesText, from_str, Json, Str, Obj
<1>2. raw1 = Json(Obj(r)) => call_module_json(raw1) = {Obj(r)}
  BY DEF call_module_json, parse_ok, CarriesText, from_str, Json, Str, Obj
<1>3. raw1 = NoText => call_module_json(raw1) = {Null}
  BY DEF call_module_json, parse_ok, CarriesText, from_str, NoText, Null
<1>4. raw1 = Json(Null) => call_module_json(raw1) = {Null}
  BY DEF call_module_json, parse_ok, CarriesText, from_str, Json, Null
<1>5. raw1 = Noise => call_module_json(raw1) = {}
  BY DEF call_module_json, parse_ok, CarriesText, from_str, Noise, Str
<1>6. raw1 = Json(Str(NoText)) => call_module_json(raw1) = {}
  BY DEF call_module_json, parse_ok, CarriesText, from_str, Json, Str, NoText
<1>7. raw1 = Json(Str(Noise)) => call_module_json(raw1) = {}
  BY DEF call_module_json, parse_ok, CarriesText, from_str, Json, Str, Noise
<1>8. parse_verdict(Null) = {}
  BY DEF parse_verdict, Null
<1>9. parse_verdict(Obj(r)) = IF r = error_reply THEN {} ELSE {r}
  <2>1. CASE r = error_reply
    BY <2>1 DEF parse_verdict, Obj, error_reply
  <2>2. CASE r # error_reply
    <3>1. "ok" \in DOMAIN r
      BY <2>2 DEF IsReply, reject, Verdict
    <3>2. "error" \notin DOMAIN r
      BY <2>2 DEF IsReply, reject, Verdict
    <3> QED BY <2>2, <3>1, <3>2 DEF parse_verdict, Obj
  <2> QED BY <2>1, <2>2
<1>10. raw1 \in Broken => UNION {parse_verdict(v) : v \in call_module_json(raw1)} = {}
  BY <1>3, <1>4, <1>5, <1>6, <1>7, <1>8 DEF Broken
<1> QED BY <1>1, <1>2, <1>9, <1>10 DEF Whole

\* The envelopes of libp2p_module.
Envelopes ==
    UNION {{[success |-> s], [success |-> s, value |-> Obj([streamId |-> 1])]} :
              s \in {"true", "false", "other"}}

\* call_libp2p opens an envelope that arrives whole.
LEMMA EnvelopeOpened ==
    ASSUME NEW r \in Envelopes, NEW raw1 \in Whole(r)
    PROVE  call_libp2p(raw1) = IF r.success = "false" THEN {}
                               ELSE IF "value" \in DOMAIN r THEN {r.value} ELSE {Null}
<1>1. PICK s \in {"true", "false", "other"} :
         r = [success |-> s] \/ r = [success |-> s, value |-> Obj([streamId |-> 1])]
  BY DEF Envelopes
<1>2. OpenEnvelope(Obj(r)) = IF r.success = "false" THEN {}
                             ELSE IF "value" \in DOMAIN r THEN {r.value} ELSE {Null}
  <2>1. "success" \in DOMAIN r
    BY <1>1
  <2> QED BY <2>1 DEF OpenEnvelope, Obj
<1>3. call_libp2p(raw1) = OpenEnvelope(Obj(r))
  <2>1. CASE raw1 = Json(Obj(r))
    <3>1. parse_ok(raw1) = Obj(r) /\ ~ CarriesText(Obj(r))
      BY <2>1 DEF parse_ok, CarriesText, Json, Obj
    <3> QED BY <3>1 DEF call_libp2p
  <2>2. CASE raw1 = Json(Str(Json(Obj(r))))
    <3>1. parse_ok(raw1) = Str(Json(Obj(r))) /\ CarriesText(Str(Json(Obj(r))))
      BY <2>2 DEF parse_ok, CarriesText, Json, Str
    <3>2. from_str(Str(Json(Obj(r))).text) = {Obj(r)}
      BY DEF from_str, Str, Json
    <3> QED BY <3>1, <3>2 DEF call_libp2p
  <2> QED BY <2>1, <2>2 DEF Whole
<1> QED BY <1>2, <1>3

\* The replies on their way.
Replies ==
    /\ stage \in {"start", "failed", "transit", "judged", "delivered", "relayed"}
    /\ stage \in {"judged", "delivered"} => IsReply(reply)
    /\ stage = "delivered" => raw \in Whole(reply) \cup Broken
    /\ stage = "relayed" => reply \in Envelopes

\* Every step keeps Replies.
LEMMA RepliesStep == Replies /\ [Next]_vars => Replies'
<1> SUFFICES ASSUME Replies, [Next]_vars PROVE Replies'
  OBVIOUS
<1>1. CASE UNCHANGED vars
  BY <1>1 DEF Replies, vars
<1>2. ASSUME NEW card, NEW sig, NEW form, SubmitCard(card, sig, form) PROVE Replies'
  BY <1>2 DEF Replies, SubmitCard, Submit
<1>3. ASSUME NEW card, NEW sig, NEW form, NEW idc, NEW answers, NEW initialized,
             Capture(card, sig, form, idc, answers, initialized)
      PROVE  Replies'
  <2>1. stage' \in {"failed", "transit"}
    BY <1>3 DEF Capture
  <2> QED BY <2>1 DEF Replies
<1>4. ASSUME NEW sig, NEW offset, SubmitWallet(sig, offset) PROVE Replies'
  BY <1>4 DEF Replies, SubmitWallet, Submit
<1>5. ASSUME NEW bytes, Damaged(bytes) PROVE Replies'
  BY <1>5 DEF Replies, Damaged
<1>6. ASSUME NEW module, NEW config, JudgeGarbled(module, config) PROVE Replies'
  <2>1. stage' = "judged" /\ IsReply(reply')
    BY <1>6, VerifierReplies DEF JudgeGarbled
  <2> QED BY <2>1 DEF Replies
<1>7. ASSUME NEW module, NEW idc, NEW config, NEW pform, NEW iform,
             Judge(module, idc, config, pform, iform)
      PROVE  Replies'
  <2>1. stage' = "judged" /\ IsReply(reply')
    BY <1>7, VerifierReplies DEF Judge
  <2> QED BY <2>1 DEF Replies
<1>8. CASE Deliver
  BY <1>8 DEF Replies, Deliver
<1>9. ASSUME NEW success \in {"true", "false", "other"}, Relay(success) PROVE Replies'
  <2>1. stage' = "relayed" /\ reply' \in Envelopes
    BY <1>9 DEF Relay, Envelopes
  <2> QED BY <2>1 DEF Replies
<1> QED BY <1>1, <1>2, <1>3, <1>4, <1>5, <1>6, <1>7, <1>8, <1>9
        DEF Next, Append1, Replace, Cut

\* Replies holds in every state.
LEMMA RepliesInvariant == Spec => []Replies
<1>1. Init => Replies
  BY DEF Init, Replies
<1> QED BY <1>1, RepliesStep, PTL DEF Spec

\* The gifter acts on the verdict that the verifier gave, or on none: call_module_json
\* and parse_verdict make of a reply that was lost, emptied or mangled an error.
THEOREM VerdictsAreGiven == Spec => []ReplyIsVerdict
<1>1. Replies => ReplyIsVerdict
  <2> SUFFICES ASSUME Replies, stage = "delivered" PROVE ReplyIsVerdict
    BY DEF ReplyIsVerdict
  <2> DEFINE parsed == UNION {parse_verdict(v) : v \in call_module_json(raw)}
  <2>1. IsReply(reply) /\ raw \in Whole(reply) \cup Broken
    BY DEF Replies
  <2>2. CASE raw \in Whole(reply)
    <3>1. call_module_json(raw) = {Obj(reply)}
      BY <2>1, <2>2, ReplyRead
    <3>2. parsed = IF reply = error_reply THEN {} ELSE {reply}
      BY <2>1, <3>1, ReplyRead
    <3> QED BY <3>2 DEF ReplyIsVerdict
  <2>3. CASE raw \in Broken /\ raw \notin Whole(reply)
    <3>1. parsed = {}
      BY <2>1, <2>3, ReplyRead
    <3> QED BY <2>3, <3>1 DEF ReplyIsVerdict
  <2> QED BY <2>1, <2>2, <2>3
<1> QED BY <1>1, RepliesInvariant, PTL

\* A failure that libp2p_module reports is never taken for a success by call_libp2p,
\* and a value arrives unchanged, with or without the second encoding.
THEOREM FailuresAreHonoured == Spec => []FailureIsHonoured
<1>1. Replies => FailureIsHonoured
  BY EnvelopeOpened DEF Replies, FailureIsHonoured
<1> QED BY <1>1, RepliesInvariant, PTL

-----------------------------------------------------------------------------
(***************************************************************************)
(* Payloads on their way                                                   *)
(***************************************************************************)

\* The answer of a card: a template that begins with its length in a long form, and in
\* it the certificate and the signature.
CardBody(card, sig) ==
    <<TAG_CERTIFICATE, CERTIFICATE_LEN, card.ident, card.ca_rs, card.ca_recid,
      TAG_DER_SEQUENCE, 1, sig>>

Joined(a, b, c, d) ==
    <<a>> \o <<b, c>> = <<a, b, c>> /\ <<a>> \o <<b, c, d>> = <<a, b, c, d>>

\* Sequences put together have the bytes of their parts.
LEMMA Prepended ==
    ASSUME NEW a \in Nat, NEW b \in Nat, NEW c \in Nat, NEW d \in Nat
    PROVE  Joined(a, b, c, d)
<1> DEFINE s == <<a>> \o <<b, c>>
           t == <<a>> \o <<b, c, d>>
<1>1. /\ s \in Seq(Nat) /\ Len(s) = 3 /\ s[1] = a /\ s[2] = b /\ s[3] = c
      /\ t \in Seq(Nat) /\ Len(t) = 4 /\ t[1] = a /\ t[2] = b /\ t[3] = c /\ t[4] = d
  OBVIOUS
<1>2. /\ <<a, b, c>> \in Seq(Nat) /\ Len(<<a, b, c>>) = 3
      /\ <<a, b, c, d>> \in Seq(Nat) /\ Len(<<a, b, c, d>>) = 4
  OBVIOUS
<1> HIDE DEF s, t
<1>3. \A i \in 1..3 : s[i] = <<a, b, c>>[i]
  BY <1>1
<1>4. \A i \in 1..4 : t[i] = <<a, b, c, d>>[i]
  BY <1>1
<1>5. s = <<a, b, c>>
  BY <1>1, <1>2, <1>3, SameSequence
<1>6. t = <<a, b, c, d>>
  BY <1>1, <1>2, <1>4, SameSequence
<1> QED BY <1>5, <1>6 DEF s, t, Joined

\* The answer of a card is a sequence of bytes.
LEMMA CardAnswer ==
    ASSUME NEW card, NEW sig, CardMakes(card, sig), NEW form \in 1..2
    PROVE  /\ CardBody(card, sig) \in Seq(Byte) /\ Len(CardBody(card, sig)) = 8
           /\ CardTlv(card, sig, form) \in Seq(Byte)
           /\ CardTlv(card, sig, form) =
                 IF form = 1 THEN <<TAG_SIGNATURE_TEMPLATE, HALF + 1, 8>> \o CardBody(card, sig)
                 ELSE <<TAG_SIGNATURE_TEMPLATE, HALF + 2, 0, 8>> \o CardBody(card, sig)
<1> DEFINE body == CardBody(card, sig)
<1>1. HALF \in Nat /\ HALF > 4 /\ Byte = 0..(2 * HALF - 1)
  BY HalfAssumption, BoundsAssumption DEF Byte, BYTE
<1>2. /\ card.ident \in Byte /\ card.ca_rs \in Byte /\ card.ca_recid \in 0..3
      /\ sig \in Byte
  BY CardsAssumption, TablesAssumption DEF CardMakes
<1>3. /\ TAG_SIGNATURE_TEMPLATE \in Byte /\ TAG_CERTIFICATE \in Byte /\ TAG_DER_SEQUENCE \in Byte
      /\ CERTIFICATE_LEN \in Byte /\ 1 \in Byte /\ 0 \in Byte /\ 8 \in Byte
      /\ HALF + 1 \in Byte /\ HALF + 2 \in Byte /\ card.ca_recid \in Byte
  BY <1>1, <1>2, TagsAssumption DEF CERTIFICATE_LEN
<1>4. body \in Seq(Byte) /\ Len(body) = 8
  <2> HIDE DEF Byte
  <2> QED BY <1>2, <1>3 DEF CardBody
<1>5. CardTlv(card, sig, form) =
         <<TAG_SIGNATURE_TEMPLATE>>
            \o (IF form = 1 THEN <<HALF + 1, 8>> ELSE <<HALF + 2, 0, 8>>) \o body
  BY <1>4 DEF CardTlv, CardBody
<1> HIDE DEF body
<1>6. CASE form = 1
  <2>1. <<TAG_SIGNATURE_TEMPLATE>> \o <<HALF + 1, 8>> = <<TAG_SIGNATURE_TEMPLATE, HALF + 1, 8>>
    <3>1. /\ TAG_SIGNATURE_TEMPLATE \in Nat /\ 0 \in Nat /\ 8 \in Nat
          /\ HALF + 1 \in Nat /\ HALF + 2 \in Nat
      BY <1>3, BytesAreNumbers
    <3>2. Joined(TAG_SIGNATURE_TEMPLATE, HALF + 1, 8, 8)
      BY <3>1, Prepended
    <3> QED BY <3>2, Zenon DEF Joined
  <2>2. <<TAG_SIGNATURE_TEMPLATE, HALF + 1, 8>> \in Seq(Byte)
    BY <1>3
  <2>3. <<TAG_SIGNATURE_TEMPLATE, HALF + 1, 8>> \o body \in Seq(Byte)
    BY <1>4, <2>2
  <2> QED BY <1>4, <1>5, <1>6, <2>1, <2>3 DEF body
<1>7. CASE form = 2
  <2>1. <<TAG_SIGNATURE_TEMPLATE>> \o <<HALF + 2, 0, 8>>
           = <<TAG_SIGNATURE_TEMPLATE, HALF + 2, 0, 8>>
    <3>1. /\ TAG_SIGNATURE_TEMPLATE \in Nat /\ 0 \in Nat /\ 8 \in Nat
          /\ HALF + 1 \in Nat /\ HALF + 2 \in Nat
      BY <1>3, BytesAreNumbers
    <3>2. Joined(TAG_SIGNATURE_TEMPLATE, HALF + 2, 0, 8)
      BY <3>1, Prepended
    <3> QED BY <3>2, Zenon DEF Joined
  <2>2. <<TAG_SIGNATURE_TEMPLATE, HALF + 2, 0, 8>> \in Seq(Byte)
    BY <1>3
  <2>3. <<TAG_SIGNATURE_TEMPLATE, HALF + 2, 0, 8>> \o body \in Seq(Byte)
    BY <1>4, <2>2
  <2> QED BY <1>4, <1>5, <1>7, <2>1, <2>3 DEF body
<1> QED BY <1>6, <1>7

\* The payload of a wallet is a sequence of bytes.
LEMMA WalletAnswer ==
    ASSUME NEW sig \in DOMAIN EthSignatures, NEW offset \in {0, RECID_OFFSET}
    PROVE  WalletPayload(sig, offset) \in Seq(Byte) /\ Len(WalletPayload(sig, offset)) = 2
<1>1. sig \in Byte /\ EthSignatures[sig].recid \in 0..3
  BY TablesAssumption
<1>2. EthSignatures[sig].recid + offset \in Byte
  <2> DEFINE r == EthSignatures[sig].recid
  <2> HIDE DEF r
  <2>1. r \in 0..3
    BY <1>1 DEF r
  <2>2. r + offset \in Byte
    BY <2>1, OffsetAssumption, BoundsAssumption, HalfAssumption DEF Byte, BYTE
  <2> QED BY <2>2 DEF r
<1> QED BY <1>1, <1>2 DEF WalletPayload

\* Damage leaves a byte string, of the bytes at hand.
LEMMA DamagedBytes ==
    ASSUME NEW bytes \in Seq(Byte), NEW b \in Damage
    PROVE  /\ bytes \o <<b>> \in Seq(Byte) /\ ToSet(bytes \o <<b>>) \subseteq ToSet(bytes) \cup Damage
           /\ \A i \in 1..Len(bytes) :
                 /\ [bytes EXCEPT ![i] = b] \in Seq(Byte)
                 /\ ToSet([bytes EXCEPT ![i] = b]) \subseteq ToSet(bytes) \cup Damage
<1>1. b \in Byte
  BY BoundsAssumption
<1>2. bytes \o <<b>> \in Seq(Byte) /\ \A i \in 1..Len(bytes) : [bytes EXCEPT ![i] = b] \in Seq(Byte)
  BY <1>1
<1>3. ToSet(bytes \o <<b>>) \subseteq ToSet(bytes) \cup Damage
  BY <1>1 DEF ToSet
<1>4. \A i \in 1..Len(bytes) : ToSet([bytes EXCEPT ![i] = b]) \subseteq ToSet(bytes) \cup Damage
  BY DEF ToSet
<1> QED BY <1>2, <1>3, <1>4

\* A payload that lost its last byte holds no byte it did not hold before.
LEMMA CutBytes ==
    ASSUME NEW bytes \in Seq(Byte), bytes # << >>
    PROVE  /\ SubSeq(bytes, 1, Len(bytes) - 1) \in Seq(Byte)
           /\ ToSet(SubSeq(bytes, 1, Len(bytes) - 1)) \subseteq ToSet(bytes)
<1> DEFINE n == Len(bytes) - 1
           cut == SubSeq(bytes, 1, n)
<1>1. n \in Nat /\ Len(bytes) = n + 1
  OBVIOUS
<1> HIDE DEF n
<1>2. cut \in Seq(Byte)
  BY <1>1
<1>3. Len(cut) = n /\ \A i \in 1..n : cut[i] = bytes[i]
  BY <1>1
<1> HIDE DEF cut
<1>4. ToSet(cut) \subseteq ToSet(bytes)
  BY <1>1, <1>2, <1>3 DEF ToSet
<1> QED BY <1>2, <1>4 DEF cut, n

\* A card's answer that the producer checks: it verifies for idc under the production CA.
Verifies(tlv, idc) ==
    \E att \in parse_attestation(tlv) :
       verify_attestation(att, {STATUS_PRODUCTION_CA}, bound_challenge(idc)) # {}

\* keycard-capture hands out the card's answer, checked for the commitment, or nothing.
LEMMA Produced ==
    ASSUME NEW idc \in Commitments, NEW tlv, NEW answers, NEW initialized,
           NEW text \in parse_produce_reply(produce_auth(
              {[auth_type |-> KEYCARD_ATTEST_AUTH_TYPE, id_commitment_hex |-> hex_encode(idc)]},
              [answers |-> answers, initialized |-> initialized, tlv |-> tlv]))
    PROVE  text = hex_encode(tlv) /\ Verifies(tlv, idc)
<1> DEFINE req == [auth_type |-> KEYCARD_ATTEST_AUTH_TYPE, id_commitment_hex |-> hex_encode(idc)]
           card == [answers |-> answers, initialized |-> initialized, tlv |-> tlv]
           Checked(i) ==
              UNION {verify_attestation(att, {STATUS_PRODUCTION_CA}, bound_challenge(i)) :
                        att \in parse_attestation(card.tlv)}
           served == {r \in {req} : /\ r.auth_type = KEYCARD_ATTEST_AUTH_TYPE
                                    /\ card.answers /\ card.initialized
                                    /\ \E i \in FromHex(r.id_commitment_hex) :
                                          Len(i) = COMMITMENT_LEN /\ Checked(i) # {}}
<1>1. produce_auth({req}, card) =
         IF served = {} THEN error_reply ELSE [payload_hex |-> hex_encode(card.tlv)]
  BY DEF produce_auth
<1>2. served # {} /\ text = hex_encode(card.tlv)
  <2> HIDE DEF served, card, req
  <2> QED BY <1>1 DEF parse_produce_reply, error_reply, req, card
<1>3. \E i \in FromHex(req.id_commitment_hex) : Checked(i) # {}
  <2> HIDE DEF Checked
  <2> QED BY <1>2
<1>4. FromHex(req.id_commitment_hex) = {idc}
  <2>1. idc \in Seq(Byte)
    BY BoundsAssumption
  <2>2. FromHex(TextOf("plain", idc)) = {idc}
    BY <2>1, TextRead DEF TextForms
  <2> QED BY <2>2 DEF TextOf
<1>5. Checked(idc) # {}
  <2> HIDE DEF Checked
  <2> QED BY <1>3, <1>4
<1>6. Verifies(tlv, idc)
  BY <1>5 DEF Verifies
<1> QED BY <1>2, <1>6

\* A payload, and what it was before it was damaged.
CardMade(card, sig, form) ==
    /\ CardMakes(card, sig)
    /\ made = SignedByCard(card, sig)
    /\ ToSet(payload) \subseteq AtHand(CardTlv(card, sig, form))
    /\ edits = 0 => payload = CardTlv(card, sig, form)

WalletMade(sig, offset) ==
    /\ made = SignedByWallet(sig)
    /\ ToSet(payload) \subseteq AtHand(WalletPayload(sig, offset))
    /\ edits = 0 => payload = WalletPayload(sig, offset)

Travelling ==
    /\ payload \in Seq(Byte) /\ edits \in 0..MaxEdits
    /\ stage = "start" => source = "none"
    /\ stage = "transit" =>
          \/ \E card \in Cards, sig \in DOMAIN CardSignatures, form \in 1..2 :
                CardMade(card, sig, form)
          \/ source # "capture" /\ \E sig \in DOMAIN EthSignatures, offset \in {0, RECID_OFFSET} :
                                      WalletMade(sig, offset)
    /\ stage = "transit" /\ source = "capture" =>
          asked.idc \in Commitments /\ (edits = 0 => Verifies(payload, asked.idc))

\* Every step keeps Travelling.
LEMMA TravellingStep == Travelling /\ [Next]_vars => Travelling'
<1> SUFFICES ASSUME Travelling, [Next]_vars PROVE Travelling'
  OBVIOUS
<1>1. CASE UNCHANGED vars
  BY <1>1 DEF Travelling, CardMade, WalletMade, vars
<1>2. ASSUME NEW card \in Cards, NEW sig \in DOMAIN CardSignatures, NEW form \in 1..2,
             CardMakes(card, sig), SubmitCard(card, sig, form)
      PROVE  Travelling'
  <2>1. payload' \in Seq(Byte) /\ payload' = CardTlv(card, sig, form)
    BY <1>2, CardAnswer DEF SubmitCard, Submit
  <2>2. CardMade(card, sig, form)'
    BY <1>2, <2>1 DEF CardMade, SubmitCard, Submit, AtHand
  <2> QED BY <1>2, <2>1, <2>2 DEF Travelling, SubmitCard, Submit
<1>3. ASSUME NEW card \in Cards, NEW sig \in DOMAIN CardSignatures, NEW form \in 1..2,
             CardMakes(card, sig), NEW idc \in Commitments, NEW answers \in BOOLEAN,
             NEW initialized \in BOOLEAN, Capture(card, sig, form, idc, answers, initialized)
      PROVE  Travelling'
  <2> DEFINE tlv == CardTlv(card, sig, form)
             out == parse_produce_reply(produce_auth(
                      {[auth_type |-> KEYCARD_ATTEST_AUTH_TYPE,
                        id_commitment_hex |-> hex_encode(idc)]},
                      [answers |-> answers, initialized |-> initialized, tlv |-> tlv]))
  <2>1. /\ stage = "start" /\ source' = "capture" /\ asked' = [idc |-> idc] /\ edits' = edits
        /\ made' = SignedByCard(card, sig)
        /\ IF out = {} THEN stage' = "failed" /\ payload' = << >>
           ELSE stage' = "transit" /\ \E text \in out : payload' \in FromHex(text)
    BY <1>3 DEF Capture
  <2>2. CASE out = {}
    <3>1. stage' = "failed" /\ payload' = << >>
      BY <2>1, <2>2
    <3> QED BY <2>1, <3>1 DEF Travelling
  <2>3. CASE out # {}
    <3>1. PICK text \in out : payload' \in FromHex(text)
      BY <2>1, <2>3
    <3>2. text = hex_encode(tlv) /\ Verifies(tlv, idc)
      BY <3>1, Produced
    <3>3. tlv \in Seq(Byte)
      BY <1>3, CardAnswer
    <3> HIDE DEF tlv, out
    <3>4. FromHex(TextOf("plain", tlv)) = {tlv}
      BY <3>3, TextRead DEF TextForms
    <3>5. payload' = tlv
      BY <3>1, <3>2, <3>4 DEF TextOf
    <3>6. CardMade(card, sig, form)'
      BY <1>3, <2>1, <3>5 DEF CardMade, AtHand, tlv
    <3>7. stage' = "transit" /\ asked'.idc = idc
      BY <2>1, <2>3
    <3> QED BY <2>1, <3>2, <3>3, <3>5, <3>6, <3>7 DEF Travelling
  <2> QED BY <2>2, <2>3
<1>4. ASSUME NEW sig \in DOMAIN EthSignatures, NEW offset \in {0, RECID_OFFSET},
             SubmitWallet(sig, offset)
      PROVE  Travelling'
  <2>1. payload' \in Seq(Byte) /\ payload' = WalletPayload(sig, offset)
    BY <1>4, WalletAnswer DEF SubmitWallet, Submit
  <2>2. WalletMade(sig, offset)'
    BY <1>4, <2>1 DEF WalletMade, SubmitWallet, Submit, AtHand
  <2>3. source' = "other" /\ stage' = "transit" /\ edits' = edits
    BY <1>4 DEF SubmitWallet, Submit
  <2> QED BY <2>1, <2>2, <2>3 DEF Travelling
<1>5. ASSUME NEW bytes \in Seq(Byte), ToSet(bytes) \subseteq ToSet(payload) \cup Damage,
             Damaged(bytes)
      PROVE  Travelling'
  <2>1. /\ stage = "transit" /\ stage' = stage /\ source' = source /\ made' = made
        /\ asked' = asked /\ payload' = bytes /\ edits' = edits + 1 /\ edits < MaxEdits
    BY <1>5 DEF Damaged
  <2>2. edits' \in 0..MaxEdits /\ edits' # 0
    BY <2>1, BoundsAssumption DEF Travelling
  <2>3. ASSUME NEW card, NEW sig, NEW form, CardMade(card, sig, form)
        PROVE  CardMade(card, sig, form)'
    BY <1>5, <2>1, <2>2, <2>3 DEF CardMade, AtHand
  <2>4. ASSUME NEW sig, NEW offset, WalletMade(sig, offset) PROVE WalletMade(sig, offset)'
    BY <1>5, <2>1, <2>2, <2>4 DEF WalletMade, AtHand
  <2> QED BY <1>5, <2>1, <2>2, <2>3, <2>4 DEF Travelling
<1>6. ASSUME NEW b \in Damage, Append1(b) \/ \E i \in 1..Len(payload) : Replace(i, b)
      PROVE  Travelling'
  BY <1>5, <1>6, DamagedBytes DEF Append1, Replace, Travelling
<1>7. CASE Cut
  BY <1>5, <1>7, CutBytes DEF Cut, Travelling
<1>8. ASSUME stage' \notin {"start", "transit"}, UNCHANGED edits, payload' \in {payload, << >>}
      PROVE  Travelling'
  <2>1. payload' \in Seq(Byte)
    <3>1. payload \in Seq(Byte) /\ << >> \in Seq(Byte)
      BY DEF Travelling
    <3> QED BY <1>8, <3>1, Zenon
  <2>2. edits' \in 0..MaxEdits /\ stage' # "start" /\ stage' # "transit"
    BY <1>8 DEF Travelling
  <2> QED BY <2>1, <2>2 DEF Travelling
<1>9. ASSUME NEW module, NEW config, JudgeGarbled(module, config) PROVE Travelling'
  BY <1>8, <1>9 DEF JudgeGarbled
<1>10. ASSUME NEW module, NEW idc, NEW config, NEW pform, NEW iform,
              Judge(module, idc, config, pform, iform)
       PROVE  Travelling'
  BY <1>8, <1>10 DEF Judge
<1>11. CASE Deliver
  BY <1>8, <1>11 DEF Deliver
<1>12. ASSUME NEW success, Relay(success) PROVE Travelling'
  BY <1>8, <1>12 DEF Relay
<1> QED BY <1>1, <1>2, <1>3, <1>4, <1>6, <1>7, <1>9, <1>10, <1>11, <1>12 DEF Next

\* Travelling holds in every state.
LEMMA TravellingInvariant == Spec => []Travelling
<1>1. Init => Travelling
  BY BoundsAssumption DEF Init, Travelling
<1> QED BY <1>1, TravellingStep, PTL DEF Spec

\* The two TLV readers agree on every payload, damaged or not: what the verifier's
\* find_tag finds, the card client's finds too.
THEOREM TlvReadersAgree == Spec => []ParsersAgree
<1>1. Travelling => ParsersAgree
  BY BytesAreNumbers, ReadersAgree DEF Travelling, ParsersAgree
<1> QED BY <1>1, TravellingInvariant, PTL

\* Bytes that arrive after an element do not change what find_tag reads of it.
THEOREM SuffixesIgnored == Spec => SuffixIsIgnored
<1> DEFINE Ignored == \A b \in Damage : Append1(b) =>
                         \A tag \in {TAG_SIGNATURE_TEMPLATE, TAG_CERTIFICATE} :
                            attest_find_tag(payload, tag) # {} =>
                               attest_find_tag(payload', tag) = attest_find_tag(payload, tag)
<1>1. Travelling => Ignored
  <2> SUFFICES ASSUME Travelling, NEW b \in Damage, Append1(b), NEW tag,
                      attest_find_tag(payload, tag) # {}
               PROVE  attest_find_tag(payload', tag) = attest_find_tag(payload, tag)
    OBVIOUS
  <2>1. payload \in Seq(Nat) /\ b \in Nat /\ payload' = payload \o <<b>>
    BY BytesAreNumbers, BoundsAssumption DEF Travelling, Append1, Damaged
  <2> QED BY <2>1, FoundInPrefix
<1>2. Travelling /\ [Next]_vars => [Ignored]_vars
  BY <1>1
<1> HIDE DEF Ignored
<1>3. Spec => [][Ignored]_vars
  BY <1>2, TravellingInvariant, PTL DEF Spec
<1> QED BY <1>3 DEF SuffixIsIgnored, Ignored

-----------------------------------------------------------------------------
(***************************************************************************)
(* Configurations                                                          *)
(***************************************************************************)

\* Two hex digits are a byte.
LEMMA ByteOfDigits ==
    ASSUME NEW q \in Nat, NEW r \in Nat, q < NIBBLE, r < NIBBLE
    PROVE  NIBBLE * q + r \in Byte
<1>1. NIBBLE \in Nat /\ BYTE = NIBBLE * NIBBLE /\ BYTE \in Nat
  BY NibbleAssumption, BytesAreNumbers
<1>2. PICK d \in Nat : NIBBLE = q + 1 + d
  <2>1. NIBBLE - q - 1 \in Nat /\ NIBBLE = q + 1 + (NIBBLE - q - 1)
    BY <1>1
  <2> QED BY <2>1
<1>3. NIBBLE * NIBBLE = NIBBLE * q + NIBBLE + NIBBLE * d
  BY <1>1, <1>2
<1>4. NIBBLE * d \in Nat /\ NIBBLE * q \in Nat
  BY <1>1, <1>2
<1>5. NIBBLE * q + r \in Nat /\ NIBBLE * q + r < BYTE
  BY <1>1, <1>3, <1>4
<1> QED BY <1>1, <1>5 DEF Byte

\* Text is read as one byte string at most.
LEMMA DecodedBytes ==
    ASSUME NEW text \in Seq(Nat), NEW bytes \in hex_decode(text)
    PROVE  bytes \in Seq(Byte) /\ hex_decode(text) = {bytes}
<1> DEFINE n == Len(text) \div 2
           D(i) == NIBBLE * text[2 * i - 1] + text[2 * i]
<1>1. Len(text) \in Nat /\ Len(text) % 2 = 0 /\ \A i \in 1..Len(text) : text[i] < NIBBLE
  BY DEF hex_decode
<1>2. hex_decode(text) = {[i \in 1..n |-> D(i)]} /\ bytes = [i \in 1..n |-> D(i)]
  BY DEF hex_decode
<1>3. n \in Nat /\ \A i \in 1..n : 2 * i - 1 \in 1..Len(text) /\ 2 * i \in 1..Len(text)
  BY <1>1
<1>4. \A i \in 1..n : D(i) \in Byte
  <2> TAKE i \in 1..n
  <2>1. 2 * i - 1 \in 1..Len(text) /\ 2 * i \in 1..Len(text)
    BY <1>3
  <2>2. /\ text[2 * i - 1] \in Nat /\ text[2 * i - 1] < NIBBLE
        /\ text[2 * i] \in Nat /\ text[2 * i] < NIBBLE
    BY <1>1, <2>1
  <2> QED BY <2>2, ByteOfDigits
<1> HIDE DEF n, D
<1>5. bytes \in Seq(Byte)
  BY <1>2, <1>3, <1>4
<1> QED BY <1>2, <1>5

\* What is left of a text without its prefixes is text.
LEMMA TrimmedText ==
    ASSUME NEW text \in Seq(Nat)
    PROVE  trim_0x(text) \in Seq(Nat)
<1> DEFINE rest == {i \in 1..Len(text) : text[i] # PREFIX}
           first == CHOOSE i \in rest : \A j \in rest : i <= j
<1>1. trim_0x(text) = IF rest = {} THEN << >> ELSE SubSeq(text, first, Len(text))
  BY DEF trim_0x
<1>2. CASE rest = {}
  BY <1>1, <1>2
<1>3. CASE rest # {}
  <2>1. rest \in SUBSET Nat /\ rest \subseteq 1..Len(text)
    OBVIOUS
  <2>2. \E i \in rest : \A j \in rest : i <= j
    <3> HIDE DEF rest
    <3> QED BY <1>3, <2>1, LeastNatural
  <2>3. first \in rest
    <3> HIDE DEF rest
    <3> QED BY <2>2
  <2> HIDE DEF first, rest
  <2>4. first \in 1..Len(text)
    BY <2>1, <2>3
  <2>5. SubSeq(text, first, Len(text)) \in Seq(Nat)
    BY <2>4
  <2> QED BY <1>1, <1>3, <2>5
<1> QED BY <1>2, <1>3

\* Hex text reads as bytes.
LEMMA ReadBytes ==
    ASSUME NEW text \in Seq(Nat), NEW bytes \in FromHex(text)
    PROVE  bytes \in Seq(Byte) /\ FromHex(text) = {bytes}
BY TrimmedText, DecodedBytes DEF FromHex

\* An entry of trusted_cas yields the key that it is the hex of.
LEMMA CaEntry ==
    ASSUME NEW entry, entry.is_str => entry.text \in Seq(0..NotHex)
    PROVE  /\ \A key : key \in CaOf(entry) <=> IsCa(entry, key)
           /\ CaOf(entry) # {} <=> \E key \in Byte : IsCa(entry, key)
<1>1. CASE ~ entry.is_str
  BY <1>1 DEF CaOf, IsCa
<1>2. CASE entry.is_str
  <2>1. entry.text \in Seq(Nat)
    <3>1. NotHex \in Nat
      BY NibbleAssumption DEF NotHex
    <3>2. 0..NotHex \subseteq Nat
      BY <3>1
    <3> QED BY <1>2, <3>2, SequenceWithin
  <2> DEFINE keys == {b \in FromHex(entry.text) : Len(b) = KEY_LEN}
  <2>2. CaOf(entry) = {ca[1] : ca \in keys}
    BY <1>2 DEF CaOf
  <2>3. \A b \in keys : FromHex(entry.text) = {b} /\ b = <<b[1]>> /\ b[1] \in Byte
    <3> TAKE b \in keys
    <3>1. b \in Seq(Byte) /\ FromHex(entry.text) = {b} /\ Len(b) = 1
      BY <2>1, ReadBytes DEF KEY_LEN
    <3>2. b[1] \in Byte
      BY <3>1
    <3>3. <<b[1]>> \in Seq(Byte) /\ Len(<<b[1]>>) = 1 /\ \A i \in 1..1 : b[i] = <<b[1]>>[i]
      BY <3>2
    <3>4. b = <<b[1]>>
      BY <3>1, <3>3, SameSequence
    <3> QED BY <3>1, <3>2, <3>4
  <2>4. \A key : FromHex(entry.text) = {<<key>>} => <<key>> \in keys /\ <<key>>[1] = key
    BY DEF KEY_LEN
  <2> HIDE DEF keys
  <2>5. \A key : key \in CaOf(entry) <=> IsCa(entry, key)
    <3> TAKE key
    <3>1. key \in CaOf(entry) => IsCa(entry, key)
      BY <1>2, <2>2, <2>3 DEF IsCa
    <3>2. IsCa(entry, key) => key \in CaOf(entry)
      BY <2>2, <2>4 DEF IsCa
    <3> QED BY <3>1, <3>2
  <2>6. \A key \in CaOf(entry) : key \in Byte
    BY <2>2, <2>3
  <2> QED BY <2>5, <2>6
<1> QED BY <1>1, <1>2

\* parse_trusted_cas yields the keys that the operator listed, and nothing if the
\* configuration is not sound.
LEMMA CasOfConfig ==
    ASSUME NEW c \in Configs[KEYCARD_ATTEST_AUTH_TYPE]
    PROVE  /\ ~ c.sound => parse_trusted_cas(c.value) \ {{}} = {}
           /\ c.sound => \E cas : /\ parse_trusted_cas(c.value) \ {{}} = {cas}
                                  /\ \A key \in Byte \cup {Nobody} :
                                        key \in cas <=> key \in c.trusts
<1> DEFINE U(arr) == UNION {CaOf(arr[i]) : i \in 1..Len(arr)}
           Ok(arr) == \A i \in 1..Len(arr) : CaOf(arr[i]) # {}
<1>1. parse_trusted_cas(c.value) = {U(arr) : arr \in {a \in c.value : Ok(a)}}
  BY DEF parse_trusted_cas
<1>2. \A a, b \in c.value : a = b
  BY ConfigsAssumption
<1>3. \A arr \in c.value : \A i \in 1..Len(arr) :
         /\ \A key : key \in CaOf(arr[i]) <=> IsCa(arr[i], key)
         /\ CaOf(arr[i]) # {} <=> \E key \in Byte : IsCa(arr[i], key)
  BY ConfigsAssumption, CaEntry
<1>4. c.sound <=> \E arr \in c.value :
         1..Len(arr) # {} /\ \A i \in 1..Len(arr) : \E key \in Byte : IsCa(arr[i], key)
  BY ConfigsAssumption
<1>5. c.sound <=> \E arr \in c.value : 1..Len(arr) # {} /\ Ok(arr)
  BY <1>3, <1>4
<1>6. c.sound => \A key \in Byte \cup {Nobody} :
         key \in c.trusts <=> \E arr \in c.value : \E i \in 1..Len(arr) : IsCa(arr[i], key)
  BY ConfigsAssumption
<1>7. \A arr \in c.value : Ok(arr) => (U(arr) # {} <=> 1..Len(arr) # {})
  OBVIOUS
<1>8. \A arr \in c.value : \A key : key \in U(arr) <=> \E i \in 1..Len(arr) : IsCa(arr[i], key)
  BY <1>3
<1> HIDE DEF U, Ok
<1>9. CASE ~ c.sound
  BY <1>1, <1>5, <1>7, <1>9
<1>10. CASE c.sound
  <2>1. PICK arr \in c.value : 1..Len(arr) # {} /\ Ok(arr)
    BY <1>5, <1>10
  <2>2. c.value = {arr}
    BY <1>2
  <2>3. parse_trusted_cas(c.value) = {U(arr)}
    BY <1>1, <2>1, <2>2
  <2>4. parse_trusted_cas(c.value) \ {{}} = {U(arr)}
    BY <1>7, <2>1, <2>3
  <2>5. \A key \in Byte \cup {Nobody} : key \in U(arr) <=> key \in c.trusts
    BY <1>6, <1>8, <1>10, <2>2
  <2> QED BY <1>10, <2>4, <2>5
<1> QED BY <1>9, <1>10

\* The allowlist holds the addresses that the operator listed.
LEMMA AddressesOfConfig ==
    ASSUME NEW c \in Configs[ETH_ALLOWLIST_AUTH_TYPE]
    PROVE  /\ ~ c.sound => Allowlist(c.value) \ {{}} = {}
           /\ c.sound => \E list : /\ Allowlist(c.value) \ {{}} = {list}
                                   /\ \A key \in DOMAIN KeyHash :
                                         KeyHash[key] \in list <=> key \in c.trusts
<1> DEFINE U(arr) == {to_lowercase(arr[i].text) : i \in 1..Len(arr)}
           Ok(arr) == \A i \in 1..Len(arr) : arr[i].is_str
<1>1. Allowlist(c.value) = {U(arr) : arr \in {a \in c.value : Ok(a)}}
  BY DEF Allowlist
<1>2. \A a, b \in c.value : a = b
  BY ConfigsAssumption
<1>3. c.sound <=> \E arr \in c.value : 1..Len(arr) # {} /\ Ok(arr)
  BY ConfigsAssumption
<1>4. c.sound => \A key \in DOMAIN KeyHash :
         key \in c.trusts <=> \E arr \in c.value : \E i \in 1..Len(arr) : IsAddress(arr[i], key)
  BY ConfigsAssumption
<1>5. \A arr \in c.value : U(arr) # {} <=> 1..Len(arr) # {}
  OBVIOUS
<1>6. \A arr \in c.value : Ok(arr) =>
         \A key : KeyHash[key] \in U(arr) <=> \E i \in 1..Len(arr) : IsAddress(arr[i], key)
  BY DEF IsAddress
<1> HIDE DEF U, Ok
<1>7. CASE ~ c.sound
  BY <1>1, <1>3, <1>5, <1>7
<1>8. CASE c.sound
  <2>1. PICK arr \in c.value : 1..Len(arr) # {} /\ Ok(arr)
    BY <1>3, <1>8
  <2>2. c.value = {arr}
    BY <1>2
  <2>3. Allowlist(c.value) = {U(arr)}
    BY <1>1, <2>1, <2>2
  <2>4. Allowlist(c.value) \ {{}} = {U(arr)}
    BY <1>5, <2>1, <2>3
  <2>5. \A key \in DOMAIN KeyHash : KeyHash[key] \in U(arr) <=> key \in c.trusts
    BY <1>4, <1>6, <1>8, <2>1, <2>2
  <2> QED BY <1>8, <2>4, <2>5
<1> QED BY <1>7, <1>8

-----------------------------------------------------------------------------
(***************************************************************************)
(* Attestations                                                            *)
(***************************************************************************)

\* What is read of an attestation was among the bytes.
LEMMA AttestedBytes ==
    ASSUME NEW tlv \in Seq(Nat), NEW att \in parse_attestation(tlv)
    PROVE  /\ att.ident_pub \in ToSet(tlv) /\ att.ca_rs \in ToSet(tlv)
           /\ \E b \in ToSet(tlv) \cap DOMAIN CardSignatures : att.challenge_sig = CardSignatures[b]
<1>1. PICK t \in attest_find_tag(tlv, TAG_SIGNATURE_TEMPLATE) : att \in AttestationsIn(t.value)
  BY DEF parse_attestation
<1>2. t.value \in Seq(Nat) /\ ToSet(t.value) \subseteq ToSet(tlv)
  BY <1>1, FoundWithin
<1>3. PICK c \in attest_find_tag(t.value, TAG_CERTIFICATE),
           s \in UNION {from_der(d.full) : d \in attest_find_tag(t.value, TAG_DER_SEQUENCE)} :
         /\ Len(c.value) = CERTIFICATE_LEN
         /\ att = [ident_pub |-> c.value[1], ca_rs |-> c.value[2], ca_recid |-> c.value[3],
                   challenge_sig |-> s]
  BY <1>1 DEF AttestationsIn
<1>4. PICK d \in attest_find_tag(t.value, TAG_DER_SEQUENCE) : s \in from_der(d.full)
  OBVIOUS
<1>5. /\ c.value \in Seq(Nat) /\ ToSet(c.value) \subseteq ToSet(t.value)
      /\ d.full \in Seq(Nat) /\ ToSet(d.full) \subseteq ToSet(t.value)
  BY <1>2, <1>3, <1>4, FoundWithin
<1>6. ASSUME NEW v \in Seq(Nat), NEW k \in 1..Len(v) PROVE v[k] \in ToSet(v)
  BY DEF ToSet
<1>7. c.value[1] \in ToSet(tlv) /\ c.value[2] \in ToSet(tlv)
  <2>1. 1 \in 1..Len(c.value) /\ 2 \in 1..Len(c.value)
    BY <1>3 DEF CERTIFICATE_LEN
  <2> QED BY <1>2, <1>5, <1>6, <2>1
<1>8. /\ Len(d.full) = 3 /\ d.full[3] \in DOMAIN CardSignatures /\ s = CardSignatures[d.full[3]]
  BY <1>4 DEF from_der
<1>9. d.full[3] \in ToSet(tlv)
  <2>1. 3 \in 1..Len(d.full)
    BY <1>8
  <2> QED BY <1>2, <1>5, <1>6, <2>1
<1> QED BY <1>3, <1>7, <1>8, <1>9

\* What verify_attestation accepts of the bytes at hand with a card's answer is the
\* card's, made for this commitment, and vouched for by a listed issuer.
LEMMA AttestedIsGenuine ==
    ASSUME NEW card \in Cards, NEW sig \in DOMAIN CardSignatures, NEW form \in 1..2,
           CardMakes(card, sig),
           NEW tlv \in Seq(Byte), ToSet(tlv) \subseteq AtHand(CardTlv(card, sig, form)),
           NEW att \in parse_attestation(tlv), NEW cas, Nobody \notin cas, NEW idc,
           NEW n \in verify_attestation(att, cas, bound_challenge(idc))
    PROVE  /\ n = KeyHash[card.ident] /\ card.issuer \in cas
           /\ CardSignatures[sig].digest = <<"attest", idc>>
<1> DEFINE B == AtHand(CardTlv(card, sig, form))
           x == att.ident_pub
           rs == att.ca_rs
           cs == att.challenge_sig
<1>1. tlv \in Seq(Nat)
  BY BytesAreNumbers
<1>2. x \in B /\ rs \in B /\ \E b \in B \cap DOMAIN CardSignatures : cs = CardSignatures[b]
  BY <1>1, AttestedBytes
<1>3. PICK b \in B \cap DOMAIN CardSignatures : cs = CardSignatures[b]
  BY <1>2
<1>4. /\ RecoverKey(CaSignatures, rs, att.ca_recid, IdentDigest(x)) \cap cas # {}
      /\ verify_prehash(x, bound_challenge(idc), normalize_s(cs))
      /\ n = KeyHash[x]
  BY DEF verify_attestation
<1>5. rs \in DOMAIN CaSignatures /\ CaSignatures[rs].digest = IdentDigest(x)
      /\ CaSignatures[rs].signer \in cas
  BY <1>4 DEF RecoverKey
<1>6. \A y \in B, a \in B \cap DOMAIN CaSignatures :
         CaSignatures[a].digest = IdentDigest(y) =>
            y = card.ident /\ CaSignatures[a].signer = card.issuer
  BY UnforgedAssumption
<1>7. \A a \in B \cap DOMAIN CardSignatures :
         CardSignatures[a].signer = card.ident => CardSignatures[a].digest = CardSignatures[sig].digest
  BY UnforgedAssumption
<1> HIDE DEF B, x, rs, cs
<1>8. x = card.ident /\ CaSignatures[rs].signer = card.issuer
  BY <1>2, <1>5, <1>6
<1>9. cs.signer = x /\ cs.digest = <<"attest", idc>>
  <2>1. cs \in [signer : Byte, digest : {"attest"} \X Seq(Byte), high : BOOLEAN]
    BY <1>3, TablesAssumption
  <2>2. normalize_s(cs).signer = cs.signer /\ normalize_s(cs).digest = cs.digest
    BY <2>1 DEF normalize_s
  <2> QED BY <1>4, <2>2 DEF verify_prehash, bound_challenge
<1> QED BY <1>3, <1>4, <1>5, <1>7, <1>8, <1>9

\* The element whose value starts at v and ends before w.
ElementIn(buf, i, v, w) == [value |-> SubSeq(buf, v, w - 1), full |-> SubSeq(buf, i, w - 1)]

\* A length n is read in k bytes after position i, and covers positions v up to w.
Covers(buf, i, n, k, v, w) ==
    /\ i \in 1..Len(buf) /\ i + 1 <= Len(buf)
    /\ attest_read_len(buf, i + 1) = {<<n, k>>}
    /\ v = i + 1 + k /\ w = v + n /\ w <= Len(buf) + 1

\* What the search finds there.
LEMMA ElementAt ==
    ASSUME NEW buf \in Seq(Nat), NEW tag, NEW f, NEW i, NEW n \in Nat, NEW k \in Nat, NEW v, NEW w,
           Covers(buf, i, n, k, v, w)
    PROVE  FindFrom(buf, tag, f, i) = IF buf[i] = tag THEN {ElementIn(buf, i, v, w)} ELSE f[w]
<1> DEFINE l == <<n, k>>
<1>1. l[1] = n /\ l[2] = k
  OBVIOUS
<1> HIDE DEF l
<1>2. ~ (i >= Len(buf)) /\ v \in Nat /\ w \in Nat /\ Len(buf) \in Nat
  BY DEF Covers
<1>3. FindFrom(buf, tag, f, i) = FoundAt(buf, tag, f, i, l)
  BY <1>2 DEF FindFrom, Covers, l
<1>4. i + 1 + l[2] = v /\ v + l[1] = w /\ ~ (w > Len(buf) + 1)
  BY <1>1, <1>2 DEF Covers
<1> QED BY <1>3, <1>4 DEF FoundAt, ElementIn

\* The first element, if it has the tag; otherwise the second, if that has it.
LEMMA FirstElement ==
    ASSUME NEW buf \in Seq(Nat), NEW tag, NEW n \in Nat, NEW k \in Nat, NEW v, NEW w,
           Covers(buf, 1, n, k, v, w), buf[1] = tag
    PROVE  attest_find_tag(buf, tag) = {ElementIn(buf, 1, v, w)}
<1>1. PICK f \in [1..(Len(buf) + 1) -> SUBSET ElementsOf(buf)] :
         /\ attest_find_tag(buf, tag) = f[1]
         /\ \A i \in 1..(Len(buf) + 1) : f[i] = FindFrom(buf, tag, f, i)
  BY FindTagIsSearch
<1>2. 1 \in 1..(Len(buf) + 1)
  OBVIOUS
<1> QED BY <1>1, <1>2, ElementAt

\* A search passes over a first element with another tag to the second.
LEMMA SecondElement ==
    ASSUME NEW buf \in Seq(Nat), NEW tag, NEW n \in Nat, NEW k \in Nat, NEW v, NEW w,
           Covers(buf, 1, n, k, v, w), buf[1] # tag,
           NEW m \in Nat, NEW q \in Nat, NEW x, NEW y, Covers(buf, w, m, q, x, y), buf[w] = tag
    PROVE  attest_find_tag(buf, tag) = {ElementIn(buf, w, x, y)}
<1>1. PICK f \in [1..(Len(buf) + 1) -> SUBSET ElementsOf(buf)] :
         /\ attest_find_tag(buf, tag) = f[1]
         /\ \A i \in 1..(Len(buf) + 1) : f[i] = FindFrom(buf, tag, f, i)
  BY FindTagIsSearch
<1>2. 1 \in 1..(Len(buf) + 1) /\ w \in 1..(Len(buf) + 1)
  BY DEF Covers
<1>3. FindFrom(buf, tag, f, 1) = f[w]
  BY ElementAt
<1>4. FindFrom(buf, tag, f, w) = {ElementIn(buf, w, x, y)}
  BY ElementAt
<1> QED BY <1>1, <1>2, <1>3, <1>4

\* The attestation that a card's answer holds.
Attestation(card, sig) ==
    [ident_pub |-> card.ident, ca_rs |-> card.ca_rs, ca_recid |-> card.ca_recid,
     challenge_sig |-> CardSignatures[sig]]

\* The attestation is found in the body of the template.
LEMMA BodyRead ==
    ASSUME NEW card, NEW sig, CardMakes(card, sig)
    PROVE  AttestationsIn(CardBody(card, sig)) = {Attestation(card, sig)}
<1> DEFINE body == CardBody(card, sig)
<1>1. body \in Seq(Nat) /\ Len(body) = 8
  BY CardAnswer, BytesAreNumbers
<1>2. /\ body[1] = TAG_CERTIFICATE /\ body[2] = 3 /\ body[3] = card.ident
      /\ body[4] = card.ca_rs /\ body[5] = card.ca_recid
      /\ body[6] = TAG_DER_SEQUENCE /\ body[7] = 1 /\ body[8] = sig
  BY DEF CardBody, CERTIFICATE_LEN
<1> HIDE DEF body
<1>3. HALF \in Nat /\ HALF > 4
  BY HalfAssumption, BoundsAssumption
<1>4. attest_read_len(body, 2) = {<<3, 1>>} /\ attest_read_len(body, 7) = {<<1, 1>>}
  <2>1. 2 \in 1..Len(body) /\ 7 \in 1..Len(body) /\ body[2] < HALF /\ body[7] < HALF
    BY <1>1, <1>2, <1>3
  <2> QED BY <1>1, <1>2, <2>1, LengthForms, SMTT(30)
<1>5. Covers(body, 1, 3, 1, 3, 6) /\ Covers(body, 6, 1, 1, 8, 9)
  BY <1>1, <1>4 DEF Covers
<1>6. attest_find_tag(body, TAG_CERTIFICATE) = {ElementIn(body, 1, 3, 6)}
  BY <1>1, <1>2, <1>5, FirstElement
<1>7. attest_find_tag(body, TAG_DER_SEQUENCE) = {ElementIn(body, 6, 8, 9)}
  BY <1>1, <1>2, <1>5, SecondElement, TagsAssumption, SMTT(30)
<1> DEFINE cert == SubSeq(body, 3, 5)
           der == SubSeq(body, 6, 8)
<1>8. /\ Len(cert) = 3 /\ cert[1] = card.ident /\ cert[2] = card.ca_rs /\ cert[3] = card.ca_recid
      /\ Len(der) = 3 /\ der[2] = 1 /\ der[3] = sig
  BY <1>1, <1>2
<1>9. ElementIn(body, 1, 3, 6).value = cert /\ ElementIn(body, 6, 8, 9).full = der
  BY DEF ElementIn
<1> HIDE DEF cert, der
<1>10. from_der(der) = {CardSignatures[sig]}
  BY <1>8 DEF from_der, CardMakes
<1>11. UNION {from_der(d.full) : d \in attest_find_tag(body, TAG_DER_SEQUENCE)}
          = {CardSignatures[sig]}
  BY <1>7, <1>9, <1>10
<1>12. {e \in attest_find_tag(body, TAG_CERTIFICATE) : Len(e.value) = CERTIFICATE_LEN}
          = {ElementIn(body, 1, 3, 6)}
  BY <1>6, <1>8, <1>9 DEF CERTIFICATE_LEN
<1>13. AttestationsIn(body) = {Attestation(card, sig)}
  <2> DEFINE c == ElementIn(body, 1, 3, 6)
             C == {e \in attest_find_tag(body, TAG_CERTIFICATE) : Len(e.value) = CERTIFICATE_LEN}
             S == UNION {from_der(d.full) : d \in attest_find_tag(body, TAG_DER_SEQUENCE)}
  <2>1. C = {c} /\ S = {CardSignatures[sig]}
    BY <1>11, <1>12
  <2>2. AttestationsIn(body) =
           {[ident_pub |-> e.value[1], ca_rs |-> e.value[2], ca_recid |-> e.value[3],
             challenge_sig |-> s] : e \in C, s \in S}
    BY DEF AttestationsIn
  <2>3. Attestation(card, sig) =
           [ident_pub |-> c.value[1], ca_rs |-> c.value[2], ca_recid |-> c.value[3],
            challenge_sig |-> CardSignatures[sig]]
    BY <1>8, <1>9 DEF Attestation
  <2> HIDE DEF c, C, S
  <2> QED BY <2>1, <2>2, <2>3
<1> QED BY <1>13 DEF body

\* A body after its head.
IsHeaded(all, head, body, m, n) ==
    /\ Len(all) = m + n
    /\ \A i \in 1..m : all[i] = head[i]
    /\ SubSeq(all, m + 1, m + n) = body

\* The header and the body of an element, by their positions.
LEMMA Headed ==
    ASSUME NEW head \in Seq(Nat), NEW body \in Seq(Nat)
    PROVE  IsHeaded(head \o body, head, body, Len(head), Len(body))
<1> DEFINE all == head \o body
           m == Len(head)
           n == Len(body)
<1>1. m \in Nat /\ n \in Nat
  OBVIOUS
<1>2. all \in Seq(Nat) /\ Len(all) = m + n /\ \A i \in 1..m : all[i] = head[i]
  OBVIOUS
<1>3. \A i \in 1..n : all[m + i] = body[i]
  BY <1>1
<1> HIDE DEF all
<1> HIDE DEF m, n
<1> DEFINE a == m + 1
           z == m + n
           rest == SubSeq(all, a, z)
<1>4. a \in Nat /\ z \in Nat /\ a >= 1 /\ z = Len(all) /\ z - a + 1 = n
  BY <1>1, <1>2
<1>5. \A i \in 1..n : a + i - 1 = m + i
  BY <1>1
<1> HIDE DEF a, z
<1>6. rest \in Seq(Nat) /\ Len(rest) = n
  BY <1>1, <1>2, <1>4
<1>7. \A i \in 1..n : rest[i] = all[a + i - 1]
  BY <1>1, <1>2, <1>4
<1> HIDE DEF rest
<1>8. \A i \in 1..n : rest[i] = body[i]
  BY <1>3, <1>5, <1>7
<1>9. rest = body
  BY <1>6, <1>8, SameSequence DEF n
<1> QED BY <1>2, <1>9 DEF all, rest, a, z, m, n, IsHeaded

\* An undamaged answer of a card reads as the attestation that the card gave.
LEMMA CardRead ==
    ASSUME NEW card, NEW sig, CardMakes(card, sig), NEW form \in 1..2
    PROVE  parse_attestation(CardTlv(card, sig, form)) = {Attestation(card, sig)}
<1> DEFINE body == CardBody(card, sig)
           tlv == CardTlv(card, sig, form)
           T == TAG_SIGNATURE_TEMPLATE
           long1 == <<T, HALF + 1, 8>>
           long2 == <<T, HALF + 2, 0, 8>>
<1>1. body \in Seq(Nat) /\ Len(body) = 8 /\ tlv \in Seq(Nat) /\ T \in Nat
  BY CardAnswer, BytesAreNumbers, TagsAssumption
<1>2. tlv = IF form = 1 THEN long1 \o body ELSE long2 \o body
  BY CardAnswer
<1>3. AttestationsIn(body) = {Attestation(card, sig)}
  BY BodyRead
<1>4. HALF \in Nat /\ BYTE \in Nat
  BY HalfAssumption, BytesAreNumbers
<1> HIDE DEF body, tlv, T
<1>5. /\ long1 \in Seq(Nat) /\ Len(long1) = 3 /\ long1[1] = T /\ long1[2] = HALF + 1 /\ long1[3] = 8
      /\ long2 \in Seq(Nat) /\ Len(long2) = 4 /\ long2[1] = T /\ long2[2] = HALF + 2
      /\ long2[3] = 0 /\ long2[4] = 8
  BY <1>1, <1>4
<1> HIDE DEF long1, long2
<1>6. ASSUME NEW n \in Nat, NEW k \in Nat, NEW v, NEW w, Covers(tlv, 1, n, k, v, w), tlv[1] = T,
             SubSeq(tlv, v, w - 1) = body
      PROVE  parse_attestation(CardTlv(card, sig, form)) = {Attestation(card, sig)}
  <2>1. attest_find_tag(tlv, T) = {ElementIn(tlv, 1, v, w)}
    BY <1>1, <1>6, FirstElement
  <2>2. ElementIn(tlv, 1, v, w).value = body
    BY <1>6 DEF ElementIn
  <2> QED BY <1>3, <2>1, <2>2 DEF parse_attestation, tlv, T
<1>7. CASE form = 1
  <2>1. tlv = long1 \o body
    BY <1>2, <1>7
  <2>2. Len(tlv) = 11 /\ (\A i \in 1..3 : tlv[i] = long1[i]) /\ SubSeq(tlv, 4, 11) = body
    <3>1. IsHeaded(tlv, long1, body, Len(long1), Len(body))
      BY <1>1, <1>5, <2>1, Headed
    <3> QED BY <1>1, <1>5, <3>1 DEF IsHeaded
  <2>3. tlv[1] = T /\ tlv[2] = HALF + 1 /\ tlv[3] = 8
    BY <1>5, <2>2
  <2>4. 2 \in 1..Len(tlv) /\ 2 + 1 <= Len(tlv) /\ 2 + 1 = 3
    BY <2>2
  <2>5. attest_read_len(tlv, 2) = {<<8, 2>>}
    BY <1>1, <2>3, <2>4, LengthForms
  <2>6. Covers(tlv, 1, 8, 2, 4, 12) /\ 12 - 1 = 11
    BY <2>2, <2>5 DEF Covers
  <2> QED BY <1>6, <2>2, <2>3, <2>6
<1>8. CASE form = 2
  <2>1. tlv = long2 \o body
    BY <1>2, <1>8
  <2>2. Len(tlv) = 12 /\ (\A i \in 1..4 : tlv[i] = long2[i]) /\ SubSeq(tlv, 5, 12) = body
    <3>1. IsHeaded(tlv, long2, body, Len(long2), Len(body))
      BY <1>1, <1>5, <2>1, Headed
    <3> QED BY <1>1, <1>5, <3>1 DEF IsHeaded
  <2>3. tlv[1] = T /\ tlv[2] = HALF + 2 /\ tlv[3] = 0 /\ tlv[4] = 8
    BY <1>5, <2>2
  <2>4. 2 \in 1..Len(tlv) /\ 2 + 2 <= Len(tlv) /\ 2 + 1 = 3 /\ 2 + 2 = 4
    BY <2>2
  <2>5. attest_read_len(tlv, 2) = {<<tlv[3] * BYTE + tlv[4], 3>>}
    BY <1>1, <2>3, <2>4, LengthForms
  <2>6. tlv[3] * BYTE + tlv[4] = 8
    BY <1>4, <2>3
  <2>7. Covers(tlv, 1, 8, 3, 5, 13) /\ 13 - 1 = 12
    BY <2>2, <2>5, <2>6 DEF Covers
  <2> QED BY <1>6, <2>2, <2>3, <2>7
<1> QED BY <1>7, <1>8

-----------------------------------------------------------------------------
(***************************************************************************)
(* Judgements                                                              *)
(***************************************************************************)

\* The request of a judgement.
Request(c, payload1, pform, idc, iform) ==
    [auth_type |-> c.auth_type, payload_hex |-> TextOf(pform, payload1),
     id_commitment_hex |-> TextOf(iform, idc), config |-> c.value]

\* What a credential must have been signed over to be good for idc.
DigestFor(auth_type, idc) ==
    IF auth_type = ETH_ALLOWLIST_AUTH_TYPE THEN eip191_digest(idc) ELSE <<"attest", idc>>

\* The reply r to a credential m for idc under c is what it should be: the envelope if c is
\* not sound; an acceptance only of what was made for idc and is trusted, and always of
\* that if it is legible and e, its edits, are none, unless its signer would have to be
\* recovered from a signature with a high s: then never.
Fair(r, m, c, idc, legible, e) ==
    /\ r = error_reply <=> ~ c.sound
    /\ \/ r = error_reply
       \/ r = reject
       \/ /\ r = Verdict(TRUE, {KeyHash[m.key]}) /\ m.key \in DOMAIN KeyHash
          /\ m.issuer \in c.trusts /\ m.digest = DigestFor(m.auth_type, idc)
    /\ (/\ e = 0 /\ legible /\ c.sound /\ m.issuer \in c.trusts
        /\ m.digest = DigestFor(m.auth_type, idc))
       => IF ~ m.low_s THEN r = reject
          ELSE r = Verdict(TRUE, {KeyHash[m.key]}) /\ m.key \in DOMAIN KeyHash

\* The error envelope is no verdict.
LEMMA RepliesDiffer == \A n : error_reply # reject /\ error_reply # Verdict(TRUE, n)
<1>1. "ok" \notin DOMAIN error_reply
  BY DEF error_reply
<1>2. \A b, n : "ok" \in DOMAIN Verdict(b, n)
  BY DEF Verdict
<1> QED BY <1>1, <1>2 DEF reject

\* One request: routed to the vector of its type.
LEMMA OneRequest ==
    ASSUME NEW module, NEW req
    PROVE  /\ req.auth_type # Hosts(module) => verify_auth(module, {req}) = error_reply
           /\ req.auth_type = Hosts(module) /\ module = "eth_auth_module" =>
                 /\ EthVerify(req) = {} => verify_auth(module, {req}) = error_reply
                 /\ \A v : EthVerify(req) = {v} => verify_auth(module, {req}) = v
           /\ req.auth_type = Hosts(module) /\ module # "eth_auth_module" =>
                 /\ KeycardVerify(req) = {} => verify_auth(module, {req}) = error_reply
                 /\ \A v : KeycardVerify(req) = {v} => verify_auth(module, {req}) = v
<1> DEFINE V(r) == IF module = "eth_auth_module" THEN EthVerify(r) ELSE KeycardVerify(r)
           verdict == UNION {V(r) : r \in {x \in {req} : x.auth_type = Hosts(module)}}
<1>1. verify_auth(module, {req}) = IF verdict = {} THEN error_reply ELSE CHOOSE v \in verdict : TRUE
  BY DEF verify_auth
<1>2. verdict = IF req.auth_type = Hosts(module) THEN V(req) ELSE {}
  <2> HIDE DEF V
  <2> QED OBVIOUS
<1> HIDE DEF verdict
<1>3. \A v : verdict = {v} => verify_auth(module, {req}) = v
  BY <1>1
<1> QED BY <1>1, <1>2, <1>3

\* The verifier of keycards replies with the verdict on the card's signature.
KeycardAnswers(r, c, p, idc, pform, iform) ==
    /\ ~ c.sound => r = error_reply
    /\ c.sound => \E cas, nul :
          /\ \A key \in Byte \cup {Nobody} : key \in cas <=> key \in c.trusts
          /\ r = IF nul = {} THEN reject ELSE Verdict(TRUE, nul)
          /\ \A n : n \in nul <=>
                /\ pform # "odd" /\ iform # "odd"
                /\ \E att \in parse_attestation(p) :
                      n \in verify_attestation(att, cas, bound_challenge(idc))

\* What the verifier of keycards replies to a request.
LEMMA KeycardReply ==
    ASSUME NEW c \in Configs[KEYCARD_ATTEST_AUTH_TYPE], NEW p \in Seq(Byte), NEW idc \in Seq(Byte),
           NEW pform \in TextForms, NEW iform \in TextForms, NEW module,
           Hosts(module) = KEYCARD_ATTEST_AUTH_TYPE, NEW r,
           r = verify_auth(module, {Request(c, p, pform, idc, iform)})
    PROVE  KeycardAnswers(r, c, p, idc, pform, iform)
<1> DEFINE req == Request(c, p, pform, idc, iform)
<1>1. /\ req.auth_type = Hosts(module) /\ module # "eth_auth_module" /\ req.config = c.value
      /\ FromHex(req.payload_hex) = IF pform = "odd" THEN {} ELSE {p}
      /\ FromHex(req.id_commitment_hex) = IF iform = "odd" THEN {} ELSE {idc}
  <2>1. c.auth_type = KEYCARD_ATTEST_AUTH_TYPE
    BY ConfigsAssumption
  <2>2. module # "eth_auth_module"
    BY DEF Hosts, KEYCARD_ATTEST_AUTH_TYPE, ETH_ALLOWLIST_AUTH_TYPE
  <2>3. /\ req.auth_type = c.auth_type /\ req.config = c.value
        /\ req.payload_hex = TextOf(pform, p) /\ req.id_commitment_hex = TextOf(iform, idc)
    BY DEF Request
  <2> QED BY <2>1, <2>2, <2>3, TextRead
<1> HIDE DEF req
<1>2. KeycardVerify(req) =
         {IF Nullifiers(req, cas) = {} THEN reject ELSE Verdict(TRUE, Nullifiers(req, cas)) :
             cas \in parse_trusted_cas(c.value) \ {{}}}
  BY <1>1 DEF KeycardVerify
<1>3. r = verify_auth(module, {req})
  BY DEF req
<1>4. CASE ~ c.sound
  <2>1. KeycardVerify(req) = {}
    BY <1>2, <1>4, CasOfConfig
  <2> QED BY <1>1, <1>3, <1>4, <2>1, OneRequest DEF KeycardAnswers
<1>5. CASE c.sound
  <2>1. PICK cas : /\ parse_trusted_cas(c.value) \ {{}} = {cas}
                   /\ \A key \in Byte \cup {Nobody} : key \in cas <=> key \in c.trusts
    BY <1>5, CasOfConfig
  <2> DEFINE nul == Nullifiers(req, cas)
  <2>2. KeycardVerify(req) = {IF nul = {} THEN reject ELSE Verdict(TRUE, nul)}
    <3> HIDE DEF nul
    <3> QED BY <1>2, <2>1 DEF nul
  <2>3. r = IF nul = {} THEN reject ELSE Verdict(TRUE, nul)
    <3> HIDE DEF nul
    <3> QED BY <1>1, <1>3, <2>2, OneRequest
  <2>4. \A n : n \in nul <=> /\ pform # "odd" /\ iform # "odd"
                             /\ \E att \in parse_attestation(p) :
                                   n \in verify_attestation(att, cas, bound_challenge(idc))
    <3>1. nul = UNION {UNION {verify_attestation(att, cas, bound_challenge(i)) :
                                 att \in UNION {parse_attestation(q) :
                                                  q \in FromHex(req.payload_hex)}} :
                          i \in FromHex(req.id_commitment_hex)}
      BY DEF Nullifiers
    <3> HIDE DEF nul
    <3> QED BY <1>1, <3>1
  <2> HIDE DEF nul
  <2> QED BY <1>5, <2>1, <2>3, <2>4 DEF KeycardAnswers
<1> QED BY <1>4, <1>5

\* A card whose issuer signed with a high s is never accepted.
LEMMA HighIsNotAttested ==
    ASSUME NEW card, NEW sig, CaSignatures[card.ca_rs].high, NEW cas, NEW challenge
    PROVE  verify_attestation(Attestation(card, sig), cas, challenge) = {}
<1>1. Attestation(card, sig).ca_rs = card.ca_rs
  BY DEF Attestation
<1>2. \A recid, digest : RecoverKey(CaSignatures, card.ca_rs, recid, digest) = {}
  BY DEF RecoverKey
<1> QED BY <1>1, <1>2 DEF verify_attestation

\* A trusted issuer's card, with a signature over the right challenge, is accepted.
LEMMA GenuineIsAttested ==
    ASSUME NEW card \in Cards, NEW sig \in DOMAIN CardSignatures, CardMakes(card, sig),
           ~ CaSignatures[card.ca_rs].high,
           NEW cas, card.issuer \in cas, NEW idc, CardSignatures[sig].digest = <<"attest", idc>>
    PROVE  KeyHash[card.ident] \in
              verify_attestation(Attestation(card, sig), cas, bound_challenge(idc))
<1> DEFINE att == Attestation(card, sig)
<1>1. /\ att.ident_pub = card.ident /\ att.ca_rs = card.ca_rs /\ att.ca_recid = card.ca_recid
      /\ att.challenge_sig = CardSignatures[sig]
  BY DEF Attestation
<1> HIDE DEF att
<1>2. /\ card.ident \in Points /\ card.ca_rs \in DOMAIN CaSignatures /\ card.ca_recid \in 0..3
      /\ CaSignatures[card.ca_rs].signer = card.issuer
      /\ CaSignatures[card.ca_rs].digest = IdentDigest(card.ident)
      /\ CaSignatures[card.ca_rs].recid = card.ca_recid
  BY CardsAssumption
<1>3. RecoverKey(CaSignatures, card.ca_rs, card.ca_recid, IdentDigest(card.ident)) = {card.issuer}
  BY <1>2 DEF RecoverKey
<1>4. verify_prehash(card.ident, bound_challenge(idc), normalize_s(CardSignatures[sig]))
  <2> DEFINE cs == CardSignatures[sig]
  <2>1. cs \in [signer : Byte, digest : {"attest"} \X Seq(Byte), high : BOOLEAN]
    BY TablesAssumption
  <2>2. cs.signer = card.ident /\ cs.digest = <<"attest", idc>>
    BY DEF CardMakes
  <2> HIDE DEF cs
  <2>3. /\ normalize_s(cs).signer = cs.signer /\ normalize_s(cs).digest = cs.digest
        /\ normalize_s(cs).high = FALSE
    BY <2>1 DEF normalize_s
  <2>4. verify_prehash(card.ident, bound_challenge(idc), normalize_s(cs))
    BY <2>2, <2>3 DEF verify_prehash, bound_challenge
  <2> QED BY <2>4 DEF cs
<1>5. KeyHash[card.ident] \in verify_attestation(att, cas, bound_challenge(idc))
  BY <1>1, <1>2, <1>3, <1>4 DEF verify_attestation, ValidRecid
<1> QED BY <1>5 DEF att

\* The verdict on a card's payload is the one it should have.
LEMMA KeycardFair ==
    ASSUME NEW card \in Cards, NEW sig \in DOMAIN CardSignatures, NEW form \in 1..2,
           CardMakes(card, sig),
           NEW c \in Configs[KEYCARD_ATTEST_AUTH_TYPE], NEW p \in Seq(Byte),
           ToSet(p) \subseteq AtHand(CardTlv(card, sig, form)),
           NEW e, e = 0 => p = CardTlv(card, sig, form),
           NEW idc \in Seq(Byte), NEW pform \in TextForms, NEW iform \in TextForms,
           NEW module, Hosts(module) = KEYCARD_ATTEST_AUTH_TYPE,
           NEW m, m = SignedByCard(card, sig),
           NEW r, r = verify_auth(module, {Request(c, p, pform, idc, iform)}),
           NEW legible, legible => pform # "odd" /\ iform # "odd"
    PROVE  Fair(r, m, c, idc, legible, e)
<1>1. /\ m.key = card.ident /\ m.issuer = card.issuer /\ m.digest = CardSignatures[sig].digest
      /\ m.low_s = ~ CaSignatures[card.ca_rs].high
      /\ DigestFor(m.auth_type, idc) = <<"attest", idc>>
  BY DEF Signed, SignedByCard, DigestFor, KEYCARD_ATTEST_AUTH_TYPE, ETH_ALLOWLIST_AUTH_TYPE
<1>2. card.ident \in DOMAIN KeyHash /\ card.issuer \in Byte
  BY CardsAssumption, TablesAssumption
<1>3. KeycardAnswers(r, c, p, idc, pform, iform)
  BY KeycardReply
<1>4. CASE ~ c.sound
  BY <1>3, <1>4 DEF Fair, KeycardAnswers
<1>5. CASE c.sound
  <2>1. PICK cas, nul :
           /\ \A key \in Byte \cup {Nobody} : key \in cas <=> key \in c.trusts
           /\ r = IF nul = {} THEN reject ELSE Verdict(TRUE, nul)
           /\ \A n : n \in nul <=>
                 /\ pform # "odd" /\ iform # "odd"
                 /\ \E att \in parse_attestation(p) :
                       n \in verify_attestation(att, cas, bound_challenge(idc))
    BY <1>3, <1>5 DEF KeycardAnswers
  <2>2. Nobody \notin cas
    BY <2>1, ConfigsAssumption
  <2>3. \A n \in nul : /\ n = KeyHash[card.ident] /\ card.issuer \in cas
                       /\ CardSignatures[sig].digest = <<"attest", idc>>
    <3> SUFFICES ASSUME NEW n \in nul
                 PROVE  /\ n = KeyHash[card.ident] /\ card.issuer \in cas
                        /\ CardSignatures[sig].digest = <<"attest", idc>>
      OBVIOUS
    <3>1. PICK att \in parse_attestation(p) : n \in verify_attestation(att, cas, bound_challenge(idc))
      BY <2>1
    <3> QED BY <2>2, <3>1, AttestedIsGenuine
  <2>4. e = 0 /\ legible /\ card.issuer \in c.trusts
           /\ CardSignatures[sig].digest = <<"attest", idc>>
        => IF CaSignatures[card.ca_rs].high THEN nul = {} ELSE KeyHash[card.ident] \in nul
    <3> HAVE e = 0 /\ legible /\ card.issuer \in c.trusts
                /\ CardSignatures[sig].digest = <<"attest", idc>>
    <3>1. parse_attestation(p) = {Attestation(card, sig)}
      BY CardRead
    <3>2. card.issuer \in cas
      BY <1>2, <2>1
    <3>3. CASE ~ CaSignatures[card.ca_rs].high
      <4>1. KeyHash[card.ident] \in
               verify_attestation(Attestation(card, sig), cas, bound_challenge(idc))
        BY <3>2, <3>3, GenuineIsAttested
      <4> QED BY <2>1, <3>1, <3>3, <4>1
    <3>4. CASE CaSignatures[card.ca_rs].high
      <4>1. verify_attestation(Attestation(card, sig), cas, bound_challenge(idc)) = {}
        BY <3>4, HighIsNotAttested
      <4> QED BY <2>1, <3>1, <3>4, <4>1
    <3> QED BY <3>3, <3>4
  <2>5. card.issuer \in cas => card.issuer \in c.trusts
    BY <1>2, <2>1
  <2>6. nul = {} \/ nul = {KeyHash[card.ident]}
    BY <2>3
  <2>7. CASE nul = {}
    <3>1. r = reject
      BY <2>1, <2>7
    <3> QED BY <1>1, <1>5, <2>4, <2>7, <3>1, RepliesDiffer DEF Fair
  <2>8. CASE nul # {}
    <3>1. r = Verdict(TRUE, {KeyHash[card.ident]})
      BY <2>1, <2>6, <2>8
    <3>2. card.issuer \in c.trusts /\ CardSignatures[sig].digest = <<"attest", idc>>
      BY <2>3, <2>5, <2>8
    <3>3. e = 0 /\ legible => m.low_s
      BY <1>1, <2>4, <2>8, <3>2
    <3> QED BY <1>1, <1>2, <1>5, <3>1, <3>2, <3>3, RepliesDiffer DEF Fair
  <2> QED BY <2>7, <2>8
<1> QED BY <1>4, <1>5

\* The verifier of wallets replies with the verdict on the signer.
EthAnswers(r, c, p, idc, pform, iform) ==
    /\ ~ c.sound => r = error_reply
    /\ c.sound => \E list, signers :
          /\ \A key \in DOMAIN KeyHash : KeyHash[key] \in list <=> key \in c.trusts
          /\ r = IF signers \cap list = {} THEN reject ELSE Verdict(TRUE, signers)
          /\ signers = IF pform # "odd" /\ iform # "odd" THEN recover_signer(idc, p) ELSE {}

\* What the verifier of wallets replies to a request.
LEMMA EthReply ==
    ASSUME NEW c \in Configs[ETH_ALLOWLIST_AUTH_TYPE], NEW p \in Seq(Byte), NEW idc \in Seq(Byte),
           NEW pform \in TextForms, NEW iform \in TextForms, NEW module,
           Hosts(module) = ETH_ALLOWLIST_AUTH_TYPE, NEW r,
           r = verify_auth(module, {Request(c, p, pform, idc, iform)})
    PROVE  EthAnswers(r, c, p, idc, pform, iform)
<1> DEFINE req == Request(c, p, pform, idc, iform)
<1>1. /\ req.auth_type = Hosts(module) /\ module = "eth_auth_module" /\ req.config = c.value
      /\ FromHex(req.payload_hex) = IF pform = "odd" THEN {} ELSE {p}
      /\ FromHex(req.id_commitment_hex) = IF iform = "odd" THEN {} ELSE {idc}
  <2>1. c.auth_type = ETH_ALLOWLIST_AUTH_TYPE
    BY ConfigsAssumption
  <2>2. module = "eth_auth_module"
    BY DEF Hosts, KEYCARD_ATTEST_AUTH_TYPE, ETH_ALLOWLIST_AUTH_TYPE
  <2>3. /\ req.auth_type = c.auth_type /\ req.config = c.value
        /\ req.payload_hex = TextOf(pform, p) /\ req.id_commitment_hex = TextOf(iform, idc)
    BY DEF Request
  <2> QED BY <2>1, <2>2, <2>3, TextRead
<1> HIDE DEF req
<1>2. EthVerify(req) =
         {IF Signers(req) \cap list = {} THEN reject ELSE Verdict(TRUE, Signers(req)) :
             list \in Allowlist(c.value) \ {{}}}
  BY <1>1 DEF EthVerify
<1>3. r = verify_auth(module, {req})
  BY DEF req
<1>4. CASE ~ c.sound
  <2>1. EthVerify(req) = {}
    BY <1>2, <1>4, AddressesOfConfig
  <2> QED BY <1>1, <1>3, <1>4, <2>1, OneRequest DEF EthAnswers
<1>5. CASE c.sound
  <2>1. PICK list : /\ Allowlist(c.value) \ {{}} = {list}
                    /\ \A key \in DOMAIN KeyHash : KeyHash[key] \in list <=> key \in c.trusts
    BY <1>5, AddressesOfConfig
  <2> DEFINE signers == Signers(req)
  <2>2. EthVerify(req) = {IF signers \cap list = {} THEN reject ELSE Verdict(TRUE, signers)}
    <3> HIDE DEF signers
    <3> QED BY <1>2, <2>1 DEF signers
  <2>3. r = IF signers \cap list = {} THEN reject ELSE Verdict(TRUE, signers)
    <3> HIDE DEF signers
    <3> QED BY <1>1, <1>3, <2>2, OneRequest
  <2>4. signers = IF pform # "odd" /\ iform # "odd" THEN recover_signer(idc, p) ELSE {}
    <3>1. signers = UNION {UNION {recover_signer(i, s) : s \in FromHex(req.payload_hex)} :
                              i \in FromHex(req.id_commitment_hex)}
      BY DEF Signers
    <3> HIDE DEF signers
    <3> QED BY <1>1, <3>1
  <2> HIDE DEF signers
  <2> QED BY <1>5, <2>1, <2>3, <2>4 DEF EthAnswers
<1> QED BY <1>4, <1>5

\* Of the bytes at hand with a wallet's signature, a signature recovers to the wallet, over
\* what it signed, or to nobody.
LEMMA RecoveredIsGenuine ==
    ASSUME NEW sig \in DOMAIN EthSignatures, NEW offset \in {0, RECID_OFFSET},
           NEW p \in Seq(Byte), ToSet(p) \subseteq AtHand(WalletPayload(sig, offset)),
           NEW idc, NEW signers, signers = recover_signer(idc, p)
    PROVE  \/ signers = {} \/ signers = {KeyHash[Nobody]}
           \/ signers = {KeyHash[EthSignatures[sig].signer]}
              /\ EthSignatures[sig].digest = eip191_digest(idc) /\ ~ EthSignatures[sig].high
<1>1. CASE Len(p) # 2
  BY <1>1 DEF recover_signer, ETH_SIGNATURE_LEN
<1>2. CASE Len(p) = 2
  <2> DEFINE recid == IF p[2] >= RECID_OFFSET THEN p[2] - RECID_OFFSET ELSE p[2]
  <2>1. signers = IF ~ ValidRecid(recid) THEN {}
                  ELSE {KeyHash[k] : k \in RecoverKey(EthSignatures, p[1], recid,
                                                      eip191_digest(idc))}
    BY <1>2 DEF recover_signer, ETH_SIGNATURE_LEN
  <2>2. p[1] \in AtHand(WalletPayload(sig, offset))
    BY <1>2 DEF ToSet
  <2>3. p[1] \in DOMAIN EthSignatures => p[1] = sig
    BY <2>2, UnforgedAssumption
  <2> HIDE DEF recid
  <2>4. CASE p[1] \notin DOMAIN EthSignatures
    BY <2>1, <2>4 DEF RecoverKey
  <2>5. CASE p[1] = sig
    BY <2>1, <2>5 DEF RecoverKey
  <2> QED BY <2>3, <2>4, <2>5
<1> QED BY <1>1, <1>2

\* A wallet's signature recovers to the wallet over what it signed.
LEMMA GenuineIsRecovered ==
    ASSUME NEW sig \in DOMAIN EthSignatures, NEW offset \in {0, RECID_OFFSET},
           NEW idc, EthSignatures[sig].digest = eip191_digest(idc), ~ EthSignatures[sig].high
    PROVE  recover_signer(idc, WalletPayload(sig, offset)) = {KeyHash[EthSignatures[sig].signer]}
<1> DEFINE id == EthSignatures[sig].recid
           p == WalletPayload(sig, offset)
           recid == IF p[2] >= RECID_OFFSET THEN p[2] - RECID_OFFSET ELSE p[2]
<1>1. id \in 0..3
  BY TablesAssumption
<1>2. Len(p) = 2 /\ p[1] = sig /\ p[2] = id + offset
  BY DEF WalletPayload
<1>3. RECID_OFFSET \in Nat /\ RECID_OFFSET >= 4
  BY OffsetAssumption, BytesAreNumbers
<1>4. recid = id /\ ValidRecid(recid)
  <2> HIDE DEF id, p
  <2> QED BY <1>1, <1>2, <1>3 DEF ValidRecid
<1>5. RecoverKey(EthSignatures, p[1], recid, eip191_digest(idc)) = {EthSignatures[sig].signer}
  <2> HIDE DEF p, recid
  <2> QED BY <1>2, <1>4 DEF RecoverKey, id
<1>6. recover_signer(idc, p) = {KeyHash[k] : k \in RecoverKey(EthSignatures, p[1], recid,
                                                              eip191_digest(idc))}
  <2>1. recover_signer(idc, p) = IF ~ ValidRecid(recid) THEN {}
                  ELSE {KeyHash[k] : k \in RecoverKey(EthSignatures, p[1], recid,
                                                      eip191_digest(idc))}
    <3> HIDE DEF p
    <3> QED BY <1>2 DEF recover_signer, ETH_SIGNATURE_LEN
  <2> HIDE DEF p, recid
  <2> QED BY <1>4, <2>1
<1> HIDE DEF p, recid
<1>7. recover_signer(idc, p) = {KeyHash[EthSignatures[sig].signer]}
  BY <1>5, <1>6
<1> QED BY <1>7 DEF p

\* The verdict on a wallet's payload is the one it should have.
LEMMA EthFair ==
    ASSUME NEW sig \in DOMAIN EthSignatures, NEW offset \in {0, RECID_OFFSET},
           NEW c \in Configs[ETH_ALLOWLIST_AUTH_TYPE], NEW p \in Seq(Byte),
           ToSet(p) \subseteq AtHand(WalletPayload(sig, offset)),
           NEW e, e = 0 => p = WalletPayload(sig, offset),
           NEW idc \in Seq(Byte), NEW pform \in TextForms, NEW iform \in TextForms,
           NEW module, Hosts(module) = ETH_ALLOWLIST_AUTH_TYPE,
           NEW m, m = SignedByWallet(sig),
           NEW r, r = verify_auth(module, {Request(c, p, pform, idc, iform)}),
           NEW legible, legible => pform # "odd" /\ iform # "odd"
    PROVE  Fair(r, m, c, idc, legible, e)
<1> DEFINE s == EthSignatures[sig]
<1>1. /\ m.key = s.signer /\ m.issuer = s.signer /\ m.digest = s.digest
      /\ m.low_s = ~ s.high /\ DigestFor(m.auth_type, idc) = eip191_digest(idc)
  BY DEF Signed, SignedByWallet, DigestFor
<1>2. s.signer \in DOMAIN KeyHash /\ Nobody \in DOMAIN KeyHash
  BY TablesAssumption
<1>3. EthAnswers(r, c, p, idc, pform, iform)
  BY EthReply
<1> HIDE DEF s
<1>4. CASE ~ c.sound
  BY <1>3, <1>4 DEF Fair, EthAnswers
<1>5. CASE c.sound
  <2>1. PICK list, signers :
           /\ \A key \in DOMAIN KeyHash : KeyHash[key] \in list <=> key \in c.trusts
           /\ r = IF signers \cap list = {} THEN reject ELSE Verdict(TRUE, signers)
           /\ signers = IF pform # "odd" /\ iform # "odd" THEN recover_signer(idc, p) ELSE {}
    BY <1>3, <1>5 DEF EthAnswers
  <2>2. KeyHash[Nobody] \notin list
    BY <1>2, <2>1, ConfigsAssumption
  <2>3. \/ signers = {} \/ signers = {KeyHash[Nobody]}
        \/ signers = {KeyHash[s.signer]} /\ s.digest = eip191_digest(idc) /\ ~ s.high
    BY <2>1, RecoveredIsGenuine DEF s
  <2>4. e = 0 /\ legible /\ s.digest = eip191_digest(idc) /\ ~ s.high
        => signers = {KeyHash[s.signer]}
    BY <2>1, GenuineIsRecovered DEF s
  <2>5. CASE signers \cap list = {}
    <3>1. r = reject
      BY <2>1, <2>5
    <3>2. ~ (/\ e = 0 /\ legible /\ s.signer \in c.trusts /\ s.digest = eip191_digest(idc)
             /\ ~ s.high)
      BY <1>2, <2>1, <2>4, <2>5
    <3> QED BY <1>1, <1>5, <3>1, <3>2, RepliesDiffer DEF Fair
  <2>6. CASE signers \cap list # {}
    <3>1. /\ signers = {KeyHash[s.signer]} /\ s.digest = eip191_digest(idc) /\ ~ s.high
          /\ s.signer \in c.trusts
      BY <1>2, <2>1, <2>2, <2>3, <2>6
    <3>2. r = Verdict(TRUE, {KeyHash[s.signer]})
      BY <2>1, <2>6, <3>1
    <3> QED BY <1>1, <1>2, <1>5, <3>1, <3>2, RepliesDiffer DEF Fair
  <2> QED BY <2>5, <2>6
<1> QED BY <1>4, <1>5


\* A judgement has the reply it should have: the envelope for a request that is no request or
\* reached the wrong verifier, and else the verdict on the credential.
Judged ==
    stage \in {"judged", "delivered"} =>
       /\ ~ WellAsked => reply = error_reply
       /\ WellAsked => Fair(reply, made, asked.config, asked.idc, asked.legible, edits)

\* Judge establishes Judged.
LEMMA JudgeIsFair ==
    ASSUME Travelling, NEW module \in Verifiers, NEW c \in Configs[made.auth_type],
           NEW idc \in Commitments, NEW pform \in TextForms, NEW iform \in TextForms,
           Judge(module, idc, c, pform, iform)
    PROVE  Judged'
<1> DEFINE r == verify_auth(module, {Request(c, payload, pform, idc, iform)})
           legible == pform # "odd" /\ iform # "odd"
<1>1. /\ stage = "transit" /\ made' = made /\ edits' = edits /\ reply' = r
      /\ asked' = [module |-> module, idc |-> idc, config |-> c, parsed |-> TRUE,
                   legible |-> legible]
  BY DEF Judge, Request
<1>2. /\ asked'.module = module /\ asked'.idc = idc /\ asked'.config = c /\ asked'.parsed
      /\ asked'.legible = legible
  BY <1>1
<1>3. WellAsked' <=> Hosts(module) = c.auth_type
  BY <1>2 DEF WellAsked
<1>4. ASSUME Hosts(module) # c.auth_type PROVE r = error_reply
  <2>1. Request(c, payload, pform, idc, iform).auth_type = c.auth_type
    BY DEF Request
  <2> QED BY <1>4, <2>1, OneRequest
<1>5. ASSUME Hosts(module) = c.auth_type PROVE Fair(r, made, c, idc, legible, edits)
  <2>1. payload \in Seq(Byte) /\ idc \in Seq(Byte)
    BY BoundsAssumption DEF Travelling
  <2>2. ASSUME NEW card \in Cards, NEW sig \in DOMAIN CardSignatures, NEW form \in 1..2,
               CardMade(card, sig, form)
        PROVE  Fair(r, made, c, idc, legible, edits)
    <3>1. /\ CardMakes(card, sig)
          /\ made = SignedByCard(card, sig)
          /\ ToSet(payload) \subseteq AtHand(CardTlv(card, sig, form))
          /\ edits = 0 => payload = CardTlv(card, sig, form)
      BY <2>2 DEF CardMade
    <3>2. made.auth_type = KEYCARD_ATTEST_AUTH_TYPE
      BY <3>1 DEF Signed, SignedByCard
    <3>3. c \in Configs[KEYCARD_ATTEST_AUTH_TYPE] /\ Hosts(module) = KEYCARD_ATTEST_AUTH_TYPE
      BY <1>5, <3>2, ConfigsAssumption
    <3> QED BY <2>1, <3>1, <3>3, KeycardFair
  <2>3. ASSUME NEW sig \in DOMAIN EthSignatures, NEW offset \in {0, RECID_OFFSET},
               WalletMade(sig, offset)
        PROVE  Fair(r, made, c, idc, legible, edits)
    <3>1. /\ made = SignedByWallet(sig)
          /\ ToSet(payload) \subseteq AtHand(WalletPayload(sig, offset))
          /\ edits = 0 => payload = WalletPayload(sig, offset)
      BY <2>3 DEF WalletMade
    <3>2. made.auth_type = ETH_ALLOWLIST_AUTH_TYPE
      BY <3>1 DEF Signed, SignedByWallet
    <3>3. c \in Configs[ETH_ALLOWLIST_AUTH_TYPE] /\ Hosts(module) = ETH_ALLOWLIST_AUTH_TYPE
      BY <1>5, <3>2, ConfigsAssumption
    <3> QED BY <2>1, <3>1, <3>3, EthFair
  <2> QED BY <1>1, <2>2, <2>3 DEF Travelling
<1> HIDE DEF r, legible
<1> QED BY <1>1, <1>2, <1>3, <1>4, <1>5 DEF Judged

\* Every step keeps Judged; what the other steps change is not part of a judgement.
LEMMA JudgedStep == Travelling /\ Judged /\ [Next]_vars => Judged'
<1> SUFFICES ASSUME Travelling, Judged, [Next]_vars PROVE Judged'
  OBVIOUS
<1>1. ASSUME stage' \notin {"judged", "delivered"} PROVE Judged'
  BY <1>1 DEF Judged
<1>2. ASSUME stage \in {"judged", "delivered"}, UNCHANGED <<made, edits, asked, reply>>
      PROVE  Judged'
  BY <1>2 DEF Judged, WellAsked
<1>3. CASE UNCHANGED vars
  BY <1>1, <1>2, <1>3 DEF vars
<1>4. ASSUME NEW card, NEW sig, NEW form, NEW idc, NEW answers, NEW initialized,
             SubmitCard(card, sig, form) \/ Capture(card, sig, form, idc, answers, initialized)
      PROVE  Judged'
  BY <1>1, <1>4 DEF SubmitCard, Submit, Capture
<1>5. ASSUME NEW sig, NEW offset, SubmitWallet(sig, offset) PROVE Judged'
  BY <1>1, <1>5 DEF SubmitWallet, Submit
<1>6. ASSUME NEW bytes, Damaged(bytes) PROVE Judged'
  BY <1>1, <1>6 DEF Damaged
<1>7. ASSUME NEW b, Append1(b) \/ (\E i \in 1..Len(payload) : Replace(i, b)) \/ Cut PROVE Judged'
  BY <1>6, <1>7 DEF Append1, Replace, Cut
<1>8. ASSUME NEW module, NEW config, JudgeGarbled(module, config) PROVE Judged'
  <2>1. verify_auth(module, {}) = error_reply
    BY DEF verify_auth
  <2>2. reply' = error_reply /\ ~ WellAsked'
    BY <1>8, <2>1 DEF JudgeGarbled, WellAsked
  <2> QED BY <2>2 DEF Judged
<1>9. ASSUME NEW module \in Verifiers, NEW c \in Configs[made.auth_type],
             NEW idc \in Commitments, NEW pform \in TextForms, NEW iform \in TextForms,
             Judge(module, idc, c, pform, iform)
      PROVE  Judged'
  BY <1>9, JudgeIsFair
<1>10. CASE Deliver
  BY <1>2, <1>10 DEF Deliver
<1>11. ASSUME NEW success, Relay(success) PROVE Judged'
  BY <1>1, <1>11 DEF Relay
<1> QED BY <1>3, <1>4, <1>5, <1>7, <1>8, <1>9, <1>10, <1>11 DEF Next

\* Travelling and Judged hold in every state.
LEMMA JudgedInvariant == Spec => [](Travelling /\ Judged)
<1>1. Init => Travelling /\ Judged
  BY BoundsAssumption DEF Init, Travelling, Judged
<1> QED BY <1>1, TravellingStep, JudgedStep, PTL DEF Spec

\* What is fair is an acceptance under one nullifier, a refusal or the envelope.
LEMMA FairReplies ==
    ASSUME NEW r, NEW m, NEW c, NEW idc, NEW legible, NEW e,
           Fair(r, m, c, idc, legible, e), "ok" \in DOMAIN r, r.ok
    PROVE  /\ c.sound /\ m.issuer \in c.trusts /\ m.digest = DigestFor(m.auth_type, idc)
           /\ r.nullifier = {KeyHash[m.key]}
<1>1. r # error_reply
  BY DEF error_reply
<1>2. r # reject
  BY DEF reject, Verdict
<1> QED BY <1>1, <1>2 DEF Fair, Verdict

\* Acceptances of a judged payload are genuine: only for the commitment that its maker
\* signed for, only from a maker the operator trusts, under its maker's nullifier,
\* whatever bytes were damaged and wherever the TLV readers went in them.
THEOREM AcceptancesGenuine == Spec => []AcceptedIsGenuine
<1>1. Judged => AcceptedIsGenuine
  <2> SUFFICES ASSUME Judged, Accepted
               PROVE  MadeFor(asked.idc) /\ Trusted /\ reply.nullifier = {KeyHash[made.key]}
    BY DEF AcceptedIsGenuine
  <2>1. stage \in {"judged", "delivered"} /\ "ok" \in DOMAIN reply /\ reply.ok
    BY DEF Accepted
  <2>2. WellAsked
    BY <2>1 DEF Judged, error_reply
  <2>3. Fair(reply, made, asked.config, asked.idc, asked.legible, edits)
    BY <2>1, <2>2 DEF Judged
  <2>4. /\ asked.config.sound /\ made.issuer \in asked.config.trusts
        /\ made.digest = DigestFor(made.auth_type, asked.idc)
        /\ reply.nullifier = {KeyHash[made.key]}
    BY <2>1, <2>3, FairReplies
  <2> QED BY <2>4 DEF MadeFor, Trusted, DigestFor
<1> QED BY <1>1, JudgedInvariant, PTL

\* The error envelope comes back exactly for a request that is none or went to the wrong
\* verifier, and for a configuration that is not well formed: nothing in the payload or the
\* commitment can cause it.
THEOREM EnvelopesForOperators == Spec => []EnvelopeMeansOperator
<1>1. Judged => EnvelopeMeansOperator
  <2> SUFFICES ASSUME Judged, stage = "judged"
               PROVE  reply = error_reply <=> ~ (WellAsked /\ asked.config.sound)
    BY DEF EnvelopeMeansOperator
  <2>1. CASE WellAsked
    <3>1. Fair(reply, made, asked.config, asked.idc, asked.legible, edits)
      BY <2>1 DEF Judged
    <3> QED BY <2>1, <3>1 DEF Fair
  <2>2. CASE ~ WellAsked
    BY <2>2 DEF Judged
  <2> QED BY <2>1, <2>2
<1> QED BY <1>1, JudgedInvariant, PTL

\* Type correctness: whatever was damaged, a judged payload has the envelope, a refusal, or
\* an acceptance under exactly one nullifier.
THEOREM FlowTypeCorrect == Spec => []FlowTypeOK
<1> DEFINE Stages == stage \in {"start", "failed", "transit", "judged", "delivered", "relayed"}
<1>1. Spec => []Stages
  <2>1. Init => Stages
    BY DEF Init
  <2>2. Stages /\ [Next]_vars => Stages'
    <3> SUFFICES ASSUME Stages, [Next]_vars PROVE Stages'
      OBVIOUS
    <3>1. CASE UNCHANGED vars
      BY <3>1 DEF vars
    <3>2. ASSUME NEW card, NEW sig, NEW form, NEW idc, NEW answers, NEW initialized,
                 SubmitCard(card, sig, form) \/ Capture(card, sig, form, idc, answers, initialized)
          PROVE  Stages'
      BY <3>2 DEF SubmitCard, Submit, Capture
    <3>3. ASSUME NEW sig, NEW offset, SubmitWallet(sig, offset) PROVE Stages'
      BY <3>3 DEF SubmitWallet, Submit
    <3>4. ASSUME NEW b, Append1(b) \/ (\E i \in 1..Len(payload) : Replace(i, b)) \/ Cut
          PROVE  Stages'
      BY <3>4 DEF Append1, Replace, Cut, Damaged
    <3>5. ASSUME NEW module, NEW config, NEW idc, NEW pform, NEW iform,
                 JudgeGarbled(module, config) \/ Judge(module, idc, config, pform, iform)
          PROVE  Stages'
      BY <3>5 DEF Judge, JudgeGarbled
    <3>6. CASE Deliver
      BY <3>6 DEF Deliver
    <3>7. ASSUME NEW success, Relay(success) PROVE Stages'
      BY <3>7 DEF Relay
    <3> HIDE DEF Stages
    <3> QED BY <3>1, <3>2, <3>3, <3>4, <3>5, <3>6, <3>7 DEF Next
  <2> QED BY <2>1, <2>2, PTL DEF Spec
<1>2. Travelling /\ Judged /\ Stages => FlowTypeOK
  <2> SUFFICES ASSUME Travelling, Judged, Stages PROVE FlowTypeOK
    OBVIOUS
  <2>1. stage \in {"judged", "delivered"} =>
           \/ reply \in {error_reply, reject}
           \/ \E k \in DOMAIN KeyHash : reply = Verdict(TRUE, {KeyHash[k]})
    BY DEF Judged, Fair
  <2> QED BY <2>1 DEF FlowTypeOK, Travelling
<1> QED BY <1>1, <1>2, JudgedInvariant, PTL


\* The nullifiers that verifiers name survive the server's normalisation.
LEMMA HashIsNormal ==
    ASSUME NEW k \in DOMAIN KeyHash
    PROVE  Normalize(KeyHash[k]) = KeyHash[k] /\ ~ Malformed(KeyHash[k])
<1> DEFINE h == KeyHash[k]
<1>1. h \in Seq({"a", "b"}) /\ h # << >>
  BY TablesAssumption
<1> HIDE DEF h
<1>2. \A i \in 1..Len(h) : h[i] \in {"a", "b"}
  BY <1>1
<1>3. h \in String
  <2>1. \A i \in 1..Len(h) : h[i] \in Char
    BY <1>2 DEF Char
  <2> QED BY <1>1, <2>1 DEF String
<1>4. Normalize(h) = h
  BY <1>2, <1>3, NormalizeType
<1>5. ~ Malformed(h)
  BY <1>1, <1>2 DEF Malformed
<1> QED BY <1>4, <1>5 DEF h

\* An undamaged payload is accepted for the commitment it was made for wherever its maker
\* is trusted: in both length forms, with either recovery id, with a high or a low s of the
\* card's own signature, with and without the hex prefix; under a nullifier that the
\* server's normalisation keeps.  If the CA's signature on the card, or the wallet's, has a
\* high s, it is refused instead.
THEOREM IntactAccepted == Spec => []IntactIsAccepted
<1>1. Judged => IntactIsAccepted
  <2> SUFFICES ASSUME Judged, stage = "judged", edits = 0, WellAsked, asked.legible,
                      Trusted, MadeFor(asked.idc)
               PROVE  IF ~ made.low_s THEN reply = reject ELSE
                      /\ Accepted /\ reply.nullifier = {KeyHash[made.key]}
                      /\ Normalize(KeyHash[made.key]) = KeyHash[made.key]
                      /\ ~ Malformed(KeyHash[made.key])
    BY DEF IntactIsAccepted
  <2>1. Fair(reply, made, asked.config, asked.idc, asked.legible, edits)
    BY DEF Judged
  <2>2. /\ asked.config.sound /\ made.issuer \in asked.config.trusts
        /\ made.digest = DigestFor(made.auth_type, asked.idc)
    BY DEF Trusted, MadeFor, DigestFor
  <2>3. IF ~ made.low_s THEN reply = reject
        ELSE reply = Verdict(TRUE, {KeyHash[made.key]}) /\ made.key \in DOMAIN KeyHash
    BY <2>1, <2>2 DEF Fair
  <2>4. made.low_s => Accepted /\ reply.nullifier = {KeyHash[made.key]}
    BY <2>3 DEF Accepted, Verdict
  <2> QED BY <2>3, <2>4, HashIsNormal
<1> QED BY <1>1, JudgedInvariant, PTL

\* What keycard-capture hands out was signed for the commitment it was asked for, and the
\* keycard verifier accepts it under every sound configuration that lists the production CA:
\* the producer's own check and the verifier's never disagree.
THEOREM CapturesVerify == Spec => []CapturedVerifies
<1>1. Travelling => CapturedVerifies
  <2> SUFFICES ASSUME Travelling, stage = "transit", source = "capture", edits = 0
               PROVE  /\ MadeFor(asked.idc)
                      /\ \A c \in Configs[KEYCARD_ATTEST_AUTH_TYPE] :
                            c.sound /\ STATUS_PRODUCTION_CA \in c.trusts =>
                            verify_auth("keycard_auth_module",
                               {[auth_type |-> KEYCARD_ATTEST_AUTH_TYPE,
                                 payload_hex |-> hex_encode(payload),
                                 id_commitment_hex |-> hex_encode(asked.idc),
                                 config |-> c.value]}).ok
    BY DEF CapturedVerifies
  <2> DEFINE idc == asked.idc
  <2>1. payload \in Seq(Byte) /\ idc \in Seq(Byte) /\ Verifies(payload, idc)
    BY BoundsAssumption DEF Travelling
  <2>2. PICK card \in Cards, sig \in DOMAIN CardSignatures, form \in 1..2 :
           CardMade(card, sig, form)
    BY DEF Travelling
  <2> HIDE DEF idc
  <2>3. /\ CardMakes(card, sig)
        /\ made = SignedByCard(card, sig)
        /\ ToSet(payload) \subseteq AtHand(CardTlv(card, sig, form))
        /\ payload = CardTlv(card, sig, form)
    BY <2>2 DEF CardMade
  <2>4. /\ card.issuer = STATUS_PRODUCTION_CA /\ CardSignatures[sig].digest = <<"attest", idc>>
        /\ ~ CaSignatures[card.ca_rs].high
    <3> DEFINE cas == {STATUS_PRODUCTION_CA}
    <3>1. PICK att \in parse_attestation(payload) :
             verify_attestation(att, cas, bound_challenge(idc)) # {}
      BY <2>1 DEF Verifies
    <3>2. Nobody \notin cas
      BY TablesAssumption
    <3> HIDE DEF cas
    <3>3. PICK n \in verify_attestation(att, cas, bound_challenge(idc)) : TRUE
      BY <3>1
    <3>4. card.issuer \in cas /\ CardSignatures[sig].digest = <<"attest", idc>>
      <4>1. ToSet(payload) \subseteq AtHand(CardTlv(card, sig, form)) /\ CardMakes(card, sig)
        BY <2>3
      <4>2. payload \in Seq(Byte)
        BY <2>1
      <4> QED BY <3>2, <3>3, <4>1, <4>2, AttestedIsGenuine
    <3>5. att = Attestation(card, sig)
      BY <2>3, CardRead
    <3> QED BY <3>1, <3>4, <3>5, HighIsNotAttested DEF cas
  <2>5. MadeFor(idc)
    BY <2>3, <2>4
    DEF MadeFor, Signed, SignedByCard, KEYCARD_ATTEST_AUTH_TYPE, ETH_ALLOWLIST_AUTH_TYPE
  <2>6. ASSUME NEW c \in Configs[KEYCARD_ATTEST_AUTH_TYPE], c.sound,
               STATUS_PRODUCTION_CA \in c.trusts
        PROVE  verify_auth("keycard_auth_module",
                  {[auth_type |-> KEYCARD_ATTEST_AUTH_TYPE, payload_hex |-> hex_encode(payload),
                    id_commitment_hex |-> hex_encode(idc), config |-> c.value]}).ok
    <3> DEFINE req == [auth_type |-> KEYCARD_ATTEST_AUTH_TYPE,
                       payload_hex |-> hex_encode(payload),
                       id_commitment_hex |-> hex_encode(idc), config |-> c.value]
               r == verify_auth("keycard_auth_module", {req})
               m == SignedByCard(card, sig)
    <3>1. "plain" \in TextForms /\ "plain" # "odd"
      BY DEF TextForms
    <3>2. Hosts("keycard_auth_module") = KEYCARD_ATTEST_AUTH_TYPE
      BY DEF Hosts
    <3>3. req = Request(c, payload, "plain", idc, "plain")
      <4>1. c.auth_type = KEYCARD_ATTEST_AUTH_TYPE
        BY ConfigsAssumption
      <4> QED BY <4>1 DEF Request, TextOf
    <3>4. r = verify_auth("keycard_auth_module", {Request(c, payload, "plain", idc, "plain")})
      BY <3>3
    <3> HIDE DEF r, req
    <3>5. Fair(r, m, c, idc, TRUE, 0)
      BY <2>1, <2>3, <3>1, <3>2, <3>4, KeycardFair
    <3>6. /\ m.issuer \in c.trusts /\ m.digest = DigestFor(m.auth_type, idc) /\ m.low_s
      BY <2>4, <2>6
      DEF Signed, SignedByCard, DigestFor, KEYCARD_ATTEST_AUTH_TYPE, ETH_ALLOWLIST_AUTH_TYPE
    <3> HIDE DEF m
    <3>7. r = Verdict(TRUE, {KeyHash[m.key]})
      BY <2>6, <3>5, <3>6 DEF Fair
    <3>8. r.ok
      BY <3>7 DEF Verdict
    <3> QED BY <3>8 DEF r, req
  <2> QED BY <2>5, <2>6 DEF idc
<1> QED BY <1>1, TravellingInvariant, PTL


=============================================================================
