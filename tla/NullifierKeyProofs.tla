------------------------- MODULE NullifierKeyProofs -------------------------
(***************************************************************************)
(* Lemmas about the strings of the nullifier store, after those about      *)
(* numbers, sequences and recursive functions that other modules use too.  *)
(***************************************************************************)
EXTENDS NullifierKey, SequenceTheorems, WellFoundedInduction, TLAPS

\* to_lowercase keeps the length and maps each character.
LEMMA LowerType ==
    ASSUME NEW s \in String
    PROVE  /\ to_lowercase(s) \in String
           /\ Len(to_lowercase(s)) = Len(s)
           /\ \A i \in 1..Len(s) : to_lowercase(s)[i] = LowerChar[s[i]]
<1>1. \A c \in Char : LowerChar[c] \in Char
  BY DEF LowerChar, Char
<1>2. \A i \in 1..Len(s) : s[i] \in Char
  BY DEF String
<1>3. Len(s) \in Nat
  BY DEF String
<1>4. to_lowercase(s) \in Seq(Char)
  BY <1>1, <1>2, <1>3 DEF to_lowercase
<1> QED BY <1>3, <1>4 DEF String, to_lowercase

\* A non-empty set of naturals has a least element.
LEMMA LeastNatural ==
    ASSUME NEW S \in SUBSET Nat, S # {}
    PROVE  \E i \in S : \A j \in S : i <= j
<1> DEFINE R == OpToRel(<, Nat)
<1>1. \A i, j \in Nat : j < i => <<j, i>> \in R
  BY DEF OpToRel
<1>2. IsWellFoundedOn(R, Nat)
  BY NatLessThanWellFounded
<1> HIDE DEF R
<1>3. PICK i \in S : \A j \in S : ~ (<<j, i>> \in R)
  BY <1>2, WFMin
<1>4. \A j \in S : i <= j
  <2> TAKE j \in S
  <2>1. ~ (j < i)
    BY <1>1, <1>3
  <2> QED BY <2>1
<1> QED BY <1>4

\* The first and the last of a non-empty set of positions exist.
LEMMA InkBounds ==
    ASSUME NEW n \in Nat, NEW ink \in SUBSET (1..n), ink # {}
    PROVE  /\ \E i \in ink : \A j \in ink : i <= j
           /\ \E i \in ink : \A j \in ink : j <= i
<1>1. \A j \in ink : j \in Int /\ 1 <= j /\ j <= n
  OBVIOUS
<1>2. \E i \in ink : \A j \in ink : i <= j
  BY <1>1, LeastNatural
<1>3. \E i \in ink : \A j \in ink : j <= i
  <2> DEFINE gaps == {n - j : j \in ink}
  <2>1. gaps \in SUBSET Nat
    BY <1>1
  <2>2. gaps # {}
    OBVIOUS
  <2>3. \A j \in ink : n - j \in gaps
    OBVIOUS
  <2>4. PICK g \in gaps : \A h \in gaps : g <= h
    <3> HIDE DEF gaps
    <3> QED BY <2>1, <2>2, LeastNatural
  <2>5. PICK i \in ink : g = n - i
    BY <2>4
  <2>6. \A j \in ink : n - i <= n - j
    BY <2>3, <2>4, <2>5
  <2> QED BY <1>1, <2>6
<1> QED BY <1>2, <1>3

\* Sequences of one length with the same elements are the same.
LEMMA SameSequence ==
    ASSUME NEW T, NEW s \in Seq(T), NEW t \in Seq(T), Len(s) = Len(t),
           \A i \in 1..Len(t) : s[i] = t[i]
    PROVE  s = t
OBVIOUS

-----------------------------------------------------------------------------
(***************************************************************************)
(* Recursion.  A function that finds its value at a position from its      *)
(* values further on exists.                                               *)
(***************************************************************************)

\* B gives the value at i of a function f, from the values of f beyond i.
LooksAhead(B, N, T) ==
    /\ B \in [1..N -> [[1..N -> T] -> T]]
    /\ \A f, g \in [1..N -> T] : \A i \in 1..N :
          (\A j \in 1..N : j > i => f[j] = g[j]) => B[i][f] = B[i][g]

Solves(f, B, N) == \A i \in 1..N : f[i] = B[i][f]

\* Such a function exists, and solves its own equation.
LEMMA RecursionAhead ==
    ASSUME NEW N \in Nat, NEW T, T # {}, NEW B, LooksAhead(B, N, T)
    PROVE  \E f \in [1..N -> T] : Solves(f, B, N)
<1> DEFINE Good(f, n) == \A i \in 1..N : i > n => f[i] = B[i][f]
           S == {n \in 0..N : \E f \in [1..N -> T] : Good(f, n)}
<1>1. N \in S
  <2>1. PICK t \in T : TRUE
    OBVIOUS
  <2>2. [i \in 1..N |-> t] \in [1..N -> T]
    OBVIOUS
  <2>3. \A f : Good(f, N)
    OBVIOUS
  <2> HIDE DEF Good
  <2>4. \E f \in [1..N -> T] : Good(f, N)
    BY <2>2, <2>3
  <2> QED BY <2>4
<1>2. S \in SUBSET Nat
  OBVIOUS
<1>3. PICK n \in S : \A m \in S : n <= m
  <2> HIDE DEF S
  <2> QED BY <1>1, <1>2, LeastNatural
<1>4. PICK f \in [1..N -> T] : Good(f, n)
  OBVIOUS
<1>5. n \in 0..N
  OBVIOUS
<1>6. CASE n = 0
  BY <1>4, <1>6 DEF Solves
<1>7. CASE n # 0
  <2> DEFINE g == [f EXCEPT ![n] = B[n][f]]
  <2>1. n \in 1..N /\ n - 1 \in 0..N
    BY <1>5, <1>7
  <2>2. B[n][f] \in T
    BY <2>1 DEF LooksAhead
  <2>3. g \in [1..N -> T]
    BY <2>1, <2>2
  <2>4. \A j \in 1..N : j # n => g[j] = f[j]
    BY <2>1
  <2>5. g[n] = B[n][f]
    BY <2>1
  <2> HIDE DEF g
  <2>6. \A i \in 1..N : i >= n => B[i][f] = B[i][g]
    <3> SUFFICES ASSUME NEW i \in 1..N, i >= n PROVE B[i][f] = B[i][g]
      OBVIOUS
    <3>1. \A j \in 1..N : j > i => f[j] = g[j]
      BY <2>1, <2>4
    <3> QED BY <2>3, <3>1 DEF LooksAhead
  <2>7. \A i \in 1..N : i > n - 1 => g[i] = B[i][g]
    <3> SUFFICES ASSUME NEW i \in 1..N, i > n - 1 PROVE g[i] = B[i][g]
      OBVIOUS
    <3>1. CASE i = n
      BY <2>1, <2>5, <2>6, <3>1
    <3>2. CASE i # n
      <4>1. i > n
        BY <2>1, <3>2
      <4> QED BY <1>4, <2>4, <2>6, <4>1, <3>2
    <3> QED BY <3>1, <3>2
  <2>8. n - 1 \in S
    BY <2>1, <2>3, <2>7
  <2> HIDE DEF S
  <2> QED BY <1>3, <1>5, <2>8
<1> QED BY <1>6, <1>7

-----------------------------------------------------------------------------

\* trim returns a string, and leaves alone one that has no white space.
LEMMA TrimType ==
    ASSUME NEW s \in String
    PROVE  /\ trim(s) \in String
           /\ (\A i \in 1..Len(s) : s[i] # " ") => trim(s) = s
<1> DEFINE ink == {i \in 1..Len(s) : s[i] # " "}
           first == CHOOSE i \in ink : \A j \in ink : i <= j
           last == CHOOSE i \in ink : \A j \in ink : j <= i
<1>1. Len(s) \in Nat /\ s \in Seq(Char)
  BY DEF String
<1>2. ink \in SUBSET (1..Len(s))
  OBVIOUS
<1>3. CASE ink = {}
  <2>1. trim(s) = << >>
    BY <1>3 DEF trim
  <2>2. (\A i \in 1..Len(s) : s[i] # " ") => Len(s) = 0
    <3> SUFFICES ASSUME Len(s) # 0 PROVE \E i \in 1..Len(s) : s[i] = " "
      OBVIOUS
    <3>1. 1 \in 1..Len(s)
      BY <1>1
    <3> QED BY <1>3, <3>1
  <2>3. Len(s) = 0 => s = << >>
    BY <1>1, EmptySeq
  <2> QED BY <2>1, <2>2, <2>3, EmptySeq DEF String
<1>4. CASE ink # {}
  <2>1. /\ first \in ink /\ \A j \in ink : first <= j
        /\ last \in ink /\ \A j \in ink : j <= last
    <3> HIDE DEF ink
    <3> QED BY <1>1, <1>2, <1>4, InkBounds
  <2>2. trim(s) = SubSeq(s, first, last)
    BY <1>4 DEF trim
  <2>3. first \in 1..Len(s) /\ last \in 1..Len(s)
    BY <2>1
  <2> HIDE DEF first, last
  <2>4. trim(s) \in String
    BY <1>1, <2>2, <2>3, SubSeqProperties DEF String
  <2>5. ASSUME \A i \in 1..Len(s) : s[i] # " " PROVE trim(s) = s
    <3>1. ink = 1..Len(s)
      BY <2>5
    <3>2. first = 1 /\ last = Len(s)
      <4> HIDE DEF ink
      <4> QED BY <1>1, <2>1, <2>3, <3>1
    <3> QED BY <1>1, <2>2, <3>2, SubSeqFull
  <2> QED BY <2>4, <2>5
<1> QED BY <1>3, <1>4

\* Normalize returns a lowercase string, and leaves alone a lowercase string
\* that has no white space.
LEMMA NormalizeType ==
    ASSUME NEW s \in String
    PROVE  /\ Normalize(s) \in String
           /\ \A i \in 1..Len(Normalize(s)) : Normalize(s)[i] \notin {"A", "B"}
           /\ (\A i \in 1..Len(s) : s[i] \notin {"A", "B", " "}) => Normalize(s) = s
<1>1. trim(s) \in String
  BY TrimType
<1>2. \A c \in Char : LowerChar[c] \notin {"A", "B"} /\ (c \notin {"A", "B"} => LowerChar[c] = c)
  BY DEF LowerChar, Char
<1>3. \A i \in 1..Len(trim(s)) : trim(s)[i] \in Char
  BY <1>1 DEF String
<1>4. Normalize(s) \in String
  BY <1>1, LowerType DEF Normalize
<1>5. \A i \in 1..Len(Normalize(s)) : Normalize(s)[i] \notin {"A", "B"}
  BY <1>1, <1>2, <1>3, LowerType DEF Normalize
<1>6. ASSUME \A i \in 1..Len(s) : s[i] \notin {"A", "B", " "} PROVE Normalize(s) = s
  <2>1. trim(s) = s
    BY <1>6, TrimType
  <2>2. to_lowercase(s) \in Seq(Char) /\ Len(to_lowercase(s)) = Len(s)
    BY LowerType DEF String
  <2>3. \A i \in 1..Len(s) : to_lowercase(s)[i] = s[i]
    <3> TAKE i \in 1..Len(s)
    <3>1. s[i] \in Char
      BY <1>3, <2>1
    <3>2. LowerChar[s[i]] = s[i]
      BY <1>2, <1>6, <3>1
    <3> QED BY <3>2, LowerType
  <2> QED BY <2>1, <2>2, <2>3, SeqEqual DEF String, Normalize
<1> QED BY <1>4, <1>5, <1>6

\* A key, character by character.
LEMMA KeyType ==
    ASSUME NEW t \in String, NEW nul \in String
    PROVE  /\ Key(t, nul) \in String
           /\ Len(Key(t, nul)) = Len(t) + 1 + Len(nul)
           /\ \A i \in 1..Len(t) : Key(t, nul)[i] = t[i]
           /\ Key(t, nul)[Len(t) + 1] = ":"
           /\ \A i \in 1..Len(nul) : Key(t, nul)[Len(t) + 1 + i] = nul[i]
<1>1. t \in Seq(Char) /\ nul \in Seq(Char) /\ ":" \in Char
  BY DEF String, Char
<1>2. << ":" >> \in Seq(Char) /\ Len(<< ":" >>) = 1 /\ << ":" >>[1] = ":"
  BY <1>1
<1> QED BY <1>1, <1>2 DEF Key, String

\* Loading the store gives back the key that was appended, if the
\* authentication type is plain.
LEMMA ReloadedKey ==
    ASSUME NEW t \in String, PlainType(t), NEW raw \in String,
           ~ Malformed(Normalize(raw))
    PROVE  /\ Normalize(Key(t, Normalize(raw))) = Key(t, Normalize(raw))
           /\ Key(t, Normalize(raw)) # << >>
<1> DEFINE nul == Normalize(raw)
           key == Key(t, nul)
<1>1. nul \in String /\ \A i \in 1..Len(nul) : nul[i] \notin {"A", "B", " "}
  BY NormalizeType DEF Malformed
<1>2. \A i \in 1..Len(t) : t[i] \notin {"A", "B", " "}
  BY DEF PlainType
<1> HIDE DEF nul
<1>0. nul \in String
  BY <1>1
<1>3. Len(t) \in Nat /\ Len(nul) \in Nat
  BY <1>0 DEF String
<1>4. \A i \in 1..Len(key) : key[i] \notin {"A", "B", " "}
  <2> TAKE i \in 1..Len(key)
  <2>1. CASE i \in 1..Len(t)
    BY <1>1, <1>2, <2>1, KeyType
  <2>2. CASE i = Len(t) + 1
    BY <1>1, <2>2, KeyType
  <2>3. CASE i \notin 1..Len(t) /\ i # Len(t) + 1
    <3>1. Len(key) = Len(t) + 1 + Len(nul)
      BY <1>1, KeyType
    <3> HIDE DEF key
    <3>2. PICK j \in 1..Len(nul) : i = Len(t) + 1 + j
      <4>1. i - Len(t) - 1 \in 1..Len(nul) /\ i = Len(t) + 1 + (i - Len(t) - 1)
        BY <1>3, <2>3, <3>1
      <4> QED BY <4>1
    <3>3. key[i] = nul[j]
      BY <1>1, <3>2, KeyType DEF key
    <3> QED BY <1>1, <3>3
  <2> QED BY <2>1, <2>2, <2>3
<1>5. key \in String /\ Len(key) # 0
  <2>1. key \in String /\ Len(key) = Len(t) + 1 + Len(nul)
    BY <1>0, KeyType
  <2> HIDE DEF key
  <2> QED BY <1>3, <2>1
<1>6. Normalize(key) = key
  <2> HIDE DEF key
  <2> QED BY <1>4, <1>5, NormalizeType
<1>7. key # << >>
  <2> HIDE DEF key
  <2> QED BY <1>5
<1> QED BY <1>6, <1>7 DEF nul

\* A key belongs to one credential, if the authentication types are plain.
LEMMA KeyInjective ==
    ASSUME NEW t \in String, PlainType(t), NEW u \in String, PlainType(u),
           NEW n \in String, NEW m \in String, Key(t, n) = Key(u, m)
    PROVE  t = u /\ n = m
<1>1. /\ t \in Seq(Char) /\ u \in Seq(Char) /\ n \in Seq(Char) /\ m \in Seq(Char)
      /\ Len(t) \in Nat /\ Len(u) \in Nat /\ Len(n) \in Nat /\ Len(m) \in Nat
  BY DEF String
<1> DEFINE key == Key(t, n)
<1>2. /\ Len(key) = Len(t) + 1 + Len(n)
      /\ \A i \in 1..Len(t) : key[i] = t[i]
      /\ key[Len(t) + 1] = ":"
      /\ \A i \in 1..Len(n) : key[Len(t) + 1 + i] = n[i]
  BY KeyType
<1>3. /\ Len(key) = Len(u) + 1 + Len(m)
      /\ \A i \in 1..Len(u) : key[i] = u[i]
      /\ key[Len(u) + 1] = ":"
      /\ \A i \in 1..Len(m) : key[Len(u) + 1 + i] = m[i]
  <2>1. key = Key(u, m)
    OBVIOUS
  <2> HIDE DEF key
  <2> QED BY <2>1, KeyType, ZenonT(60)
<1> HIDE DEF key
<1>4. ~ (Len(t) < Len(u))
  <2> SUFFICES ASSUME Len(t) < Len(u) PROVE FALSE
    OBVIOUS
  <2>1. Len(t) + 1 \in 1..Len(u)
    BY <1>1
  <2>2. u[Len(t) + 1] = ":"
    BY <1>2, <1>3, <2>1
  <2> QED BY <2>1, <2>2 DEF PlainType
<1>5. ~ (Len(u) < Len(t))
  <2> SUFFICES ASSUME Len(u) < Len(t) PROVE FALSE
    OBVIOUS
  <2>1. Len(u) + 1 \in 1..Len(t)
    BY <1>1
  <2>2. t[Len(u) + 1] = ":"
    BY <1>2, <1>3, <2>1
  <2> QED BY <2>1, <2>2 DEF PlainType
<1>6. Len(t) = Len(u)
  BY <1>1, <1>4, <1>5
<1>7. Len(n) = Len(m)
  BY <1>1, <1>2, <1>3, <1>6
<1>8. \A i \in 1..Len(t) : t[i] = u[i]
  BY <1>2, <1>3, <1>6
<1>9. \A i \in 1..Len(n) : n[i] = m[i]
  BY <1>2, <1>3, <1>6, <1>7
<1> QED BY <1>1, <1>6, <1>7, <1>8, <1>9, SeqEqual

=============================================================================
