----------------------------- MODULE HashProofs -----------------------------
(* Theorems about the table of chains of hash.c, for every hash function, first
   size, number of keys and of changes during an enumeration.

   The invariant IInv says of the table that every node is on the chain of its
   hash and there once (Shape), and of a scan what lies ahead of it (Ahead: the
   nodes it has still to return), what does not (Behind: the nodes it has
   returned), and, when the table is being cleared, that the chains before it
   are empty (Emptied).  The order of two nodes on a chain (Before) is what an
   insertion, a deletion and the tacking of chains onto others leave alone, and
   what turning a chain around (grow_table) does not. *)
EXTENDS Hash, FiniteSetTheorems, SequenceTheorems, WellFoundedInduction, TLAPS

\* Strong induction, for sets of numbers.
LEMMA StrongInd ==
  ASSUME NEW S, \A n \in Nat : (\A m \in Nat : m < n => m \in S) => n \in S
  PROVE  Nat \subseteq S
<1>. DEFINE R == {xy \in Nat \X Nat : xy[1] < xy[2]}
            T == Nat \ S
<1>. SUFFICES ASSUME T # {} PROVE FALSE
  OBVIOUS
<1>1. IsWellFoundedOn(R, Nat)
  BY NatLessThanWellFounded DEF OpToRel
<1>2. T \subseteq Nat /\ T # {}
  OBVIOUS
<1>. HIDE DEF R, T
<1>3. PICK m \in T : \A y \in T : ~(<<y, m>> \in R)
  BY <1>1, <1>2, WFMin
<1>. USE DEF R, T
<1>4. \A y \in Nat : y < m => y \in S
  BY <1>3
<1>. QED
  BY <1>3, <1>4

-----------------------------------------------------------------------------
(* Masks: remainders of the hash                                           *)

\* What a remainder and a quotient are.
LEMMA ModIs ==
  ASSUME NEW n \in Nat, n > 0, NEW x \in Nat
  PROVE  x % n \in 0..(n - 1) /\ x \div n \in Nat /\ x = n * (x \div n) + (x % n)
OBVIOUS

\* A remainder is known by its range.
LEMMA ModUnique ==
  ASSUME NEW n \in Nat, n > 0, NEW q \in Nat, NEW r \in 0..(n - 1), NEW x, x = n * q + r
  PROVE  x % n = r
OBVIOUS

\* The bit that the mask of 2n chains exposes, and that of n does not.
LEMMA ModSplit ==
  ASSUME NEW n \in Nat, n > 0, NEW x \in Nat
  PROVE  /\ (x \div n) % 2 = 1 => x % (2 * n) = (x % n) + n
         /\ (x \div n) % 2 # 1 => x % (2 * n) = x % n
<1>. DEFINE r == x % n
            d == x \div n
            q == d \div 2
            m == 2 * n
<1>1. r \in 0..(n - 1) /\ d \in Nat /\ x = n * d + r
  BY ModIs
<1>. HIDE DEF r, d
<1>2. q \in Nat /\ d % 2 \in {0, 1} /\ d = 2 * q + (d % 2)
  BY <1>1
<1>. HIDE DEF q
<1>3. m \in Nat /\ m > 0
  OBVIOUS
<1>4. m * q = n * (2 * q)
  BY <1>2
<1>5. ASSUME d % 2 = 1 PROVE x % m = r + n
  <2>1. n * (2 * q + 1) = n * (2 * q) + n
    BY <1>2
  <2>2. n * (2 * q) \in Nat
    BY <1>2
  <2>3. x = n * (2 * q) + n + r
    BY <1>1, <1>2, <1>5, <2>1
  <2>. DEFINE t == r + n
  <2>4. x = m * q + t
    BY <1>1, <1>4, <2>2, <2>3
  <2>5. t \in 0..(m - 1)
    BY <1>1
  <2>. HIDE DEF m, t
  <2>6. x % m = t
    BY <1>2, <1>3, <2>4, <2>5, ModUnique
  <2>. QED
    BY <2>6 DEF t
<1>6. ASSUME d % 2 # 1 PROVE x % m = r
  <2>1. x = n * (2 * q) + r
    BY <1>1, <1>2, <1>6
  <2>2. x = m * q + r
    BY <1>4, <2>1
  <2>3. r \in 0..(m - 1)
    BY <1>1
  <2>. HIDE DEF m
  <2>. QED
    BY <1>2, <1>3, <2>2, <2>3, ModUnique
<1>. QED
  BY <1>5, <1>6 DEF r, d, m

\* The chain of a hash when there are m chains, by that when there were 2m.
LEMMA ModHalf ==
  ASSUME NEW m \in Nat, m > 0, NEW x \in Nat
  PROVE  /\ x % (2 * m) < m => x % m = x % (2 * m)
         /\ x % (2 * m) >= m => x % m = (x % (2 * m)) - m
<1>1. x % m \in 0..(m - 1)
  BY ModIs
<1>2. x % (2 * m) = (x % m) + m \/ x % (2 * m) = x % m
  BY ModSplit
<1>. DEFINE a == x % m
            b == x % (2 * m)
<1>. HIDE DEF a, b
<1>3. a \in 0..(m - 1) /\ (b = a + m \/ b = a)
  BY <1>1, <1>2 DEF a, b
<1>4. /\ b < m => a = b
      /\ b >= m => a = b - m
  BY <1>3
<1>. QED
  BY <1>4 DEF a, b

-----------------------------------------------------------------------------
(* Chains                                                                  *)

\* a comes before b in the chain s.
Before(s, a, b) == \E i, j \in DOMAIN s : i < j /\ s[i] = a /\ s[j] = b

\* A chain of the table: no node twice.
Chain == {s \in Seq(Key) : IsInjective(s)}

\* The nodes of a chain, and their order, by their places.
LEMMA ChainIs ==
  ASSUME NEW s \in Chain
  PROVE  /\ s \in Seq(Key) /\ Len(s) \in Nat /\ DOMAIN s = 1..Len(s)
         /\ \A i \in 1..Len(s) : s[i] \in Key /\ s[i] \in ToSet(s)
         /\ \A k : k \in ToSet(s) <=> \E i \in 1..Len(s) : s[i] = k
         /\ ToSet(s) \subseteq Key
         /\ \A i, j \in 1..Len(s) : s[i] = s[j] => i = j
         /\ \A a, b : Before(s, a, b) <=>
              \E i, j \in 1..Len(s) : i < j /\ s[i] = a /\ s[j] = b
<1>1. s \in Seq(Key) /\ Len(s) \in Nat /\ DOMAIN s = 1..Len(s)
  BY DEF Chain
<1>2. \A i, j \in 1..Len(s) : s[i] = s[j] => i = j
  BY <1>1 DEF Chain, IsInjective
<1>3. \A i \in 1..Len(s) : s[i] \in Key
  BY <1>1, ElementOfSeq
<1>. QED
  BY <1>1, <1>2, <1>3 DEF ToSet, Before

\* A chain is known by its nodes and their places.
LEMMA IsChain ==
  ASSUME NEW s \in Seq(Key), \A i, j \in 1..Len(s) : s[i] = s[j] => i = j
  PROVE  s \in Chain
<1>1. DOMAIN s = 1..Len(s)
  OBVIOUS
<1>. QED
  BY <1>1 DEF Chain, IsInjective

\* Nodes go in front of a chain.
LEMMA PushIs ==
  ASSUME NEW s \in Chain, NEW k \in Key, k \notin ToSet(s)
  PROVE  /\ <<k>> \o s \in Chain
         /\ ToSet(<<k>> \o s) = ToSet(s) \cup {k}
         /\ \A a, b : Before(<<k>> \o s, a, b) => b # k /\ (Before(s, a, b) \/ a = k)
<1>. DEFINE t == <<k>> \o s
            n == Len(s)
<1>1. /\ s \in Seq(Key) /\ n \in Nat /\ \A i \in 1..n : s[i] \in Key /\ s[i] \in ToSet(s)
      /\ \A i, j \in 1..n : s[i] = s[j] => i = j
      /\ \A x : x \in ToSet(s) <=> \E i \in 1..n : s[i] = x
      /\ \A a, b : Before(s, a, b) <=> \E i, j \in 1..n : i < j /\ s[i] = a /\ s[j] = b
  BY ChainIs
<1>2. <<k>> \in Seq(Key) /\ Len(<<k>>) = 1 /\ <<k>>[1] = k
  OBVIOUS
<1>3. /\ t \in Seq(Key) /\ Len(t) = n + 1
      /\ \A i \in 1..(n + 1) : t[i] = IF i = 1 THEN k ELSE s[i - 1]
  BY <1>1, <1>2, ConcatProperties
<1>. HIDE DEF t, n
<1>4. /\ t[1] = k
      /\ \A i \in 2..(n + 1) : i - 1 \in 1..n /\ t[i] = s[i - 1] /\ t[i] \in ToSet(s)
  BY <1>1, <1>3
<1>5. \A i, j \in 1..(n + 1) : t[i] = t[j] => i = j
  <2>1. ASSUME NEW i \in 2..(n + 1), NEW j \in 2..(n + 1), t[i] = t[j] PROVE i = j
    <3>1. i - 1 = j - 1
      BY <1>1, <1>4, <2>1
    <3>. QED
      BY <1>1, <3>1
  <2>2. \A i \in 2..(n + 1) : t[i] # t[1]
    BY <1>4
  <2>3. \A i \in 1..(n + 1) : i = 1 \/ i \in 2..(n + 1)
    BY <1>1
  <2>. QED
    BY <2>1, <2>2, <2>3
<1>6. t \in Chain
  BY <1>3, <1>5, IsChain
<1>7. \A x : x \in ToSet(t) <=> \E i \in 1..(n + 1) : t[i] = x
  BY <1>3, <1>6, ChainIs
<1>8. \A x : x \in ToSet(s) => x \in ToSet(t)
  <2>1. ASSUME NEW i \in 1..n PROVE s[i] \in ToSet(t)
    <3>1. i + 1 \in 2..(n + 1) /\ i + 1 \in 1..(n + 1) /\ (i + 1) - 1 = i
      BY <1>1
    <3>2. t[i + 1] = s[i]
      BY <1>4, <3>1
    <3>. QED
      BY <1>7, <3>1, <3>2
  <2>. QED
    BY <1>1, <2>1
<1>9. \A x : x \in ToSet(t) => x \in ToSet(s) \/ x = k
  BY <1>1, <1>4, <1>7
<1>10. k \in ToSet(t)
  BY <1>1, <1>4, <1>7
<1>11. ToSet(t) = ToSet(s) \cup {k}
  BY <1>8, <1>9, <1>10
<1>12. ASSUME NEW a, NEW b, Before(t, a, b) PROVE b # k /\ (Before(s, a, b) \/ a = k)
  <2>1. PICK i, j \in 1..(n + 1) : i < j /\ t[i] = a /\ t[j] = b
    BY <1>3, <1>6, <1>12, ChainIs
  <2>2. j \in 2..(n + 1) /\ j - 1 \in 1..n /\ b = s[j - 1] /\ b \in ToSet(s)
    BY <1>1, <1>4, <2>1
  <2>3. CASE i = 1
    BY <1>4, <2>1, <2>2, <2>3
  <2>4. CASE i # 1
    <3>1. i \in 2..(n + 1) /\ i - 1 \in 1..n /\ a = s[i - 1] /\ i - 1 < j - 1
      BY <1>1, <1>4, <2>1, <2>4
    <3>. QED
      BY <1>1, <2>2, <3>1
  <2>. QED
    BY <2>3, <2>4
<1>. QED
  BY <1>6, <1>11, <1>12 DEF t

\* One chain behind another.
LEMMA JoinIs ==
  ASSUME NEW s \in Chain, NEW t \in Chain, ToSet(s) \cap ToSet(t) = {}
  PROVE  /\ s \o t \in Chain
         /\ ToSet(s \o t) = ToSet(s) \cup ToSet(t)
         /\ \A a, b : Before(s \o t, a, b) =>
              \/ Before(s, a, b) \/ Before(t, a, b)
              \/ a \in ToSet(s) /\ b \in ToSet(t)
<1>. DEFINE u == s \o t
            m == Len(s)
            n == Len(t)
<1>1. /\ s \in Seq(Key) /\ m \in Nat /\ \A i \in 1..m : s[i] \in ToSet(s)
      /\ \A i, j \in 1..m : s[i] = s[j] => i = j
      /\ \A x : x \in ToSet(s) <=> \E i \in 1..m : s[i] = x
      /\ \A a, b : Before(s, a, b) <=> \E i, j \in 1..m : i < j /\ s[i] = a /\ s[j] = b
  BY ChainIs
<1>2. /\ t \in Seq(Key) /\ n \in Nat /\ \A i \in 1..n : t[i] \in ToSet(t)
      /\ \A i, j \in 1..n : t[i] = t[j] => i = j
      /\ \A x : x \in ToSet(t) <=> \E i \in 1..n : t[i] = x
      /\ \A a, b : Before(t, a, b) <=> \E i, j \in 1..n : i < j /\ t[i] = a /\ t[j] = b
  BY ChainIs
<1>3. /\ u \in Seq(Key) /\ Len(u) = m + n
      /\ \A i \in 1..(m + n) : u[i] = IF i <= m THEN s[i] ELSE t[i - m]
  BY <1>1, <1>2, ConcatProperties
<1>. HIDE DEF u, m, n
<1>4. /\ \A i \in 1..(m + n) : i <= m => i \in 1..m /\ u[i] = s[i] /\ u[i] \in ToSet(s)
      /\ \A i \in 1..(m + n) : i > m => i - m \in 1..n /\ u[i] = t[i - m] /\ u[i] \in ToSet(t)
  BY <1>1, <1>2, <1>3
<1>5. ASSUME NEW i \in 1..(m + n), NEW j \in 1..(m + n), u[i] = u[j] PROVE i = j
  <2>1. CASE i <= m /\ j <= m
    BY <1>1, <1>4, <1>5, <2>1
  <2>2. CASE i > m /\ j > m
    <3>1. i - m = j - m
      BY <1>2, <1>4, <1>5, <2>2
    <3>. QED
      BY <1>1, <1>2, <3>1
  <2>3. ~(i <= m /\ j > m) /\ ~(j <= m /\ i > m)
    BY <1>4, <1>5
  <2>. QED
    BY <1>1, <1>2, <2>1, <2>2, <2>3
<1>6. u \in Chain
  BY <1>3, <1>5, IsChain
<1>7. \A x : x \in ToSet(u) <=> \E i \in 1..(m + n) : u[i] = x
  BY <1>3, <1>6, ChainIs
<1>8. ASSUME NEW i \in 1..m PROVE s[i] \in ToSet(u)
  <2>1. i \in 1..(m + n) /\ i <= m
    BY <1>1, <1>2
  <2>. QED
    BY <1>4, <1>7, <2>1
<1>9. ASSUME NEW i \in 1..n PROVE t[i] \in ToSet(u)
  <2>1. m + i \in 1..(m + n) /\ m + i > m /\ (m + i) - m = i
    BY <1>1, <1>2
  <2>. QED
    BY <1>4, <1>7, <2>1
<1>10. \A i \in 1..(m + n) : u[i] \in ToSet(s) \cup ToSet(t)
  BY <1>1, <1>2, <1>4
<1>11. ToSet(u) = ToSet(s) \cup ToSet(t)
  BY <1>1, <1>2, <1>7, <1>8, <1>9, <1>10
<1>12. ASSUME NEW a, NEW b, Before(u, a, b)
       PROVE  \/ Before(s, a, b) \/ Before(t, a, b)
              \/ a \in ToSet(s) /\ b \in ToSet(t)
  <2>1. PICK i, j \in 1..(m + n) : i < j /\ u[i] = a /\ u[j] = b
    BY <1>3, <1>6, <1>12, ChainIs
  <2>2. CASE i <= m /\ j <= m
    BY <1>1, <1>4, <2>1, <2>2
  <2>3. CASE i > m /\ j > m
    <3>1. i - m \in 1..n /\ j - m \in 1..n /\ t[i - m] = a /\ t[j - m] = b
      BY <1>4, <2>1, <2>3
    <3>2. i - m < j - m
      BY <1>1, <1>2, <2>1
    <3>. QED
      BY <1>2, <3>1, <3>2
  <2>4. CASE i <= m /\ j > m
    BY <1>4, <2>1, <2>4
  <2>. QED
    BY <1>1, <1>2, <2>1, <2>2, <2>3, <2>4
<1>. QED
  BY <1>6, <1>11, <1>12 DEF u

\* A node is unlinked.
LEMMA CutIs ==
  ASSUME NEW s \in Chain, NEW k \in ToSet(s)
  PROVE  /\ RemoveFirst(s, k) \in Chain
         /\ ToSet(RemoveFirst(s, k)) = ToSet(s) \ {k}
         /\ \A a, b : Before(RemoveFirst(s, k), a, b) => Before(s, a, b) /\ a # k /\ b # k
         /\ s[1] = k => /\ Len(RemoveFirst(s, k)) = Len(s) - 1
                        /\ \A i \in 1..(Len(s) - 1) : RemoveFirst(s, k)[i] = s[i + 1]
<1>. DEFINE r == RemoveFirst(s, k)
            n == Len(s)
<1>1. /\ s \in Seq(Key) /\ n \in Nat /\ \A i \in 1..n : s[i] \in Key /\ s[i] \in ToSet(s)
      /\ \A i, j \in 1..n : s[i] = s[j] => i = j
      /\ \A x : x \in ToSet(s) <=> \E i \in 1..n : s[i] = x
      /\ \A a, b : Before(s, a, b) <=> \E i, j \in 1..n : i < j /\ s[i] = a /\ s[j] = b
  BY ChainIs
<1>2. PICK at \in 1..n : s[at] = k
  BY <1>1
<1>3. r = SubSeq(s, 1, at - 1) \o SubSeq(s, at + 1, n)
  <2>. DEFINE I == {i \in 1..n : s[i] = k}
  <2>1. I = {at}
    BY <1>1, <1>2
  <2>2. SelectInSeq(s, LAMBDA v : v = k) = IF I # {} THEN Min(I) ELSE 0
    BY DEF SelectInSeq
  <2>. HIDE DEF I
  <2>3. Min(I) = at
    BY <1>1, <2>1 DEF Min
  <2>4. SelectInSeq(s, LAMBDA v : v = k) = at
    BY <2>1, <2>2, <2>3
  <2>. QED
    BY <1>2, <2>4 DEF RemoveFirst, RemoveAt
<1>. HIDE DEF r, n
<1>4. /\ r \in Seq(Key) /\ Len(r) = n - 1 /\ n >= 1
      /\ \A i \in 1..(n - 1) : r[i] = IF i < at THEN s[i] ELSE s[i + 1]
  <2>. DEFINE u == SubSeq(s, 1, at - 1)
              v == SubSeq(s, at + 1, n)
  <2>1. /\ u \in Seq(Key) /\ Len(u) = at - 1
        /\ \A i \in 1..(at - 1) : u[i] = s[i]
    <3>1. \A i \in 1..(at - 1) : s[i] \in Key
      BY <1>1
    <3>. QED
      BY <1>1, <3>1, SubSeqProperties
  <2>2. /\ v \in Seq(Key) /\ Len(v) = n - at
        /\ \A i \in 1..(n - at) : v[i] = s[at + i]
    <3>1. \A i \in (at + 1)..n : s[i] \in Key
      BY <1>1
    <3>2. /\ v \in Seq(Key) /\ Len(v) = IF at + 1 <= n THEN n - (at + 1) + 1 ELSE 0
          /\ \A i \in 1..(n - (at + 1) + 1) : v[i] = s[(at + 1) + i - 1]
      BY <1>1, <3>1, SubSeqProperties
    <3>3. Len(v) = n - at /\ n - (at + 1) + 1 = n - at
      BY <1>1, <3>2
    <3>4. \A i \in 1..(n - at) : (at + 1) + i - 1 = at + i
      BY <1>1
    <3>. QED
      BY <3>2, <3>3, <3>4
  <2>. HIDE DEF u, v
  <2>3. r = u \o v
    BY <1>3 DEF u, v
  <2>4. /\ r \in Seq(Key) /\ Len(r) = Len(u) + Len(v)
        /\ \A i \in 1..(Len(u) + Len(v)) : r[i] = IF i <= Len(u) THEN u[i] ELSE v[i - Len(u)]
    BY <2>1, <2>2, <2>3, ConcatProperties
  <2>5. Len(u) + Len(v) = n - 1 /\ n >= 1
    BY <1>1, <2>1, <2>2
  <2>6. ASSUME NEW i \in 1..(n - 1) PROVE r[i] = IF i < at THEN s[i] ELSE s[i + 1]
    <3>1. CASE i < at
      <4>1. i <= Len(u) /\ i \in 1..(at - 1)
        BY <1>1, <2>1, <3>1
      <4>. QED
        BY <2>1, <2>4, <2>5, <3>1, <4>1
    <3>2. CASE ~(i < at)
      <4>1. ~(i <= Len(u)) /\ i - Len(u) \in 1..(n - at) /\ at + (i - Len(u)) = i + 1
        BY <1>1, <2>1, <3>2
      <4>. QED
        BY <2>2, <2>4, <2>5, <3>2, <4>1
    <3>. QED
      BY <3>1, <3>2
  <2>. QED
    BY <2>4, <2>5, <2>6
<1>. DEFINE f(i) == IF i < at THEN i ELSE i + 1
<1>5. \A i \in 1..(n - 1) : f(i) \in 1..n /\ f(i) # at /\ r[i] = s[f(i)]
  BY <1>1, <1>4
<1>6. \A i, j \in 1..(n - 1) : (f(i) = f(j) => i = j) /\ (i < j => f(i) < f(j))
  BY <1>1
<1>7. \A i \in 1..n : i # at => \E j \in 1..(n - 1) : f(j) = i
  <2>1. ASSUME NEW i \in 1..n, i # at PROVE \E j \in 1..(n - 1) : f(j) = i
    <3>1. CASE i < at
      <4>1. i \in 1..(n - 1) /\ f(i) = i
        BY <1>1, <3>1
      <4>. QED
        BY <4>1
    <3>2. CASE i > at
      <4>1. i - 1 \in 1..(n - 1) /\ f(i - 1) = i
        BY <1>1, <3>2
      <4>. QED
        BY <4>1
    <3>. QED
      BY <1>1, <2>1, <3>1, <3>2
  <2>. QED
    BY <2>1
<1>. HIDE DEF f
<1>8. \A i, j \in 1..(n - 1) : r[i] = r[j] => i = j
  BY <1>1, <1>5, <1>6
<1>9. r \in Chain
  BY <1>4, <1>8, IsChain
<1>10. \A x : x \in ToSet(r) <=> \E i \in 1..(n - 1) : r[i] = x
  BY <1>4, <1>9, ChainIs
<1>11. ToSet(r) = ToSet(s) \ {k}
  <2>1. ASSUME NEW x \in ToSet(r) PROVE x \in ToSet(s) /\ x # k
    BY <1>1, <1>2, <1>5, <1>10
  <2>2. ASSUME NEW x \in ToSet(s), x # k PROVE x \in ToSet(r)
    <3>1. PICK i \in 1..n : s[i] = x /\ i # at
      BY <1>1, <1>2, <2>2
    <3>. QED
      BY <1>5, <1>7, <1>10, <3>1
  <2>. QED
    BY <2>1, <2>2
<1>12. ASSUME NEW a, NEW b, Before(r, a, b) PROVE Before(s, a, b) /\ a # k /\ b # k
  <2>1. PICK i, j \in 1..(n - 1) : i < j /\ r[i] = a /\ r[j] = b
    BY <1>4, <1>9, <1>12, ChainIs
  <2>2. f(i) \in 1..n /\ f(j) \in 1..n /\ f(i) < f(j) /\ s[f(i)] = a /\ s[f(j)] = b
    BY <1>5, <1>6, <2>1
  <2>3. f(i) # at /\ f(j) # at
    BY <1>5, <2>1
  <2>. QED
    BY <1>1, <1>2, <2>2, <2>3
<1>13. ASSUME s[1] = k PROVE \A i \in 1..(n - 1) : r[i] = s[i + 1]
  <2>1. at = 1
    BY <1>1, <1>2, <1>4, <1>13
  <2>. QED
    BY <1>4, <2>1
<1>. QED
  BY <1>4, <1>9, <1>11, <1>12, <1>13 DEF r, n

\* The loop of grow_table builds a sequence for every part of the chain.
PushLoop(s, T, f) ==
  /\ f \in [0..Len(s) -> Seq(Key)]
  /\ f[0] = <<>> /\ Pushed(s, T) = f[Len(s)]
  /\ \A i \in 1..Len(s) : f[i] = IF s[i] \in T THEN <<s[i]>> \o f[i - 1] ELSE f[i - 1]

\* Pushed is computed by such a sequence of lists.
LEMMA PushedRec ==
  ASSUME NEW s \in Seq(Key), NEW T
  PROVE  \E f : PushLoop(s, T, f)
<1>. DEFINE n == Len(s)
            G(f, i) == IF i = 0 THEN <<>>
                       ELSE IF s[i] \in T THEN <<s[i]>> \o f[i - 1] ELSE f[i - 1]
            F(f) == f = [i \in 0..n |-> G(f, i)]
            S == {m \in Nat : m <= n => \E f \in [0..m -> Seq(Key)] :
                                          \A i \in 0..m : f[i] = G(f, i)}
<1>1. n \in Nat /\ \A i \in 1..n : <<s[i]>> \in Seq(Key)
  <2>1. \A i \in 1..n : s[i] \in Key
    BY ElementOfSeq
  <2>. QED
    BY <2>1
<1>2. 0 \in S
  <2>. DEFINE f == [i \in 0..0 |-> <<>>]
  <2>1. f \in [0..0 -> Seq(Key)]
    BY EmptySeq
  <2>2. \A i \in 0..0 : f[i] = G(f, i)
    OBVIOUS
  <2>. HIDE DEF f, G
  <2>. QED
    BY <2>1, <2>2
<1>3. ASSUME NEW m \in Nat, m \in S PROVE m + 1 \in S
  <2>. SUFFICES ASSUME m + 1 <= n
                PROVE  \E f \in [0..(m + 1) -> Seq(Key)] :
                         \A i \in 0..(m + 1) : f[i] = G(f, i)
    OBVIOUS
  <2>1. PICK g \in [0..m -> Seq(Key)] : \A i \in 0..m : g[i] = G(g, i)
    BY <1>1, <1>3
  <2>. DEFINE e == IF s[m + 1] \in T THEN <<s[m + 1]>> \o g[m] ELSE g[m]
              f == [i \in 0..(m + 1) |-> IF i = m + 1 THEN e ELSE g[i]]
  <2>2. e \in Seq(Key)
    <3>1. g[m] \in Seq(Key) /\ <<s[m + 1]>> \in Seq(Key)
      BY <1>1
    <3>. QED
      BY <3>1, ConcatProperties
  <2>. HIDE DEF e
  <2>3. f \in [0..(m + 1) -> Seq(Key)]
    BY <2>2
  <2>4. \A i \in 0..m : f[i] = g[i]
    OBVIOUS
  <2>5. ASSUME NEW i \in 0..m PROVE f[i] = G(f, i)
    <3>1. i # 0 => i - 1 \in 0..m
      OBVIOUS
    <3>2. i # 0 => f[i - 1] = g[i - 1]
      BY <2>4, <3>1
    <3>3. f[i] = g[i] /\ g[i] = G(g, i)
      BY <2>1, <2>4
    <3>. HIDE DEF f
    <3>. QED
      BY <3>2, <3>3
  <2>6. f[m + 1] = G(f, m + 1)
    <3>1. f[m + 1] = e /\ f[m] = g[m] /\ (m + 1) - 1 = m /\ m + 1 # 0
      OBVIOUS
    <3>. HIDE DEF f
    <3>. QED
      BY <3>1 DEF e
  <2>7. \A i \in 0..(m + 1) : i \in 0..m \/ i = m + 1
    OBVIOUS
  <2>. HIDE DEF f, G
  <2>8. \A i \in 0..(m + 1) : f[i] = G(f, i)
    BY <2>5, <2>6, <2>7
  <2>. QED
    BY <2>3, <2>8
<1>4. n \in S
  <2>. HIDE DEF S
  <2>1. ASSUME NEW k \in Nat, \A m \in Nat : m < k => m \in S PROVE k \in S
    <3>1. CASE k = 0
      BY <3>1, <1>2
    <3>2. CASE k > 0
      <4>. DEFINE j == k - 1
      <4>1. j \in Nat /\ j < k /\ j + 1 = k
        BY <3>2
      <4>. HIDE DEF j
      <4>2. j \in S
        BY <4>1, <2>1
      <4>3. j + 1 \in S
        BY <4>1, <4>2, <1>3
      <4>. QED
        BY <4>1, <4>3
    <3>. QED
      BY <3>1, <3>2
  <2>2. Nat \subseteq S
    BY <2>1, StrongInd
  <2>. QED
    BY <1>1, <2>2
<1>5. PICK f \in [0..n -> Seq(Key)] : \A i \in 0..n : f[i] = G(f, i)
  BY <1>1, <1>4
<1>6. F(f)
  <2>1. f = [i \in 0..n |-> f[i]]
    OBVIOUS
  <2>. HIDE DEF G
  <2>. QED
    BY <1>5, <2>1
<1>7. Pushed(s, T) = (CHOOSE g : F(g))[n]
  BY DEF Pushed
<1>. HIDE DEF F
<1>8. F(CHOOSE g : F(g))
  BY <1>6
<1>. DEFINE g == CHOOSE x : F(x)
<1>. HIDE DEF g
<1>9. F(g) /\ Pushed(s, T) = g[n]
  BY <1>7, <1>8 DEF g
<1>10. \A i \in 0..n : g[i] = G(g, i)
  <2>. HIDE DEF G
  <2>. QED
    BY <1>9 DEF F
<1>11. /\ g[0] = <<>>
       /\ \A i \in 1..n : g[i] = IF s[i] \in T THEN <<s[i]>> \o g[i - 1] ELSE g[i - 1]
  <2>1. 0 \in 0..n /\ \A i \in 1..n : i \in 0..n /\ i # 0
    BY <1>1
  <2>2. g[0] = G(g, 0) /\ \A i \in 1..n : g[i] = G(g, i)
    BY <1>10, <2>1
  <2>. QED
    BY <2>1, <2>2
<1>12. g \in [0..n -> Seq(Key)]
  <2>. DEFINE V == {m \in Nat : m <= n => g[m] \in Seq(Key)}
  <2>1. ASSUME NEW k \in Nat, \A m \in Nat : m < k => m \in V PROVE k \in V
    <3>. SUFFICES ASSUME k <= n PROVE g[k] \in Seq(Key)
      OBVIOUS
    <3>1. CASE k = 0
      BY <3>1, <1>11, EmptySeq
    <3>2. CASE k > 0
      <4>1. k - 1 \in Nat /\ k - 1 < k /\ k \in 1..n /\ k - 1 <= n
        BY <1>1, <3>2
      <4>2. g[k - 1] \in Seq(Key)
        BY <2>1, <4>1
      <4>. QED
        BY <1>1, <1>11, <4>1, <4>2, ConcatProperties
    <3>. QED
      BY <3>1, <3>2
  <2>2. Nat \subseteq V
    <3>. HIDE DEF V
    <3>. QED
      BY <2>1, StrongInd
  <2>3. \A m \in 0..n : g[m] \in Seq(Key)
    BY <1>1, <2>2
  <2>4. g = [i \in 0..n |-> g[i]]
    BY <1>9 DEF F
  <2>. QED
    BY <2>3, <2>4
<1>. QED
  BY <1>9, <1>11, <1>12 DEF PushLoop

\* The loop keeps the nodes with keys in T, each once.
LEMMA PushedIs ==
  ASSUME NEW s \in Chain, NEW T
  PROVE  /\ Pushed(s, T) \in Chain
         /\ ToSet(Pushed(s, T)) = ToSet(s) \cap T
<1>9. s \in Seq(Key)
  BY DEF Chain
<1>0. PICK f : PushLoop(s, T, f)
  BY <1>9, PushedRec
<1>. DEFINE n == Len(s)
<1>1. /\ s \in Seq(Key) /\ n \in Nat /\ \A i \in 1..n : s[i] \in Key /\ s[i] \in ToSet(s)
      /\ \A i, j \in 1..n : s[i] = s[j] => i = j
      /\ \A x : x \in ToSet(s) <=> \E i \in 1..n : s[i] = x
  BY ChainIs
<1>2. /\ f[0] = <<>> /\ Pushed(s, T) = f[n]
      /\ \A i \in 1..n : f[i] = IF s[i] \in T THEN <<s[i]>> \o f[i - 1] ELSE f[i - 1]
  BY <1>0 DEF PushLoop
<1>. DEFINE P(i) == {s[j] : j \in 1..i} \cap T
            S == {i \in Nat : i <= n => f[i] \in Chain /\ ToSet(f[i]) = P(i)}
<1>. HIDE DEF n
<1>3. ASSUME NEW k \in Nat, \A m \in Nat : m < k => m \in S PROVE k \in S
  <2>. SUFFICES ASSUME k <= n PROVE f[k] \in Chain /\ ToSet(f[k]) = P(k)
    OBVIOUS
  <2>1. CASE k = 0
    <3>1. f[k] = <<>> /\ P(k) = {}
      BY <1>2, <2>1
    <3>2. <<>> \in Seq(Key) /\ Len(<<>>) = 0 /\ DOMAIN <<>> = 1..0
      BY EmptySeq
    <3>3. <<>> \in Chain
      <4>1. \A i \in 1..0 : FALSE
        OBVIOUS
      <4>. QED
        BY <3>2, <4>1, IsChain
    <3>4. \A x : x \notin ToSet(<<>>)
      BY <3>2, <3>3, ChainIs
    <3>. QED
      BY <3>1, <3>3, <3>4
  <2>2. CASE k > 0
    <3>1. k - 1 \in Nat /\ k - 1 < k /\ k - 1 <= n /\ k \in 1..n
      BY <1>1, <2>2
    <3>2. f[k - 1] \in Chain /\ ToSet(f[k - 1]) = P(k - 1)
      BY <1>3, <3>1
    <3>3. {s[j] : j \in 1..k} = {s[j] : j \in 1..(k - 1)} \cup {s[k]}
      <4>1. \A j \in 1..k : j \in 1..(k - 1) \/ j = k
        BY <3>1
      <4>2. k \in 1..k /\ \A j \in 1..(k - 1) : j \in 1..k
        BY <3>1
      <4>. QED
        BY <4>1, <4>2
    <3>4. \A j \in 1..(k - 1) : j \in 1..n /\ j # k
      BY <1>1, <3>1
    <3>5. s[k] \notin P(k - 1)
      BY <1>1, <3>1, <3>4
    <3>6. CASE s[k] \in T
      <4>1. f[k] = <<s[k]>> \o f[k - 1] /\ s[k] \in Key /\ P(k) = P(k - 1) \cup {s[k]}
        BY <1>1, <1>2, <3>1, <3>3, <3>6
      <4>. HIDE DEF P
      <4>. QED
        BY <3>2, <3>5, <4>1, PushIs
    <3>7. CASE s[k] \notin T
      <4>1. f[k] = f[k - 1] /\ P(k) = P(k - 1)
        BY <1>2, <3>1, <3>3, <3>7
      <4>. QED
        BY <3>2, <4>1
    <3>. QED
      BY <3>6, <3>7
  <2>. QED
    BY <2>1, <2>2
<1>4. Nat \subseteq S
  <2>. HIDE DEF S
  <2>. QED
    BY <1>3, StrongInd
<1>5. f[n] \in Chain /\ ToSet(f[n]) = P(n)
  <2>1. n \in S /\ n <= n
    <3>. HIDE DEF S
    <3>. QED
      BY <1>1, <1>4
  <2>. HIDE DEF P
  <2>. QED
    BY <2>1
<1>6. P(n) = ToSet(s) \cap T
  <2>1. {s[j] : j \in 1..n} = ToSet(s)
    BY <1>1
  <2>. QED
    BY <2>1
<1>. QED
  BY <1>2, <1>5, <1>6

-----------------------------------------------------------------------------
(* Tables                                                                  *)

\* What doubling InitSize again and again gives.
Sizes ==
  {n \in Nat : \A S \in SUBSET Nat :
                 InitSize \in S /\ (\A m \in S : 2 * m \in S) => n \in S}

\* Halving a size that is not the first gives a size; every size is even.
LEMMA SizesIs ==
  /\ InitSize \in Sizes /\ \A n \in Sizes : n \in Nat /\ n >= InitSize /\ n >= 2
  /\ \A n \in Sizes : 2 * n \in Sizes
  /\ \A n \in Sizes : n # InitSize => \E m \in Sizes : n = 2 * m
  /\ \A n \in Sizes : \E m \in Nat : n = 2 * m
<1>1. InitSize \in Nat /\ InitSize >= 2 /\ \E m \in Nat : InitSize = 2 * m
  <2>1. InitSize \in Nat \ {0} /\ InitSize % 2 = 0
    BY HashAssumption
  <2>2. InitSize = 2 * (InitSize \div 2) /\ InitSize \div 2 \in Nat
    BY <2>1
  <2>. QED
    BY <2>1, <2>2
<1>2. InitSize \in Sizes
  BY <1>1 DEF Sizes
<1>3. \A n \in Sizes : 2 * n \in Sizes
  BY DEF Sizes
<1>4. \A n \in Sizes : n >= InitSize
  <2>. DEFINE S == {n \in Nat : n >= InitSize}
  <2>1. S \in SUBSET Nat /\ InitSize \in S /\ \A m \in S : 2 * m \in S
    BY <1>1
  <2>2. \A n \in Sizes : n \in S
    <3>. HIDE DEF S
    <3>. QED
      BY <2>1 DEF Sizes
  <2>. QED
    BY <2>2
<1>5. \A n \in Sizes : n # InitSize => \E m \in Sizes : n = 2 * m
  <2>. DEFINE S == {n \in Sizes : n = InitSize \/ \E m \in Sizes : n = 2 * m}
  <2>1. S \in SUBSET Nat
    BY DEF Sizes
  <2>2. InitSize \in S /\ \A m \in S : 2 * m \in S
    BY <1>2, <1>3
  <2>3. \A n \in Sizes : n \in S
    <3>. HIDE DEF S
    <3>. QED
      BY <2>1, <2>2 DEF Sizes
  <2>. QED
    BY <2>3
<1>6. \A n \in Sizes : n \in Nat
  BY DEF Sizes
<1>7. \A n \in Sizes : \E m \in Nat : n = 2 * m
  BY <1>1, <1>5, <1>6
<1>. QED
  BY <1>1, <1>2, <1>3, <1>4, <1>5, <1>6, <1>7

\* The fields of a table.
IsHash(h) ==
  h = [nchains |-> h.nchains, highmark |-> h.highmark, lowmark |-> h.lowmark,
       nodecount |-> h.nodecount, table |-> h.table]

\* Every node is on the chain of its hash, once.
Shape(h) ==
  /\ IsHash(h)
  /\ h.nchains \in Sizes
  /\ h.highmark = 2 * h.nchains
  /\ h.lowmark = h.nchains \div 2
  /\ h.table \in [Chains(h.nchains) -> Chain]
  /\ \A c \in Chains(h.nchains) : \A k \in Members(h, c) : ChainOf(h, k) = c

\* nodecount is the number of nodes.
Counted(h) == IsFiniteSet(Stored(h)) /\ h.nodecount = Cardinality(Stored(h))

\* A node is stored where its hash says.
LEMMA ShapeIs ==
  ASSUME NEW h, Shape(h)
  PROVE  /\ h.nchains \in Nat /\ h.nchains > 0 /\ h.nchains \in Sizes
         /\ \A c : c \in Chains(h.nchains) <=> c \in Nat /\ c < h.nchains
         /\ \A k \in Key : HashOf[k] \in Nat /\ ChainOf(h, k) \in Chains(h.nchains)
         /\ \A c \in Chains(h.nchains) :
              /\ h.table[c] \in Chain /\ Members(h, c) \subseteq Key
              /\ \A k : k \in Members(h, c) <=> k \in Stored(h) /\ ChainOf(h, k) = c
         /\ \A k : k \in Stored(h) <=> k \in Key /\ Lookup(h, k)
<1>1. h.nchains \in Nat /\ h.nchains > 0 /\ h.nchains \in Sizes
  BY SizesIs DEF Shape
<1>. DEFINE n == h.nchains
<1>. HIDE DEF n
<1>2. \A c : c \in Chains(n) <=> c \in Nat /\ c < n
  BY <1>1 DEF Chains, n
<1>3. \A k \in Key : HashOf[k] \in Nat /\ ChainOf(h, k) \in Chains(n)
  <2>1. ASSUME NEW k \in Key PROVE HashOf[k] \in Nat /\ ChainOf(h, k) \in Chains(n)
    <3>1. HashOf[k] \in Nat
      BY HashAssumption
    <3>. QED
      BY <1>1, <3>1, ModIs DEF ChainOf, Chains, n
  <2>. QED
    BY <2>1
<1>4. \A c \in Chains(n) : h.table[c] \in Chain /\ Members(h, c) \subseteq Key
  <2>1. ASSUME NEW c \in Chains(n) PROVE h.table[c] \in Chain /\ Members(h, c) \subseteq Key
    <3>1. h.table[c] \in Chain
      BY DEF Shape, n
    <3>. QED
      BY <3>1, ChainIs DEF Members
  <2>. QED
    BY <2>1
<1>5. \A k : k \in Stored(h) <=> \E c \in Chains(n) : k \in Members(h, c)
  BY DEF Stored, n
<1>6. \A c \in Chains(n) : \A k \in Members(h, c) : ChainOf(h, k) = c
  BY DEF Shape, n
<1>7. \A k : k \in Stored(h) <=> k \in Key /\ Lookup(h, k)
  BY <1>3, <1>4, <1>5, <1>6 DEF Lookup
<1>8. ASSUME NEW c \in Chains(n), NEW k
      PROVE  k \in Members(h, c) <=> k \in Stored(h) /\ ChainOf(h, k) = c
  BY <1>5, <1>6
<1>. QED
  BY <1>1, <1>2, <1>3, <1>4, <1>7, <1>8 DEF n

\* Linking puts one node in front of its chain.
LEMMA LinkedIs ==
  ASSUME NEW h, Shape(h), NEW k \in Key, ~Lookup(h, k), NEW g, g = Linked(h, k)
  PROVE  /\ Shape(g) /\ g.nchains = h.nchains /\ g.nodecount = h.nodecount + 1
         /\ Stored(g) = Stored(h) \cup {k} /\ k \notin Stored(h) /\ Lookup(g, k)
         /\ \A x : ChainOf(g, x) = ChainOf(h, x)
         /\ \A c \in Chains(h.nchains) : \A a, b :
              Before(g.table[c], a, b) => b # k /\ (Before(h.table[c], a, b) \/ a = k)
<1>. DEFINE d == ChainOf(h, k)
            s == h.table[d]
<1>1. /\ h.nchains \in Sizes /\ d \in Chains(h.nchains)
      /\ \A c \in Chains(h.nchains) :
           /\ h.table[c] \in Chain
           /\ \A x : x \in Members(h, c) <=> x \in Stored(h) /\ ChainOf(h, x) = c
      /\ \A x : x \in Stored(h) <=> x \in Key /\ Lookup(h, x)
  BY ShapeIs
<1>2. k \notin ToSet(s)
  BY <1>1 DEF Lookup, Members
<1>. DEFINE t == <<k>> \o s
<1>3. /\ t \in Chain /\ ToSet(t) = ToSet(s) \cup {k}
      /\ \A a, b : Before(t, a, b) => b # k /\ (Before(s, a, b) \/ a = k)
  BY <1>1, <1>2, PushIs
<1>4. h.table \in [Chains(h.nchains) -> Chain] /\ IsHash(h)
  BY DEF Shape
<1>. HIDE DEF d
<1>5. /\ IsHash(g) /\ g.nchains = h.nchains /\ g.highmark = h.highmark
      /\ g.lowmark = h.lowmark /\ g.nodecount = h.nodecount + 1
      /\ g.table = [h.table EXCEPT ![d] = t]
  BY <1>4 DEF Linked, IsHash, d
<1>. HIDE DEF t
<1>6. /\ g.table \in [Chains(h.nchains) -> Chain]
      /\ g.table[d] = t /\ \A c \in Chains(h.nchains) : c # d => g.table[c] = h.table[c]
  BY <1>1, <1>3, <1>4, <1>5
<1>7. \A x : ChainOf(g, x) = ChainOf(h, x)
  BY <1>5 DEF ChainOf
<1>8. /\ Members(g, d) = Members(h, d) \cup {k}
      /\ \A c \in Chains(h.nchains) : c # d => Members(g, c) = Members(h, c)
  BY <1>1, <1>3, <1>6 DEF Members
<1>9. \A c \in Chains(h.nchains) : \A x \in Members(g, c) : ChainOf(g, x) = c
  BY <1>1, <1>7, <1>8 DEF d
<1>10. Stored(g) = Stored(h) \cup {k}
  <2>1. Stored(g) = UNION {Members(g, c) : c \in Chains(h.nchains)}
    BY <1>5 DEF Stored
  <2>2. Stored(h) = UNION {Members(h, c) : c \in Chains(h.nchains)}
    BY DEF Stored
  <2>. QED
    BY <1>1, <1>8, <2>1, <2>2
<1>11. Shape(g)
  BY <1>5, <1>6, <1>9 DEF Shape
<1>12. ASSUME NEW c \in Chains(h.nchains), NEW a, NEW b, Before(g.table[c], a, b)
       PROVE  b # k /\ (Before(h.table[c], a, b) \/ a = k)
  <2>1. CASE c = d
    BY <1>3, <1>6, <1>12, <2>1
  <2>2. CASE c # d
    <3>1. h.table[c] \in Chain /\ Before(h.table[c], a, b)
      BY <1>1, <1>6, <1>12, <2>2
    <3>2. b \in Members(h, c)
      BY <3>1, ChainIs DEF Members
    <3>. QED
      BY <1>1, <2>2, <3>1, <3>2 DEF d
  <2>. QED
    BY <2>1, <2>2
<1>13. k \notin Stored(h) /\ Lookup(g, k)
  BY <1>1, <1>7, <1>8 DEF Lookup, d
<1>. QED
  BY <1>5, <1>7, <1>10, <1>11, <1>12, <1>13

\* Unlinking takes one node and keeps the order of the others.
LEMMA UnlinkedIs ==
  ASSUME NEW h, Shape(h), NEW k \in Stored(h), NEW g, g = Unlinked(h, k)
  PROVE  /\ Shape(g) /\ g.nchains = h.nchains /\ g.nodecount = h.nodecount - 1
         /\ Stored(g) = Stored(h) \ {k}
         /\ \A x : ChainOf(g, x) = ChainOf(h, x)
         /\ \A c \in Chains(h.nchains) : \A a, b :
              Before(g.table[c], a, b) => Before(h.table[c], a, b) /\ a # k /\ b # k
         /\ \A c \in Chains(h.nchains) :
              g.table[c] = IF c = ChainOf(h, k) THEN RemoveFirst(h.table[c], k)
                           ELSE h.table[c]
<1>. DEFINE d == ChainOf(h, k)
            s == h.table[d]
<1>1. /\ h.nchains \in Sizes /\ k \in Key /\ d \in Chains(h.nchains)
      /\ \A c \in Chains(h.nchains) :
           /\ h.table[c] \in Chain
           /\ \A x : x \in Members(h, c) <=> x \in Stored(h) /\ ChainOf(h, x) = c
  BY ShapeIs
<1>2. k \in ToSet(s)
  BY <1>1 DEF Members
<1>. DEFINE t == RemoveFirst(s, k)
<1>3. /\ t \in Chain /\ ToSet(t) = ToSet(s) \ {k}
      /\ \A a, b : Before(t, a, b) => Before(s, a, b) /\ a # k /\ b # k
  BY <1>1, <1>2, CutIs
<1>4. h.table \in [Chains(h.nchains) -> Chain] /\ IsHash(h)
  BY DEF Shape
<1>. HIDE DEF d
<1>5. /\ IsHash(g) /\ g.nchains = h.nchains /\ g.highmark = h.highmark
      /\ g.lowmark = h.lowmark /\ g.nodecount = h.nodecount - 1
      /\ g.table = [h.table EXCEPT ![d] = t]
  BY <1>4 DEF Unlinked, IsHash, d
<1>. HIDE DEF t
<1>6. /\ g.table \in [Chains(h.nchains) -> Chain]
      /\ g.table[d] = t /\ \A c \in Chains(h.nchains) : c # d => g.table[c] = h.table[c]
  BY <1>1, <1>3, <1>4, <1>5
<1>7. \A x : ChainOf(g, x) = ChainOf(h, x)
  BY <1>5 DEF ChainOf
<1>8. /\ Members(g, d) = Members(h, d) \ {k}
      /\ \A c \in Chains(h.nchains) : c # d => Members(g, c) = Members(h, c)
  BY <1>1, <1>3, <1>6 DEF Members
<1>9. \A c \in Chains(h.nchains) : \A x \in Members(g, c) : ChainOf(g, x) = c
  BY <1>1, <1>7, <1>8
<1>10. Stored(g) = Stored(h) \ {k}
  <2>1. Stored(g) = UNION {Members(g, c) : c \in Chains(h.nchains)}
    BY <1>5 DEF Stored
  <2>2. Stored(h) = UNION {Members(h, c) : c \in Chains(h.nchains)}
    BY DEF Stored
  <2>3. \A c \in Chains(h.nchains) : c # d => k \notin Members(h, c)
    BY <1>1 DEF d
  <2>. QED
    BY <1>1, <1>8, <2>1, <2>2, <2>3
<1>11. Shape(g)
  BY <1>5, <1>6, <1>9 DEF Shape
<1>12. ASSUME NEW c \in Chains(h.nchains), NEW a, NEW b, Before(g.table[c], a, b)
       PROVE  Before(h.table[c], a, b) /\ a # k /\ b # k
  <2>1. CASE c = d
    BY <1>3, <1>6, <1>12, <2>1
  <2>2. CASE c # d
    <3>1. h.table[c] \in Chain /\ Before(h.table[c], a, b)
      BY <1>1, <1>6, <1>12, <2>2
    <3>2. a \in Members(h, c) /\ b \in Members(h, c)
      BY <3>1, ChainIs DEF Members
    <3>. QED
      BY <1>1, <2>2, <3>1, <3>2 DEF d
  <2>. QED
    BY <2>1, <2>2
<1>13. \A c \in Chains(h.nchains) :
         g.table[c] = IF c = ChainOf(h, k) THEN RemoveFirst(h.table[c], k) ELSE h.table[c]
  BY <1>6 DEF d, t
<1>. QED
  BY <1>5, <1>7, <1>10, <1>11, <1>12, <1>13

\* Growing keeps the nodes, and puts each where the larger mask says.
LEMMA GrownIs ==
  ASSUME NEW h, Shape(h), NEW g, g = Grown(h)
  PROVE  /\ Shape(g) /\ g.nchains = 2 * h.nchains /\ g.nodecount = h.nodecount
         /\ Stored(g) = Stored(h)
<1>. DEFINE n == h.nchains
            E == {k \in Key : (HashOf[k] \div n) % 2 = 1}
            low(c) == Pushed(h.table[c], Key \ E)
            high(c) == Pushed(h.table[c], E)
            t == [c \in Chains(2 * n) |-> IF c < n THEN low(c) ELSE high(c - n)]
<1>1. /\ n \in Nat /\ n > 0 /\ n \in Sizes
      /\ \A c : c \in Chains(n) <=> c \in Nat /\ c < n
      /\ \A k \in Key : HashOf[k] \in Nat
      /\ \A c \in Chains(n) :
           /\ h.table[c] \in Chain /\ Members(h, c) \subseteq Key
           /\ \A k : k \in Members(h, c) <=> k \in Stored(h) /\ ChainOf(h, k) = c
      /\ \A k \in Stored(h) : k \in Key /\ ChainOf(h, k) \in Chains(n)
  BY ShapeIs
<1>2. /\ IsHash(g) /\ g.nchains = 2 * n /\ g.highmark = 2 * h.highmark
      /\ g.lowmark = 2 * h.lowmark /\ g.nodecount = h.nodecount /\ g.table = t
  BY DEF Grown, IsHash, Shape
<1>3. /\ g.nchains \in Sizes /\ g.highmark = 2 * g.nchains
      /\ g.lowmark = g.nchains \div 2
  <2>1. 2 * n \in Sizes
    BY <1>1, SizesIs
  <2>2. h.highmark = 2 * n /\ h.lowmark = n \div 2
    BY DEF Shape
  <2>3. PICK m \in Nat : n = 2 * m
    BY <1>1, SizesIs
  <2>4. 2 * (n \div 2) = (2 * n) \div 2
    BY <2>3
  <2>. QED
    BY <1>2, <2>1, <2>2, <2>4
<1>4. \A c \in Chains(n) :
        /\ low(c) \in Chain /\ ToSet(low(c)) = Members(h, c) \ E
        /\ high(c) \in Chain /\ ToSet(high(c)) = Members(h, c) \cap E
  <2>. HIDE DEF E
  <2>1. ASSUME NEW c \in Chains(n)
        PROVE  /\ low(c) \in Chain /\ ToSet(low(c)) = Members(h, c) \ E
               /\ high(c) \in Chain /\ ToSet(high(c)) = Members(h, c) \cap E
    <3>1. h.table[c] \in Chain /\ Members(h, c) \subseteq Key
      BY <1>1
    <3>2. low(c) \in Chain /\ ToSet(low(c)) = ToSet(h.table[c]) \cap (Key \ E)
      BY <3>1, PushedIs
    <3>3. high(c) \in Chain /\ ToSet(high(c)) = ToSet(h.table[c]) \cap E
      BY <3>1, PushedIs
    <3>. QED
      BY <3>1, <3>2, <3>3 DEF Members
  <2>. QED
    BY <2>1
<1>5. \A k \in Key : ChainOf(g, k) = IF k \in E THEN ChainOf(h, k) + n ELSE ChainOf(h, k)
  <2>1. ASSUME NEW k \in Key
        PROVE  ChainOf(g, k) = IF k \in E THEN ChainOf(h, k) + n ELSE ChainOf(h, k)
    <3>. DEFINE x == HashOf[k]
    <3>1. x \in Nat /\ ChainOf(h, k) = x % n /\ ChainOf(g, k) = x % (2 * n)
      BY <1>1, <1>2 DEF ChainOf
    <3>2. k \in E <=> (x \div n) % 2 = 1
      OBVIOUS
    <3>. HIDE DEF x, n
    <3>3. /\ (x \div n) % 2 = 1 => x % (2 * n) = (x % n) + n
          /\ (x \div n) % 2 # 1 => x % (2 * n) = x % n
      BY <1>1, <3>1, ModSplit
    <3>. HIDE DEF E
    <3>. QED
      BY <3>1, <3>2, <3>3
  <2>. QED
    BY <2>1
<1>. HIDE DEF E, low, high, n
<1>6. \A c : c \in Chains(2 * n) <=> c \in Chains(n) \/ (c \in Nat /\ c >= n /\ c - n \in Chains(n))
  BY <1>1 DEF Chains
<1>7. ASSUME NEW c \in Chains(2 * n)
      PROVE  /\ t[c] \in Chain
             /\ \A k : k \in Members(g, c) => k \in Stored(h) /\ ChainOf(g, k) = c
  <2>1. CASE c \in Chains(n)
    <3>1. t[c] = low(c)
      BY <1>1, <1>7, <2>1
    <3>2. ToSet(t[c]) = Members(h, c) \ E /\ t[c] \in Chain
      BY <1>4, <2>1, <3>1
    <3>. HIDE DEF t
    <3>. QED
      BY <1>1, <1>2, <1>5, <2>1, <3>2 DEF Members
  <2>2. CASE c \in Nat /\ c >= n /\ c - n \in Chains(n)
    <3>1. t[c] = high(c - n) /\ (c - n) + n = c
      BY <1>1, <1>7, <2>2
    <3>. DEFINE b == c - n
    <3>. HIDE DEF b
    <3>2. b \in Chains(n) /\ t[c] = high(b) /\ b + n = c
      BY <2>2, <3>1 DEF b
    <3>3. ToSet(t[c]) = Members(h, b) \cap E /\ t[c] \in Chain
      BY <1>4, <3>2
    <3>. HIDE DEF t
    <3>4. ASSUME NEW k \in Members(g, c) PROVE k \in Stored(h) /\ ChainOf(g, k) = c
      <4>1. k \in Members(h, b) /\ k \in E
        BY <1>2, <3>3 DEF Members
      <4>2. k \in Stored(h) /\ k \in Key /\ ChainOf(h, k) = b
        BY <1>1, <3>2, <4>1
      <4>. QED
        BY <1>5, <3>2, <4>1, <4>2
    <3>. QED
      BY <3>3, <3>4
  <2>. QED
    BY <1>6, <1>7, <2>1, <2>2
<1>8. \A k \in Stored(h) : \E c \in Chains(2 * n) : k \in Members(g, c)
  <2>. SUFFICES ASSUME NEW k \in Stored(h) PROVE \E c \in Chains(2 * n) : k \in Members(g, c)
    OBVIOUS
  <2>. DEFINE c == ChainOf(h, k)
  <2>1. c \in Chains(n) /\ k \in Members(h, c)
    BY <1>1
  <2>. HIDE DEF c
  <2>2. CASE k \in E
    <3>. DEFINE d == c + n
    <3>1. d \in Chains(2 * n) /\ ~(d < n) /\ d - n = c
      BY <1>1, <2>1 DEF Chains
    <3>2. t[d] = high(c)
      BY <3>1
    <3>. HIDE DEF d, t
    <3>. QED
      BY <1>2, <1>4, <2>1, <2>2, <3>1, <3>2 DEF Members
  <2>3. CASE k \notin E
    <3>1. c \in Chains(2 * n) /\ c < n
      BY <1>1, <1>6, <2>1
    <3>2. t[c] = low(c)
      BY <3>1
    <3>. HIDE DEF t
    <3>. QED
      BY <1>2, <1>4, <2>1, <2>3, <3>1, <3>2 DEF Members
  <2>. QED
    BY <2>2, <2>3
<1>9. t \in [Chains(2 * n) -> Chain]
  <2>. DEFINE u(c) == IF c < n THEN low(c) ELSE high(c - n)
  <2>1. \A c \in Chains(2 * n) : t[c] = u(c)
    OBVIOUS
  <2>2. t = [c \in Chains(2 * n) |-> u(c)]
    OBVIOUS
  <2>. HIDE DEF t, u
  <2>. QED
    BY <1>7, <2>1, <2>2
<1>. HIDE DEF t
<1>10. Shape(g)
  BY <1>2, <1>3, <1>7, <1>9 DEF Shape
<1>11. Stored(g) = Stored(h)
  <2>1. Stored(g) = UNION {Members(g, c) : c \in Chains(2 * n)}
    BY <1>2 DEF Stored
  <2>. QED
    BY <1>7, <1>8, <2>1
<1>. QED
  BY <1>2, <1>10, <1>11 DEF n

\* The chains of h from m on are tacked onto those of g.
Folded(h, g, m) ==
  /\ \A k \in Key :
       ChainOf(g, k) = IF ChainOf(h, k) < m THEN ChainOf(h, k) ELSE ChainOf(h, k) - m
  /\ \A c \in Chains(m) : \A a, b : Before(g.table[c], a, b) =>
       \/ Before(h.table[c], a, b) \/ Before(h.table[c + m], a, b)
       \/ a \in Stored(h) /\ b \in Stored(h) /\ ChainOf(h, a) = c /\ ChainOf(h, b) = c + m

\* Shrinking keeps the nodes, and puts each where the smaller mask says.
LEMMA ShrunkIs ==
  ASSUME NEW h, Shape(h), h.nchains # InitSize, NEW g, g = Shrunk(h),
         NEW m, m = h.nchains \div 2
  PROVE  /\ Shape(g) /\ m \in Nat /\ h.nchains = 2 * m /\ g.nchains = m
         /\ g.nodecount = h.nodecount /\ Stored(g) = Stored(h)
         /\ Folded(h, g, m)
<1>. DEFINE t == [c \in Chains(m) |-> h.table[c] \o h.table[c + m]]
<1>1. /\ h.nchains \in Nat /\ h.nchains > 0 /\ h.nchains \in Sizes
      /\ \A c : c \in Chains(h.nchains) <=> c \in Nat /\ c < h.nchains
      /\ \A k \in Key : HashOf[k] \in Nat /\ ChainOf(h, k) \in Chains(h.nchains)
      /\ \A c \in Chains(h.nchains) :
           /\ h.table[c] \in Chain /\ Members(h, c) \subseteq Key
           /\ \A k : k \in Members(h, c) <=> k \in Stored(h) /\ ChainOf(h, k) = c
      /\ \A k \in Stored(h) : k \in Key /\ ChainOf(h, k) \in Chains(h.nchains)
  BY ShapeIs
<1>2. m \in Sizes /\ m \in Nat /\ m > 0 /\ h.nchains = 2 * m
  <2>1. PICK d \in Sizes : h.nchains = 2 * d
    BY <1>1, SizesIs
  <2>2. d \in Nat /\ d >= 2
    BY SizesIs
  <2>. QED
    BY <2>1, <2>2
<1>3. /\ IsHash(g) /\ g.nchains = m /\ g.highmark = h.highmark \div 2
      /\ g.lowmark = h.lowmark \div 2 /\ g.nodecount = h.nodecount /\ g.table = t
  BY DEF Shrunk, IsHash, Shape
<1>4. g.highmark = 2 * g.nchains /\ g.lowmark = g.nchains \div 2
  <2>1. h.highmark = 2 * (2 * m) /\ h.lowmark = (2 * m) \div 2
    BY <1>2 DEF Shape
  <2>2. (2 * (2 * m)) \div 2 = 2 * m /\ (2 * m) \div 2 = m
    BY <1>2
  <2>. QED
    BY <1>3, <2>1, <2>2
<1>5. \A c : c \in Chains(m) <=> c \in Nat /\ c < m
  BY <1>2 DEF Chains
<1>6. ASSUME NEW k \in Key
      PROVE  ChainOf(g, k) = IF ChainOf(h, k) < m THEN ChainOf(h, k) ELSE ChainOf(h, k) - m
  <2>. DEFINE x == HashOf[k]
  <2>1. x \in Nat /\ ChainOf(h, k) = x % (2 * m) /\ ChainOf(g, k) = x % m
    BY <1>1, <1>2, <1>3 DEF ChainOf
  <2>2. /\ x % (2 * m) < m => x % m = x % (2 * m)
        /\ x % (2 * m) >= m => x % m = (x % (2 * m)) - m
    BY <1>2, <2>1, ModHalf
  <2>. DEFINE u == x % (2 * m)
              v == x % m
  <2>. HIDE DEF x, u, v
  <2>3. u \in Nat /\ ChainOf(h, k) = u /\ ChainOf(g, k) = v
    BY <1>1, <1>2, <2>1 DEF u, v
  <2>4. (u < m => v = u) /\ (u >= m => v = u - m)
    BY <2>2 DEF u, v
  <2>. QED
    BY <1>2, <2>3, <2>4
<1>7. ASSUME NEW c \in Chains(m)
      PROVE  /\ t[c] \in Chain /\ ToSet(t[c]) = Members(h, c) \cup Members(h, c + m)
             /\ \A k \in Members(g, c) : k \in Stored(h) /\ ChainOf(g, k) = c
             /\ \A a, b : Before(t[c], a, b) =>
                  \/ Before(h.table[c], a, b) \/ Before(h.table[c + m], a, b)
                  \/ a \in Stored(h) /\ b \in Stored(h)
                     /\ ChainOf(h, a) = c /\ ChainOf(h, b) = c + m
  <2>. DEFINE d == c + m
  <2>1. /\ c \in Nat /\ c < m /\ c \in Chains(h.nchains)
        /\ d \in Nat /\ d >= m /\ d \in Chains(h.nchains) /\ d # c /\ d - m = c
    BY <1>1, <1>2, <1>5
  <2>. HIDE DEF d
  <2>2. t[c] = h.table[c] \o h.table[d]
    BY DEF d
  <2>3. h.table[c] \in Chain /\ h.table[d] \in Chain
    BY <1>1, <2>1
  <2>4. ToSet(h.table[c]) \cap ToSet(h.table[d]) = {}
    BY <1>1, <2>1 DEF Members
  <2>. HIDE DEF t
  <2>5. /\ t[c] \in Chain /\ ToSet(t[c]) = Members(h, c) \cup Members(h, d)
        /\ \A a, b : Before(t[c], a, b) =>
             \/ Before(h.table[c], a, b) \/ Before(h.table[d], a, b)
             \/ a \in Members(h, c) /\ b \in Members(h, d)
    BY <2>2, <2>3, <2>4, JoinIs DEF Members
  <2>6. ASSUME NEW k \in Members(g, c) PROVE k \in Stored(h) /\ ChainOf(g, k) = c
    <3>1. k \in Members(h, c) \/ k \in Members(h, d)
      BY <1>3, <2>5 DEF Members
    <3>2. k \in Stored(h) /\ k \in Key /\ (ChainOf(h, k) = c \/ ChainOf(h, k) = d)
      BY <1>1, <2>1, <3>1
    <3>. QED
      BY <1>2, <1>6, <2>1, <3>2
  <2>. QED
    BY <1>1, <2>1, <2>5, <2>6 DEF d
<1>8. ASSUME NEW k \in Stored(h) PROVE \E c \in Chains(m) : k \in Members(g, c)
  <2>. DEFINE d == ChainOf(h, k)
              c == IF d < m THEN d ELSE d - m
  <2>1. d \in Nat /\ d < 2 * m /\ k \in Members(h, d)
    BY <1>1, <1>2
  <2>. HIDE DEF d
  <2>2. c \in Chains(m) /\ (d = c \/ d = c + m)
    BY <1>2, <1>5, <2>1
  <2>. HIDE DEF c, t
  <2>3. k \in Members(g, c)
    BY <1>3, <1>7, <2>1, <2>2 DEF Members
  <2>. QED
    BY <2>2, <2>3
<1>9. t \in [Chains(m) -> Chain]
  <2>. DEFINE u(c) == h.table[c] \o h.table[c + m]
  <2>1. \A c \in Chains(m) : t[c] = u(c)
    OBVIOUS
  <2>2. t = [c \in Chains(m) |-> u(c)]
    OBVIOUS
  <2>. HIDE DEF t, u
  <2>. QED
    BY <1>7, <2>1, <2>2
<1>. HIDE DEF t
<1>10. Shape(g)
  BY <1>2, <1>3, <1>4, <1>7, <1>9 DEF Shape
<1>11. Stored(g) = Stored(h)
  <2>1. Stored(g) = UNION {Members(g, c) : c \in Chains(m)}
    BY <1>3 DEF Stored
  <2>. QED
    BY <1>7, <1>8, <2>1
<1>12. \A c \in Chains(m) : \A a, b : Before(g.table[c], a, b) =>
         \/ Before(h.table[c], a, b) \/ Before(h.table[c + m], a, b)
         \/ a \in Stored(h) /\ b \in Stored(h) /\ ChainOf(h, a) = c /\ ChainOf(h, b) = c + m
  BY <1>3, <1>7
<1>13. Folded(h, g, m)
  BY <1>6, <1>12 DEF Folded
<1>. QED
  BY <1>2, <1>3, <1>10, <1>11, <1>13

-----------------------------------------------------------------------------
(* Positions of the scan                                                   *)

\* Every set of numbers has a least one.
LEMMA Least ==
  ASSUME NEW S, S \subseteq Nat, S # {}
  PROVE  \E d \in S : \A e \in S : d <= e
<1>. SUFFICES ASSUME \A d \in S : \E e \in S : e < d PROVE FALSE
  OBVIOUS
<1>. DEFINE U == Nat \ S
<1>1. \A n \in Nat : (\A m \in Nat : m < n => m \in U) => n \in U
  OBVIOUS
<1>2. Nat \subseteq U
  <2>. HIDE DEF U
  <2>. QED
    BY <1>1, StrongInd
<1>. QED
  BY <1>2

\* The first node from chain c on, of what is stored there.
LEMMA FirstFromIs ==
  ASSUME NEW h, Shape(h), NEW c \in Nat, NEW p, p = FirstFrom(h, c)
  PROVE  /\ p = [chain |-> p.chain, next |-> p.next, linked |-> p.linked]
         /\ p.chain \in Nat /\ p.next \in Key \cup {None}
         /\ p.next = None => ~p.linked /\ \A k \in Stored(h) : ChainOf(h, k) < c
         /\ p.next # None =>
              /\ p.linked /\ p.next \in Stored(h) /\ ChainOf(h, p.next) = p.chain
              /\ p.chain \in Chains(h.nchains) /\ p.chain >= c
              /\ h.table[p.chain][1] = p.next
              /\ \A k \in Stored(h) : ChainOf(h, k) >= c => ChainOf(h, k) >= p.chain
              /\ \A a : ~Before(h.table[p.chain], a, p.next)
<1>. DEFINE some == {d \in Chains(h.nchains) : d >= c /\ h.table[d] # <<>>}
            first == CHOOSE d \in some : \A e \in some : d <= e
<1>1. /\ h.nchains \in Nat
      /\ \A d \in Chains(h.nchains) :
           /\ d \in Nat /\ h.table[d] \in Chain /\ Members(h, d) \subseteq Key
           /\ \A k : k \in Members(h, d) <=> k \in Stored(h) /\ ChainOf(h, k) = d
      /\ \A k \in Stored(h) : k \in Key /\ ChainOf(h, k) \in Chains(h.nchains)
  BY ShapeIs
<1>2. ASSUME NEW d \in Chains(h.nchains)
      PROVE  /\ h.table[d] = <<>> => Members(h, d) = {}
             /\ h.table[d] # <<>> =>
                  /\ Head(h.table[d]) = h.table[d][1] /\ h.table[d][1] \in Members(h, d)
                  /\ \A a : ~Before(h.table[d], a, h.table[d][1])
  <2>. DEFINE s == h.table[d]
  <2>. HIDE DEF s
  <2>1. s \in Chain
    BY <1>1 DEF s
  <2>2. /\ s \in Seq(Key) /\ Len(s) \in Nat
        /\ \A k : k \in ToSet(s) <=> \E i \in 1..Len(s) : s[i] = k
        /\ \A i, j \in 1..Len(s) : s[i] = s[j] => i = j
        /\ \A a, b : Before(s, a, b) <=> \E i, j \in 1..Len(s) : i < j /\ s[i] = a /\ s[j] = b
    BY <2>1, ChainIs
  <2>3. CASE s = <<>>
    <3>1. Len(s) = 0
      BY <2>3
    <3>2. ToSet(s) = {}
      BY <2>2, <3>1
    <3>. QED
      BY <2>3, <3>2 DEF Members, s
  <2>4. CASE s # <<>>
    <3>1. Head(s) = s[1] /\ Len(s) # 0
      BY <2>2, <2>4, EmptySeq
    <3>2. 1 \in 1..Len(s)
      BY <2>2, <3>1
    <3>3. s[1] \in ToSet(s)
      BY <2>2, <3>2
    <3>4. ASSUME NEW a, Before(s, a, s[1]) PROVE FALSE
      <4>1. PICK i, j \in 1..Len(s) : i < j /\ s[j] = s[1]
        BY <2>2, <3>4
      <4>2. j = 1
        BY <2>2, <3>2, <4>1
      <4>. QED
        BY <2>2, <4>1, <4>2
    <3>. QED
      BY <2>4, <3>1, <3>3, <3>4 DEF Members, s
  <2>. QED
    BY <2>3, <2>4 DEF s
<1>3. p = IF some = {} THEN [chain |-> 0, next |-> None, linked |-> FALSE]
          ELSE [chain |-> first, next |-> Head(h.table[first]), linked |-> TRUE]
  BY DEF FirstFrom
<1>4. \A d : d \in some <=> d \in Chains(h.nchains) /\ d >= c /\ h.table[d] # <<>>
  OBVIOUS
<1>5. \A k \in Stored(h) : ChainOf(h, k) >= c => ChainOf(h, k) \in some
  <2>. HIDE DEF some
  <2>. QED
    BY <1>1, <1>2, <1>4
<1>6. CASE some = {}
  <2>0. p = [chain |-> 0, next |-> None, linked |-> FALSE]
    <3>. HIDE DEF some, first
    <3>. QED
      BY <1>3, <1>6
  <2>1. p.chain = 0 /\ p.next = None /\ p.linked = FALSE
        /\ p = [chain |-> p.chain, next |-> p.next, linked |-> p.linked]
    BY <2>0
  <2>2. \A k \in Stored(h) : ~(ChainOf(h, k) >= c)
    <3>. HIDE DEF some
    <3>. QED
      BY <1>5, <1>6
  <2>3. \A k \in Stored(h) : ChainOf(h, k) \in Nat
    BY <1>1
  <2>. HIDE DEF some
  <2>4. \A k \in Stored(h) : ChainOf(h, k) < c
    BY <2>2, <2>3
  <2>. QED
    BY <2>1, <2>4
<1>7. CASE some # {}
  <2>1. some \subseteq Nat
    BY <1>1
  <2>. HIDE DEF some
  <2>2. first \in some /\ \A e \in some : first <= e
    BY <1>7, <2>1, Least
  <2>. HIDE DEF first
  <2>3. /\ first \in Chains(h.nchains) /\ first >= c /\ h.table[first] # <<>> /\ first \in Nat
    BY <1>1, <1>4, <2>2
  <2>9. p = [chain |-> first, next |-> Head(h.table[first]), linked |-> TRUE]
    BY <1>3, <1>7
  <2>10. Head(h.table[first]) = h.table[first][1]
    BY <1>2, <2>3
  <2>4. /\ p.chain = first /\ p.next = h.table[first][1] /\ p.linked = TRUE
        /\ p = [chain |-> p.chain, next |-> p.next, linked |-> p.linked]
    BY <2>9, <2>10
  <2>5. /\ p.next \in Members(h, first) /\ \A a : ~Before(h.table[first], a, p.next)
    BY <1>2, <2>3, <2>4
  <2>6. p.next \in Stored(h) /\ ChainOf(h, p.next) = first /\ p.next \in Key
    BY <1>1, <2>3, <2>5
  <2>7. \A k \in Stored(h) : ChainOf(h, k) >= c => ChainOf(h, k) >= first
    BY <1>1, <1>5, <2>2, <2>3
  <2>8. p.next # None
    BY <2>6, HashAssumption
  <2>. QED
    BY <2>3, <2>4, <2>5, <2>6, <2>7, <2>8
<1>. QED
  BY <1>6, <1>7

\* p follows s on its chain.
OnChain(h, s, p) ==
  LET chain == h.table[ChainOf(h, s.next)] IN
  /\ s.linked /\ p.linked /\ p.chain = s.chain
  /\ p = [chain |-> p.chain, next |-> p.next, linked |-> p.linked]
  /\ p.next \in Stored(h) /\ p.next \in Key
  /\ ChainOf(h, p.next) = ChainOf(h, s.next) /\ p.next # s.next
  /\ Before(chain, s.next, p.next)
  /\ \A k : Before(chain, k, p.next) => k = s.next \/ Before(chain, k, s.next)
  /\ \A k : Before(chain, p.next, k) => k # s.next /\ Before(chain, s.next, k)
  /\ chain[1] = s.next => Len(chain) >= 2 /\ p.next = chain[2]

\* p is on a later chain, and no node follows s on its own.
OffChain(h, s, p) ==
  /\ p = FirstFrom(h, s.chain + 1)
  /\ s.linked => \A k \in Members(h, ChainOf(h, s.next)) :
                   k = s.next \/ Before(h.table[ChainOf(h, s.next)], k, s.next)

\* hash_scan_next goes on along the chain, or to a later chain.
LEMMA AfterIs ==
  ASSUME NEW h, Shape(h), NEW s, s.linked => s.next \in Stored(h), NEW p, p = After(h, s)
  PROVE  OnChain(h, s, p) \/ OffChain(h, s, p)
<1>. DEFINE chain == h.table[ChainOf(h, s.next)]
            at == CHOOSE i \in DOMAIN chain : chain[i] = s.next
<1>1. p = IF s.linked /\ at < Len(chain)
          THEN [chain |-> s.chain, next |-> chain[at + 1], linked |-> TRUE]
          ELSE FirstFrom(h, s.chain + 1)
  BY DEF After
<1>2. CASE ~s.linked
  BY <1>1, <1>2 DEF OffChain
<1>3. CASE s.linked
  <2>. DEFINE x == s.next
  <2>1. /\ x \in Stored(h) /\ x \in Key /\ ChainOf(h, x) \in Chains(h.nchains)
        /\ x \in ToSet(chain) /\ chain \in Chain
        /\ \A k \in ToSet(chain) : k \in Stored(h) /\ ChainOf(h, k) = ChainOf(h, x)
    BY <1>3, ShapeIs DEF Members
  <2>. HIDE DEF chain
  <2>. DEFINE n == Len(chain)
  <2>2. /\ n \in Nat /\ DOMAIN chain = 1..n
        /\ \A i \in 1..n : chain[i] \in Key /\ chain[i] \in ToSet(chain)
        /\ \A k : k \in ToSet(chain) <=> \E i \in 1..n : chain[i] = k
        /\ \A i, j \in 1..n : chain[i] = chain[j] => i = j
        /\ \A a, b : Before(chain, a, b) <=>
             \E i, j \in 1..n : i < j /\ chain[i] = a /\ chain[j] = b
    BY <2>1, ChainIs
  <2>3. \E i \in DOMAIN chain : chain[i] = x
    BY <2>1, <2>2
  <2>. HIDE DEF n
  <2>4. at \in 1..n /\ chain[at] = x
    BY <2>2, <2>3
  <2>. HIDE DEF at
  <2>5. CASE at < n
    <3>. DEFINE y == chain[at + 1]
    <3>1. at + 1 \in 1..n /\ at < at + 1
      BY <2>2, <2>4, <2>5
    <3>2. p = [chain |-> s.chain, next |-> y, linked |-> TRUE]
      BY <1>1, <1>3, <2>5 DEF n
    <3>3. y \in ToSet(chain) /\ y \in Key /\ Before(chain, x, y)
      BY <2>2, <2>4, <3>1
    <3>4. y # x
      BY <2>2, <2>4, <3>1
    <3>5. ASSUME NEW k, Before(chain, k, y) PROVE k = x \/ Before(chain, k, x)
      <4>1. PICK i, j \in 1..n : i < j /\ chain[i] = k /\ chain[j] = y
        BY <2>2, <3>5
      <4>2. j = at + 1
        BY <2>2, <3>1, <4>1
      <4>3. i = at \/ i < at
        BY <2>2, <2>4, <4>1, <4>2
      <4>. QED
        BY <2>2, <2>4, <4>1, <4>3
    <3>6. ASSUME NEW k, Before(chain, y, k) PROVE k # x /\ Before(chain, x, k)
      <4>1. PICK i, j \in 1..n : i < j /\ chain[i] = y /\ chain[j] = k
        BY <2>2, <3>6
      <4>2. i = at + 1
        BY <2>2, <3>1, <4>1
      <4>3. at < j /\ at # j
        BY <2>2, <2>4, <4>1, <4>2
      <4>. QED
        BY <2>2, <2>4, <4>1, <4>3
    <3>7. chain[1] = x => n >= 2 /\ y = chain[2]
      <4>1. ASSUME chain[1] = x PROVE n >= 2 /\ y = chain[2]
        <5>1. 1 \in 1..n
          BY <2>2, <2>4
        <5>2. at = 1
          BY <2>2, <2>4, <4>1, <5>1
        <5>. QED
          BY <2>2, <2>5, <5>2
      <4>. QED
        BY <4>1
    <3>8. p.chain = s.chain /\ p.next = y /\ p.linked = TRUE
          /\ p = [chain |-> p.chain, next |-> p.next, linked |-> p.linked]
      BY <3>2
    <3>. HIDE DEF y
    <3>9. y \in Stored(h) /\ ChainOf(h, y) = ChainOf(h, x)
      BY <2>1, <3>3
    <3>10. OnChain(h, s, p)
      BY <1>3, <3>3, <3>4, <3>5, <3>6, <3>7, <3>8, <3>9 DEF OnChain, chain, n
    <3>. QED
      BY <3>10
  <2>6. CASE ~(at < n)
    <3>1. p = FirstFrom(h, s.chain + 1)
      BY <1>1, <2>6 DEF n
    <3>2. ASSUME NEW k \in ToSet(chain) PROVE k = x \/ Before(chain, k, x)
      <4>1. PICK i \in 1..n : chain[i] = k
        BY <2>2
      <4>2. i = at \/ i < at
        BY <2>2, <2>4, <2>6
      <4>. QED
        BY <2>2, <2>4, <4>1, <4>2
    <3>. QED
      BY <3>1, <3>2 DEF OffChain, Members, chain
  <2>. QED
    BY <2>5, <2>6
<1>. QED
  BY <1>2, <1>3

-----------------------------------------------------------------------------
(* The invariant                                                           *)

\* The fields of an enumeration.
IsScan(s) ==
  s = [mode |-> s.mode,
       pos |-> [chain |-> s.pos.chain, next |-> s.pos.next, linked |-> s.pos.linked],
       seen |-> s.seen, twice |-> s.twice, kept |-> s.kept, clean |-> s.clean,
       halved |-> s.halved, mixed |-> s.mixed, changes |-> s.changes]

Typed(s) ==
  /\ IsScan(s)
  /\ s.mode \in {"idle", "enum", "free"}
  /\ s.pos.chain \in Nat
  /\ s.pos.next \in Key \union {None}
  /\ s.seen \subseteq Key
  /\ s.kept \subseteq Key

\* The node to be returned next is in the table, unless it was deleted.
Standing(h, s) == s.pos.linked => s.pos.next \in Stored(h)

ScanOK ==
  /\ Typed(scan)
  /\ scan.mode # "idle" => Standing(hash, scan)

\* The nodes that were there all the time and are not seen yet lie ahead of the scan.
Ahead(h, s) ==
  /\ s.kept \subseteq Stored(h)
  /\ IF s.pos.next = None
     THEN s.kept \subseteq s.seen
     ELSE /\ s.pos.linked
          /\ ChainOf(h, s.pos.next) = s.pos.chain
          /\ \A k \in s.kept \ s.seen :
               /\ ChainOf(h, k) >= s.pos.chain
               /\ ~Before(h.table[s.pos.chain], k, s.pos.next)

\* No node that was seen lies ahead of the scan.  When the table has shrunk under it,
\* the scan may stand on a chain that is gone.
Behind(h, s) ==
  s.pos.next # None =>
    /\ s.pos.next \notin s.seen
    /\ IF s.pos.chain < h.nchains
       THEN /\ ChainOf(h, s.pos.next) = s.pos.chain
            /\ \A k \in s.seen : ChainOf(h, k) <= s.pos.chain
       ELSE s.halved
    /\ s.pos.linked => \A k \in s.seen :
                         ~Before(h.table[ChainOf(h, s.pos.next)], s.pos.next, k)

\* The chains before that of the scan are empty, and it stands on the first node.
Emptied(h, s) ==
  IF s.pos.next = None
  THEN Stored(h) = {}
  ELSE /\ s.pos.linked
       /\ ChainOf(h, s.pos.next) = s.pos.chain
       /\ h.table[s.pos.chain][1] = s.pos.next
       /\ \A c \in Chains(h.nchains) : c < s.pos.chain => Members(h, c) = {}

\* While the table keeps its size an enumeration has the nodes that stayed ahead of it.
EnumAll == scan.mode = "enum" /\ scan.clean => Ahead(hash, scan)

\* Until the table grows or shrinks again the nodes seen are behind the enumeration.
EnumOnce ==
  /\ ~scan.mixed => scan.twice = {}
  /\ scan.mode = "enum" /\ ~scan.mixed => Behind(hash, scan)

\* What the clearing has passed is empty.
FreeOK == scan.mode = "free" => Emptied(hash, scan)

\* The inductive invariant.
IInv ==
  /\ Shape(hash) /\ Counted(hash)
  /\ failures \in 0 .. MaxFailures
  /\ ScanOK
  /\ EnumAll
  /\ EnumOnce
  /\ FreeOK

-----------------------------------------------------------------------------
(* What a change of the table does to the scan                             *)

\* What Seeing notes of a change, field by field.
LEMMA SeeingIs ==
  ASSUME IsScan(scan), scan.mode # "idle", NEW h, NEW k, NEW s, s = Seeing(h, k)
  PROVE  /\ IsScan(s) /\ s.mode = scan.mode
         /\ s.pos.chain = scan.pos.chain /\ s.pos.next = scan.pos.next
         /\ s.seen = scan.seen /\ s.twice = scan.twice /\ s.kept = scan.kept \ {k}
         /\ s.pos.linked <=> scan.pos.linked /\ (scan.pos.next # k \/ Lookup(h, k))
         /\ s.clean => /\ scan.clean /\ h.nchains = hash.nchains
                       /\ scan.pos.linked => scan.pos.next # k \/ Lookup(h, k)
         /\ ~s.mixed => /\ ~scan.mixed /\ ~(h.nchains > hash.nchains)
                        /\ h.nchains < hash.nchains => ~scan.halved
         /\ s.halved <=> scan.halved \/ h.nchains < hash.nchains
<1>. DEFINE cut == scan.pos.next = k /\ scan.pos.linked /\ ~Lookup(h, k)
            smaller == h.nchains < hash.nchains
            larger == h.nchains > hash.nchains
            same == h.nchains = hash.nchains
<1>1. s = [scan EXCEPT
          !.changes = @ + 1,
          !.kept = @ \ {k},
          !.clean = @ /\ same /\ ~cut,
          !.halved = @ \/ smaller,
          !.mixed = @ \/ larger \/ (scan.halved /\ smaller),
          !.pos.linked = @ /\ ~cut]
  BY DEF Seeing
<1>2. scan = [mode |-> scan.mode,
       pos |-> [chain |-> scan.pos.chain, next |-> scan.pos.next, linked |-> scan.pos.linked],
       seen |-> scan.seen, twice |-> scan.twice, kept |-> scan.kept, clean |-> scan.clean,
       halved |-> scan.halved, mixed |-> scan.mixed, changes |-> scan.changes]
  BY DEF IsScan
<1>. HIDE DEF cut, smaller, larger, same
<1>3. s = [mode |-> scan.mode,
       pos |-> [chain |-> scan.pos.chain, next |-> scan.pos.next,
                linked |-> (scan.pos.linked /\ ~cut)],
       seen |-> scan.seen, twice |-> scan.twice, kept |-> scan.kept \ {k},
       clean |-> (scan.clean /\ same /\ ~cut),
       halved |-> (scan.halved \/ smaller),
       mixed |-> (scan.mixed \/ larger \/ (scan.halved /\ smaller)),
       changes |-> scan.changes + 1]
  <2>. DEFINE a == scan.clean /\ same /\ ~cut
              b == scan.halved \/ smaller
              c == scan.mixed \/ larger \/ (scan.halved /\ smaller)
              l == scan.pos.linked /\ ~cut
              p == scan.pos
              p1 == [p EXCEPT !.linked = l]
  <2>1. s = [scan EXCEPT !.changes = @ + 1, !.kept = @ \ {k}, !.clean = a, !.halved = b,
                         !.mixed = c, !.pos.linked = l]
    BY <1>1
  <2>2. /\ p = [chain |-> p.chain, next |-> p.next, linked |-> p.linked]
        /\ scan = [mode |-> scan.mode, pos |-> p, seen |-> scan.seen, twice |-> scan.twice,
                   kept |-> scan.kept, clean |-> scan.clean, halved |-> scan.halved,
                   mixed |-> scan.mixed, changes |-> scan.changes]
    BY <1>2
  <2>. HIDE DEF a, b, c, l
  <2>3. s = [scan EXCEPT !.changes = @ + 1, !.kept = @ \ {k}, !.clean = a, !.halved = b,
                         !.mixed = c, !.pos = p1]
    BY <2>1, <2>2
  <2>4. p1 = [chain |-> p.chain, next |-> p.next, linked |-> l]
    BY <2>2
  <2>. HIDE DEF p, p1
  <2>5. s = [mode |-> scan.mode, pos |-> p1, seen |-> scan.seen, twice |-> scan.twice,
             kept |-> scan.kept \ {k}, clean |-> a, halved |-> b, mixed |-> c,
             changes |-> scan.changes + 1]
    BY <2>2, <2>3
  <2>. QED
    BY <2>4, <2>5 DEF a, b, c, l, p
<1>4. /\ s.mode = scan.mode
      /\ s.pos = [chain |-> scan.pos.chain, next |-> scan.pos.next,
                linked |-> (scan.pos.linked /\ ~cut)]
      /\ s.seen = scan.seen /\ s.twice = scan.twice /\ s.kept = scan.kept \ {k}
      /\ s.clean = (scan.clean /\ same /\ ~cut)
      /\ s.halved = (scan.halved \/ smaller)
      /\ s.mixed = (scan.mixed \/ larger \/ (scan.halved /\ smaller))
      /\ s.changes = scan.changes + 1
  BY <1>3
<1>5. /\ s.pos.chain = scan.pos.chain /\ s.pos.next = scan.pos.next
      /\ s.pos.linked = (scan.pos.linked /\ ~cut)
  <2>. DEFINE now == scan.pos.linked /\ ~cut
  <2>1. s.pos = [chain |-> scan.pos.chain, next |-> scan.pos.next, linked |-> now]
    BY <1>4
  <2>. HIDE DEF now
  <2>2. /\ s.pos.chain = scan.pos.chain /\ s.pos.next = scan.pos.next
        /\ s.pos.linked = now
    BY <2>1
  <2>. QED
    BY <2>2 DEF now
<1>6. IsScan(s)
  <2>1. s.pos = [chain |-> s.pos.chain, next |-> s.pos.next, linked |-> s.pos.linked]
    BY <1>4, <1>5
  <2>2. s = [mode |-> s.mode, pos |-> s.pos, seen |-> s.seen, twice |-> s.twice,
             kept |-> s.kept, clean |-> s.clean, halved |-> s.halved, mixed |-> s.mixed,
             changes |-> s.changes]
    BY <1>3
  <2>. QED
    BY <2>1, <2>2 DEF IsScan
<1>7. s.pos.linked <=> scan.pos.linked /\ (scan.pos.next # k \/ Lookup(h, k))
  BY <1>5, Zenon DEF cut
<1>8. s.clean => /\ scan.clean /\ h.nchains = hash.nchains
                 /\ scan.pos.linked => scan.pos.next # k \/ Lookup(h, k)
  BY <1>4, Zenon DEF cut, same
<1>9. /\ ~s.mixed => /\ ~scan.mixed /\ ~(h.nchains > hash.nchains)
                     /\ h.nchains < hash.nchains => ~scan.halved
      /\ s.halved <=> scan.halved \/ h.nchains < hash.nchains
  BY <1>4, Zenon DEF smaller, larger
<1>. QED
  BY <1>4, <1>5, <1>6, <1>7, <1>8, <1>9

\* u is the scan s with the same place and the same nodes seen.
SamePlace(s, u) ==
  u.pos.chain = s.pos.chain /\ u.pos.next = s.pos.next /\ u.seen = s.seen

\* A node added is not one that was there all the time.
LEMMA AheadLinked ==
  ASSUME NEW h, Shape(h), NEW k \in Key, ~Lookup(h, k), NEW g, g = Linked(h, k),
         NEW s, Typed(s), Standing(h, s), Ahead(h, s),
         NEW u, SamePlace(s, u), u.kept = s.kept \ {k}, s.pos.linked => u.pos.linked
  PROVE  Ahead(g, u)
<1>1. /\ Stored(g) = Stored(h) \cup {k} /\ g.nchains = h.nchains
      /\ \A x : ChainOf(g, x) = ChainOf(h, x)
      /\ \A c \in Chains(h.nchains) : \A a, b :
           Before(g.table[c], a, b) => b # k /\ (Before(h.table[c], a, b) \/ a = k)
  BY LinkedIs
<1>2. CASE s.pos.next = None
  BY <1>1, <1>2 DEF Ahead, SamePlace
<1>3. CASE s.pos.next # None
  <2>1. /\ s.pos.linked /\ ChainOf(h, s.pos.next) = s.pos.chain
        /\ s.kept \subseteq Stored(h)
        /\ \A x \in s.kept \ s.seen :
             ChainOf(h, x) >= s.pos.chain /\ ~Before(h.table[s.pos.chain], x, s.pos.next)
    BY <1>3 DEF Ahead
  <2>2. s.pos.chain \in Chains(h.nchains)
    BY <2>1, ShapeIs DEF Standing
  <2>. QED
    BY <1>1, <1>3, <2>1, <2>2 DEF Ahead, SamePlace
<1>. QED
  BY <1>2, <1>3

\* A node deleted is not one that was there all the time.
LEMMA AheadUnlinked ==
  ASSUME NEW h, Shape(h), NEW k \in Stored(h), NEW g, g = Unlinked(h, k),
         NEW s, Typed(s), Standing(h, s), Ahead(h, s),
         NEW u, SamePlace(s, u), u.kept = s.kept \ {k}, s.pos.linked => u.pos.linked
  PROVE  Ahead(g, u)
<1>1. /\ Stored(g) = Stored(h) \ {k} /\ g.nchains = h.nchains
      /\ \A x : ChainOf(g, x) = ChainOf(h, x)
      /\ \A c \in Chains(h.nchains) : \A a, b :
           Before(g.table[c], a, b) => Before(h.table[c], a, b)
  BY UnlinkedIs
<1>2. CASE s.pos.next = None
  BY <1>1, <1>2 DEF Ahead, SamePlace
<1>3. CASE s.pos.next # None
  <2>1. /\ s.pos.linked /\ ChainOf(h, s.pos.next) = s.pos.chain
        /\ s.kept \subseteq Stored(h)
        /\ \A x \in s.kept \ s.seen :
             ChainOf(h, x) >= s.pos.chain /\ ~Before(h.table[s.pos.chain], x, s.pos.next)
    BY <1>3 DEF Ahead
  <2>2. s.pos.chain \in Chains(h.nchains)
    BY <2>1, ShapeIs DEF Standing
  <2>. QED
    BY <1>1, <1>3, <2>1, <2>2 DEF Ahead, SamePlace
<1>. QED
  BY <1>2, <1>3

\* A key added again is put in front of its chain, where the scan has been.
LEMMA BehindLinked ==
  ASSUME NEW h, Shape(h), NEW k \in Key, ~Lookup(h, k), NEW g, g = Linked(h, k),
         NEW s, Typed(s), Standing(h, s), Behind(h, s),
         NEW u, SamePlace(s, u), u.pos.linked => s.pos.linked, s.halved => u.halved
  PROVE  Behind(g, u)
<1>1. /\ Stored(g) = Stored(h) \cup {k} /\ g.nchains = h.nchains /\ k \notin Stored(h)
      /\ \A x : ChainOf(g, x) = ChainOf(h, x)
      /\ \A c \in Chains(h.nchains) : \A a, b :
           Before(g.table[c], a, b) => b # k /\ (Before(h.table[c], a, b) \/ a = k)
  BY LinkedIs
<1>2. SUFFICES ASSUME s.pos.next # None, u.pos.linked, NEW x \in u.seen,
                      Before(g.table[ChainOf(g, u.pos.next)], u.pos.next, x)
               PROVE  FALSE
  BY <1>1 DEF Behind, SamePlace
<1>3. s.pos.linked /\ s.pos.next \in Stored(h) /\ u.pos.next = s.pos.next /\ x \in s.seen
  BY <1>2 DEF Standing, SamePlace
<1>4. ChainOf(h, s.pos.next) \in Chains(h.nchains) /\ s.pos.next # k
  BY <1>1, <1>3, ShapeIs
<1>5. Before(h.table[ChainOf(h, s.pos.next)], s.pos.next, x)
  BY <1>1, <1>2, <1>3, <1>4
<1>. QED
  BY <1>2, <1>3, <1>5 DEF Behind

\* Deleting a node moves no other across the scan.
LEMMA BehindUnlinked ==
  ASSUME NEW h, Shape(h), NEW k \in Stored(h), NEW g, g = Unlinked(h, k),
         NEW s, Typed(s), Standing(h, s), Behind(h, s),
         NEW u, SamePlace(s, u), u.pos.linked => s.pos.linked, s.halved => u.halved
  PROVE  Behind(g, u)
<1>1. /\ g.nchains = h.nchains
      /\ \A x : ChainOf(g, x) = ChainOf(h, x)
      /\ \A c \in Chains(h.nchains) : \A a, b :
           Before(g.table[c], a, b) => Before(h.table[c], a, b)
  BY UnlinkedIs
<1>2. SUFFICES ASSUME s.pos.next # None, u.pos.linked, NEW x \in u.seen,
                      Before(g.table[ChainOf(g, u.pos.next)], u.pos.next, x)
               PROVE  FALSE
  BY <1>1 DEF Behind, SamePlace
<1>3. s.pos.linked /\ s.pos.next \in Stored(h) /\ u.pos.next = s.pos.next /\ x \in s.seen
  BY <1>2 DEF Standing, SamePlace
<1>4. ChainOf(h, s.pos.next) \in Chains(h.nchains)
  BY <1>3, ShapeIs
<1>5. Before(h.table[ChainOf(h, s.pos.next)], s.pos.next, x)
  BY <1>1, <1>2, <1>3, <1>4
<1>. QED
  BY <1>2, <1>3, <1>5 DEF Behind

\* The first shrinkage under a scan: what was seen on the chains before that of the
\* scan stays behind it, and a chain that is tacked onto another one comes after it.
LEMMA BehindShrunk ==
  ASSUME NEW h, Shape(h), h.nchains # InitSize, NEW g, g = Shrunk(h),
         NEW s, Typed(s), Standing(h, s), Behind(h, s), ~s.halved,
         NEW u, SamePlace(s, u), u.pos.linked => s.pos.linked, u.halved
  PROVE  Behind(g, u)
<1>. DEFINE m == h.nchains \div 2
            next == s.pos.next
            here == s.pos.chain
<1>0. m = h.nchains \div 2
  OBVIOUS
<1>. HIDE DEF m
<1>7. m \in Nat /\ h.nchains = 2 * m /\ g.nchains = m /\ Folded(h, g, m)
  BY <1>0, ShrunkIs
<1>1. /\ m \in Nat /\ h.nchains = 2 * m /\ g.nchains = m
      /\ \A k \in Key :
           ChainOf(g, k) = IF ChainOf(h, k) < m THEN ChainOf(h, k) ELSE ChainOf(h, k) - m
      /\ \A c \in Chains(m) : \A a, b : Before(g.table[c], a, b) =>
           \/ Before(h.table[c], a, b) \/ Before(h.table[c + m], a, b)
           \/ a \in Stored(h) /\ b \in Stored(h)
              /\ ChainOf(h, a) = c /\ ChainOf(h, b) = c + m
  BY <1>7 DEF Folded
<1>. SUFFICES ASSUME next # None PROVE Behind(g, u)
  BY DEF Behind, SamePlace
<1>2. /\ next \in Key /\ here \in Nat /\ s.seen \subseteq Key /\ next \notin s.seen
      /\ here < h.nchains /\ ChainOf(h, next) = here
      /\ \A k \in s.seen : ChainOf(h, k) <= here
      /\ s.pos.linked => \A k \in s.seen : ~Before(h.table[here], next, k)
  BY DEF Typed, Behind
<1>3. u.pos.next = next /\ u.pos.chain = here /\ u.seen = s.seen
  BY DEF SamePlace
<1>4. \A k \in s.seen : k \in Key /\ ChainOf(h, k) \in Nat
  BY <1>2, ShapeIs
<1>. HIDE DEF next, here
<1>5. here < m => /\ ChainOf(g, next) = here
                  /\ \A k \in s.seen : ChainOf(g, k) <= here
  BY <1>1, <1>2, <1>4
<1>6. ASSUME u.pos.linked, NEW x \in s.seen, Before(g.table[ChainOf(g, next)], next, x)
      PROVE  FALSE
  <2>. DEFINE c == ChainOf(g, next)
  <2>1. c \in Chains(m) /\ c \in Nat /\ c = IF here < m THEN here ELSE here - m
    <3>1. c = IF here < m THEN here ELSE here - m
      BY <1>1, <1>2
    <3>. HIDE DEF c
    <3>2. c \in Nat /\ c < m
      BY <1>1, <1>2, <3>1
    <3>. QED
      BY <1>1, <3>1, <3>2 DEF Chains
  <2>. HIDE DEF c
  <2>2. next \in Stored(h) /\ s.pos.linked
    BY <1>6 DEF Standing, next
  <2>3. \A d \in Chains(h.nchains) : Before(h.table[d], next, x) => d = here
    <3>1. ASSUME NEW d \in Chains(h.nchains), Before(h.table[d], next, x) PROVE d = here
      <4>1. h.table[d] \in Chain
        BY ShapeIs
      <4>2. next \in Members(h, d)
        BY <3>1, <4>1, ChainIs DEF Members
      <4>. QED
        BY <1>2, <4>2, ShapeIs
    <3>. QED
      BY <3>1
  <2>4. c \in Chains(h.nchains) /\ c + m \in Chains(h.nchains)
    <3>1. c < m
      BY <1>1, <2>1, <1>2
    <3>. QED
      BY <1>1, <2>1, <3>1 DEF Chains
  <2>5. \/ Before(h.table[c], next, x) \/ Before(h.table[c + m], next, x)
        \/ ChainOf(h, next) = c /\ ChainOf(h, x) = c + m
    BY <1>1, <1>6, <2>1 DEF c
  <2>6. ~Before(h.table[here], next, x)
    BY <1>2, <2>2
  <2>7. ChainOf(h, next) = c /\ ChainOf(h, x) = c + m
    BY <2>3, <2>4, <2>5, <2>6
  <2>8. here = c /\ c + m <= here /\ m > 0
    BY <1>1, <1>2, <2>7
  <2>. QED
    BY <1>1, <2>1, <2>8
<1>. QED
  BY <1>1, <1>2, <1>3, <1>5, <1>6 DEF Behind

-----------------------------------------------------------------------------
(* What a step of the scan does                                            *)

\* Where the scan is after a step.
LEMMA PlaceAfter ==
  ASSUME NEW h, Shape(h), NEW s, Typed(s), Standing(h, s), NEW p, p = After(h, s.pos)
  PROVE  /\ p = [chain |-> p.chain, next |-> p.next, linked |-> p.linked]
         /\ p.chain \in Nat /\ p.next \in Key \cup {None}
         /\ p.linked => p.next \in Stored(h)
<1>1. OnChain(h, s.pos, p) \/ OffChain(h, s.pos, p)
  BY AfterIs DEF Standing
<1>2. CASE OnChain(h, s.pos, p)
  BY <1>2 DEF OnChain, Typed
<1>3. CASE OffChain(h, s.pos, p)
  <2>1. s.pos.chain + 1 \in Nat /\ p = FirstFrom(h, s.pos.chain + 1)
    BY <1>3 DEF Typed, OffChain
  <2>. QED
    BY <2>1, FirstFromIs
<1>. QED
  BY <1>1, <1>2, <1>3

\* A step leaves no node behind unseen.
LEMMA AheadAfter ==
  ASSUME NEW h, Shape(h), NEW s, Typed(s), Standing(h, s), s.pos.next # None, Ahead(h, s),
         NEW u, u.pos = After(h, s.pos), u.seen = s.seen \cup {s.pos.next}, u.kept = s.kept
  PROVE  Ahead(h, u)
<1>. DEFINE next == s.pos.next
            here == s.pos.chain
<1>1. /\ next \in Key /\ here \in Nat /\ s.pos.linked /\ next \in Stored(h)
      /\ ChainOf(h, next) = here /\ s.kept \subseteq Stored(h)
      /\ \A k \in s.kept \ s.seen :
           ChainOf(h, k) >= here /\ ~Before(h.table[here], k, next)
  BY DEF Typed, Standing, Ahead
<1>2. /\ here \in Chains(h.nchains)
      /\ \A k \in Stored(h) : /\ k \in Key /\ ChainOf(h, k) \in Nat
                              /\ ChainOf(h, k) = here => k \in Members(h, here)
  BY <1>1, ShapeIs
<1>3. OnChain(h, s.pos, u.pos) \/ OffChain(h, s.pos, u.pos)
  BY <1>1, AfterIs
<1>4. CASE OnChain(h, s.pos, u.pos)
  <2>1. /\ u.pos.linked /\ u.pos.chain = here /\ u.pos.next \in Stored(h)
        /\ ChainOf(h, u.pos.next) = here /\ u.pos.next # None
        /\ \A k : Before(h.table[here], k, u.pos.next) =>
                    k = next \/ Before(h.table[here], k, next)
    BY <1>1, <1>4, HashAssumption DEF OnChain
  <2>2. ASSUME NEW k \in u.kept \ u.seen
        PROVE  ChainOf(h, k) >= here /\ ~Before(h.table[here], k, u.pos.next)
    BY <1>1, <2>1, <2>2
  <2>. QED
    BY <1>1, <2>1, <2>2 DEF Ahead
<1>5. CASE OffChain(h, s.pos, u.pos)
  <2>. DEFINE c == here + 1
  <2>1. /\ u.pos = FirstFrom(h, c) /\ c \in Nat
        /\ \A k \in Members(h, here) : k = next \/ Before(h.table[here], k, next)
    BY <1>1, <1>5 DEF OffChain
  <2>2. ASSUME NEW k \in u.kept \ u.seen
        PROVE  k \in Stored(h) /\ ChainOf(h, k) \in Nat /\ ChainOf(h, k) >= c
    <3>1. k \in s.kept /\ k \notin s.seen /\ k # next /\ k \in Stored(h)
      BY <1>1, <2>2
    <3>2. ChainOf(h, k) # here
      BY <1>1, <1>2, <2>1, <3>1
    <3>. QED
      BY <1>1, <1>2, <3>1, <3>2
  <2>. HIDE DEF c
  <2>3. /\ u.pos.next = None => \A k \in Stored(h) : ChainOf(h, k) < c
        /\ u.pos.next # None =>
              /\ u.pos.linked /\ ChainOf(h, u.pos.next) = u.pos.chain
              /\ \A k \in Stored(h) : ChainOf(h, k) >= c => ChainOf(h, k) >= u.pos.chain
              /\ \A a : ~Before(h.table[u.pos.chain], a, u.pos.next)
    BY <2>1, FirstFromIs
  <2>4. u.pos.next = None => \A k \in u.kept : k \in u.seen
    BY <2>1, <2>2, <2>3
  <2>. QED
    BY <1>1, <2>2, <2>3, <2>4 DEF Ahead
<1>. QED
  BY <1>3, <1>4, <1>5

\* A step reaches no node that was seen.
LEMMA BehindAfter ==
  ASSUME NEW h, Shape(h), NEW s, Typed(s), Standing(h, s), s.pos.next # None, Behind(h, s),
         NEW u, u.pos = After(h, s.pos), u.seen = s.seen \cup {s.pos.next},
         u.halved = s.halved
  PROVE  Behind(h, u)
<1>. DEFINE next == s.pos.next
            here == s.pos.chain
<1>1. /\ next \in Key /\ here \in Nat /\ s.seen \subseteq Key /\ next \notin s.seen
      /\ IF here < h.nchains
         THEN ChainOf(h, next) = here /\ \A k \in s.seen : ChainOf(h, k) <= here
         ELSE s.halved
      /\ s.pos.linked => next \in Stored(h) /\
                         \A k \in s.seen : ~Before(h.table[ChainOf(h, next)], next, k)
  BY DEF Typed, Behind, Standing
<1>2. OnChain(h, s.pos, u.pos) \/ OffChain(h, s.pos, u.pos)
  BY <1>1, AfterIs
<1>3. CASE OnChain(h, s.pos, u.pos)
  <2>. DEFINE chain == h.table[ChainOf(h, next)]
  <2>1. /\ s.pos.linked /\ u.pos.linked /\ u.pos.chain = here
        /\ ChainOf(h, u.pos.next) = ChainOf(h, next) /\ u.pos.next # next
        /\ Before(chain, next, u.pos.next)
        /\ \A k : Before(chain, u.pos.next, k) => k # next /\ Before(chain, next, k)
    BY <1>3 DEF OnChain
  <2>. HIDE DEF chain
  <2>2. \A k \in s.seen : ~Before(chain, next, k)
    BY <1>1, <2>1 DEF chain
  <2>3. u.pos.next \notin u.seen
    BY <2>1, <2>2
  <2>4. \A k \in u.seen : ~Before(chain, u.pos.next, k)
    BY <2>1, <2>2
  <2>5. IF u.pos.chain < h.nchains
        THEN /\ ChainOf(h, u.pos.next) = u.pos.chain
             /\ \A k \in u.seen : ChainOf(h, k) <= u.pos.chain
        ELSE u.halved
    BY <1>1, <2>1
  <2>. QED
    BY <2>1, <2>3, <2>4, <2>5 DEF Behind, chain
<1>4. CASE OffChain(h, s.pos, u.pos)
  <2>. DEFINE c == here + 1
  <2>1. u.pos = FirstFrom(h, c) /\ c \in Nat
    BY <1>1, <1>4 DEF OffChain
  <2>. HIDE DEF c
  <2>2. u.pos.next # None =>
              /\ u.pos.linked /\ u.pos.next \in Stored(h)
              /\ ChainOf(h, u.pos.next) = u.pos.chain
              /\ u.pos.chain \in Chains(h.nchains) /\ u.pos.chain >= c
              /\ h.table[u.pos.chain][1] = u.pos.next
    BY <2>1, FirstFromIs
  <2>. SUFFICES ASSUME u.pos.next # None PROVE Behind(h, u)
    BY DEF Behind
  <2>. DEFINE there == u.pos.chain
  <2>3. there \in Nat /\ there < h.nchains /\ h.nchains \in Nat /\ there > here
    <3>1. \A d \in Chains(h.nchains) : d \in Nat /\ d < h.nchains /\ h.nchains \in Nat
      BY ShapeIs
    <3>. QED
      BY <1>1, <2>2, <3>1 DEF c
  <2>4. ChainOf(h, next) = here /\ \A k \in s.seen : ChainOf(h, k) <= here
    BY <1>1, <2>3
  <2>5. \A k \in u.seen : k \in Key /\ ChainOf(h, k) <= here /\ ChainOf(h, k) \in Nat
    <3>1. \A k \in u.seen : k \in Key
      BY <1>1
    <3>2. \A k \in Key : ChainOf(h, k) \in Nat
      BY ShapeIs
    <3>. QED
      BY <1>1, <2>4, <3>1, <3>2
  <2>6. \A k \in u.seen : ChainOf(h, k) < there /\ ChainOf(h, k) <= there
    BY <1>1, <2>3, <2>5
  <2>7. u.pos.next \notin u.seen
    BY <2>2, <2>3, <2>6
  <2>8. ASSUME NEW k \in u.seen, Before(h.table[there], u.pos.next, k) PROVE FALSE
    <3>1. h.table[there] \in Chain
      BY <2>2, ShapeIs
    <3>2. k \in Members(h, there)
      BY <2>8, <3>1, ChainIs DEF Members
    <3>3. ChainOf(h, k) = there
      BY <2>2, <3>2, ShapeIs
    <3>. QED
      BY <2>3, <2>6, <3>3
  <2>. QED
    BY <2>2, <2>3, <2>6, <2>7, <2>8 DEF Behind
<1>. QED
  BY <1>2, <1>3, <1>4

\* Where the scan begins.
LEMMA FirstPlace ==
  ASSUME NEW h, Shape(h), NEW s, s.pos = FirstFrom(h, 0), s.seen = {}, s.kept = Stored(h)
  PROVE  /\ s.pos = [chain |-> s.pos.chain, next |-> s.pos.next, linked |-> s.pos.linked]
         /\ s.pos.chain \in Nat /\ s.pos.next \in Key \cup {None}
         /\ Standing(h, s) /\ Ahead(h, s) /\ Behind(h, s) /\ Emptied(h, s)
<1>. DEFINE p == s.pos
<1>1. /\ p = [chain |-> p.chain, next |-> p.next, linked |-> p.linked]
      /\ p.chain \in Nat /\ p.next \in Key \cup {None}
      /\ p.next = None => ~p.linked /\ \A k \in Stored(h) : ChainOf(h, k) < 0
      /\ p.next # None =>
           /\ p.linked /\ p.next \in Stored(h) /\ ChainOf(h, p.next) = p.chain
           /\ p.chain \in Chains(h.nchains) /\ p.chain >= 0
           /\ h.table[p.chain][1] = p.next
           /\ \A k \in Stored(h) : ChainOf(h, k) >= 0 => ChainOf(h, k) >= p.chain
           /\ \A a : ~Before(h.table[p.chain], a, p.next)
  BY FirstFromIs
<1>2. /\ \A k \in Stored(h) : ChainOf(h, k) \in Nat
      /\ \A c \in Chains(h.nchains) :
           /\ c \in Nat /\ c < h.nchains
           /\ \A k : k \in Members(h, c) => k \in Stored(h) /\ ChainOf(h, k) = c
  BY ShapeIs
<1>3. p.next = None => Stored(h) = {}
  BY <1>1, <1>2
<1>4. Standing(h, s)
  BY <1>1 DEF Standing
<1>5. Ahead(h, s)
  BY <1>1, <1>2, <1>3 DEF Ahead
<1>6. Behind(h, s)
  BY <1>1, <1>2 DEF Behind
<1>7. Emptied(h, s)
  <2>. SUFFICES ASSUME p.next # None, NEW c \in Chains(h.nchains), c < p.chain,
                       NEW k \in Members(h, c)
                PROVE  FALSE
    BY <1>1, <1>3 DEF Emptied
  <2>. QED
    BY <1>1, <1>2
<1>. QED
  BY <1>1, <1>4, <1>5, <1>6, <1>7

\* The node that is returned is deleted: the scan is on the next one.
LEMMA EmptiedAfter ==
  ASSUME NEW h, Shape(h), NEW s, Typed(s), Standing(h, s), s.pos.next # None, Emptied(h, s),
         NEW g, g = Unlinked(h, s.pos.next), NEW u, u.pos = After(h, s.pos)
  PROVE  Standing(g, u) /\ Emptied(g, u)
<1>. DEFINE next == s.pos.next
            here == s.pos.chain
            p == u.pos
<1>1. /\ next \in Key /\ here \in Nat /\ s.pos.linked /\ next \in Stored(h)
      /\ ChainOf(h, next) = here /\ h.table[here][1] = next
      /\ \A c \in Chains(h.nchains) : c < here => Members(h, c) = {}
  BY DEF Typed, Standing, Emptied
<1>2. /\ here \in Chains(h.nchains)
      /\ \A k \in Stored(h) : k \in Key /\ ChainOf(h, k) \in Chains(h.nchains)
      /\ \A c \in Chains(h.nchains) :
           /\ c \in Nat /\ h.table[c] \in Chain
           /\ \A k : k \in Members(h, c) <=> k \in Stored(h) /\ ChainOf(h, k) = c
  BY <1>1, ShapeIs
<1>3. /\ Shape(g) /\ g.nchains = h.nchains /\ Stored(g) = Stored(h) \ {next}
      /\ \A x : ChainOf(g, x) = ChainOf(h, x)
      /\ \A c \in Chains(h.nchains) :
           g.table[c] = IF c = here THEN RemoveFirst(h.table[c], next) ELSE h.table[c]
  BY <1>1, UnlinkedIs
<1>4. \A c \in Chains(h.nchains) :
        \A k : k \in Members(g, c) <=> k \in Members(h, c) /\ k # next
  <2>1. \A c \in Chains(g.nchains) :
          \A k : k \in Members(g, c) <=> k \in Stored(g) /\ ChainOf(g, k) = c
    BY <1>3, ShapeIs
  <2>. QED
    BY <1>2, <1>3, <2>1
<1>5. OnChain(h, s.pos, p) \/ OffChain(h, s.pos, p)
  BY <1>1, AfterIs
<1>6. CASE OnChain(h, s.pos, p)
  <2>. DEFINE t == h.table[here]
  <2>1. /\ p.linked /\ p.chain = here /\ p.next \in Stored(h) /\ p.next \in Key
        /\ ChainOf(h, p.next) = here /\ p.next # next
        /\ Len(t) >= 2 /\ p.next = t[2]
    BY <1>1, <1>6 DEF OnChain
  <2>2. t \in Chain /\ next \in ToSet(t) /\ t[1] = next
    BY <1>1, <1>2 DEF Members
  <2>3. Len(t) \in Nat
    BY <2>2, ChainIs
  <2>. HIDE DEF t
  <2>4. \A i \in 1..(Len(t) - 1) : RemoveFirst(t, next)[i] = t[i + 1]
    BY <2>2, CutIs
  <2>5. RemoveFirst(t, next)[1] = t[2]
    <3>1. 1 \in 1..(Len(t) - 1) /\ 1 + 1 = 2
      BY <2>1, <2>3
    <3>. QED
      BY <2>4, <3>1
  <2>6. g.table[here][1] = p.next
    BY <1>2, <1>3, <2>1, <2>5 DEF t
  <2>7. p.next \in Stored(g) /\ ChainOf(g, p.next) = here /\ p.next # None
    BY <1>3, <2>1, HashAssumption
  <2>8. \A c \in Chains(g.nchains) : c < here => Members(g, c) = {}
    BY <1>1, <1>3, <1>4
  <2>. QED
    BY <2>1, <2>6, <2>7, <2>8 DEF Standing, Emptied
<1>7. CASE OffChain(h, s.pos, p)
  <2>. DEFINE c == here + 1
  <2>1. /\ p = FirstFrom(h, c) /\ c \in Nat
        /\ \A k \in Members(h, here) : k = next \/ Before(h.table[here], k, next)
    BY <1>1, <1>7 DEF OffChain
  <2>2. \A k \in Members(h, here) : k = next
    <3>1. ASSUME NEW k, Before(h.table[here], k, next) PROVE FALSE
      <4>. DEFINE t == h.table[here]
      <4>1. t \in Chain
        BY <1>2
      <4>. HIDE DEF t
      <4>2. PICK i, j \in 1..Len(t) : i < j /\ t[j] = next
        BY <3>1, <4>1, ChainIs DEF t
      <4>3. \A a, b \in 1..Len(t) : t[a] = t[b] => a = b
        BY <4>1, ChainIs
      <4>4. t[1] = next /\ Len(t) \in Nat
        BY <1>1, <4>1, ChainIs DEF t
      <4>5. 1 \in 1..Len(t)
        BY <4>2, <4>4
      <4>6. j = 1
        BY <4>2, <4>3, <4>4, <4>5
      <4>. QED
        BY <4>2, <4>4, <4>6
    <3>. QED
      BY <2>1, <3>1
  <2>3. \A k \in Stored(g) : k \in Stored(h) /\ ChainOf(h, k) \in Nat /\ ChainOf(h, k) >= c
    <3>1. ASSUME NEW k \in Stored(g) PROVE ChainOf(h, k) \in Nat /\ ChainOf(h, k) >= c
      <4>1. /\ k \in Stored(h) /\ k # next /\ k \in Members(h, ChainOf(h, k))
            /\ ChainOf(h, k) \in Chains(h.nchains) /\ ChainOf(h, k) \in Nat
        BY <1>2, <1>3
      <4>2. ~(ChainOf(h, k) < here) /\ ChainOf(h, k) # here
        BY <1>1, <2>2, <4>1
      <4>. QED
        BY <1>1, <4>1, <4>2
    <3>. QED
      BY <1>3, <3>1
  <2>4. c > here
    BY <1>1
  <2>. HIDE DEF c
  <2>5. /\ p.next = None => ~p.linked /\ \A k \in Stored(h) : ChainOf(h, k) < c
        /\ p.next # None =>
              /\ p.linked /\ p.next \in Stored(h) /\ ChainOf(h, p.next) = p.chain
              /\ p.chain \in Chains(h.nchains) /\ p.chain >= c
              /\ h.table[p.chain][1] = p.next
              /\ \A k \in Stored(h) : ChainOf(h, k) >= c => ChainOf(h, k) >= p.chain
    BY <2>1, FirstFromIs
  <2>6. CASE p.next = None
    <3>1. Stored(g) = {}
      BY <2>1, <2>3, <2>5, <2>6
    <3>. QED
      BY <2>5, <2>6, <3>1 DEF Standing, Emptied
  <2>7. CASE p.next # None
    <3>1. p.chain # here /\ p.chain \in Nat
      BY <1>1, <1>2, <2>1, <2>4, <2>5, <2>7
    <3>2. p.next \in Stored(g) /\ g.table[p.chain][1] = p.next /\ ChainOf(g, p.next) = p.chain
      BY <1>1, <1>3, <2>5, <2>7, <3>1
    <3>3. ASSUME NEW d \in Chains(g.nchains), d < p.chain, NEW k \in Members(g, d)
          PROVE  FALSE
      <4>1. k \in Stored(g) /\ ChainOf(g, k) = d
        BY <1>3, <3>3, ShapeIs
      <4>2. ChainOf(h, k) = d /\ ChainOf(h, k) >= p.chain
        BY <1>3, <2>3, <2>5, <2>7, <4>1
      <4>. QED
        BY <1>2, <1>3, <3>1, <3>3, <4>2
    <3>. QED
      BY <2>5, <2>7, <3>2, <3>3 DEF Standing, Emptied
  <2>. QED
    BY <2>6, <2>7
<1>. QED
  BY <1>5, <1>6, <1>7

-----------------------------------------------------------------------------
(* The count                                                               *)

\* The count goes up with the nodes, ...
LEMMA CountedLinked ==
  ASSUME NEW h, Shape(h), Counted(h), NEW k \in Key, ~Lookup(h, k), NEW g, g = Linked(h, k)
  PROVE  Counted(g)
<1>1. g.nodecount = h.nodecount + 1 /\ Stored(g) = Stored(h) \cup {k} /\ k \notin Stored(h)
  BY LinkedIs
<1>. QED
  BY <1>1, FS_AddElement DEF Counted

\* ... and down with them.
LEMMA CountedUnlinked ==
  ASSUME NEW h, Shape(h), Counted(h), NEW k \in Stored(h), NEW g, g = Unlinked(h, k)
  PROVE  Counted(g)
<1>1. g.nodecount = h.nodecount - 1 /\ Stored(g) = Stored(h) \ {k}
  BY UnlinkedIs
<1>. QED
  BY <1>1, FS_RemoveElement DEF Counted

\* hash_free_nodes ends by clearing the chains and the count.
LEMMA ClearedIs ==
  ASSUME NEW h, Shape(h), NEW g, g = Cleared(h)
  PROVE  Shape(g) /\ Counted(g) /\ Stored(g) = {} /\ g.nodecount = 0
<1>. DEFINE t == [c \in Chains(h.nchains) |-> <<>>]
<1>1. /\ IsHash(g) /\ g.nchains = h.nchains /\ g.highmark = h.highmark
      /\ g.lowmark = h.lowmark /\ g.nodecount = 0 /\ g.table = t
  BY DEF Cleared, IsHash, Shape
<1>2. <<>> \in Chain /\ ToSet(<<>>) = {}
  <2>1. <<>> \in Seq(Key) /\ Len(<<>>) = 0 /\ DOMAIN <<>> = 1..0
    BY EmptySeq
  <2>2. \A i \in 1..0 : FALSE
    OBVIOUS
  <2>3. <<>> \in Chain
    BY <2>1, <2>2, IsChain
  <2>4. \A x : x \notin ToSet(<<>>)
    BY <2>1, <2>2, <2>3, ChainIs
  <2>. QED
    BY <2>3, <2>4
<1>3. t \in [Chains(h.nchains) -> Chain] /\ \A c \in Chains(h.nchains) : t[c] = <<>>
  BY <1>2
<1>. HIDE DEF t
<1>4. \A c \in Chains(h.nchains) : Members(g, c) = {}
  BY <1>1, <1>2, <1>3 DEF Members
<1>5. Shape(g)
  <2>1. h.nchains \in Sizes /\ h.highmark = 2 * h.nchains /\ h.lowmark = h.nchains \div 2
    BY DEF Shape
  <2>. QED
    BY <1>1, <1>3, <1>4, <2>1 DEF Shape
<1>6. Stored(g) = {}
  BY <1>1, <1>4 DEF Stored
<1>. QED
  BY <1>1, <1>5, <1>6, FS_EmptySet DEF Counted

-----------------------------------------------------------------------------
(* The invariant is inductive                                              *)

\* A new table is empty, and no enumeration is in progress.
LEMMA InitInv == Init => IInv
<1>. SUFFICES ASSUME Init PROVE IInv
  OBVIOUS
<1>. DEFINE t == [c \in Chains(InitSize) |-> <<>>]
<1>1. /\ IsHash(hash) /\ hash.nchains = InitSize /\ hash.highmark = 2 * InitSize
      /\ hash.lowmark = InitSize \div 2 /\ hash.nodecount = 0 /\ hash.table = t
  BY DEF Init, IsHash
<1>2. <<>> \in Chain /\ ToSet(<<>>) = {}
  <2>1. <<>> \in Seq(Key) /\ Len(<<>>) = 0
    BY EmptySeq
  <2>2. \A i \in 1..0 : FALSE
    OBVIOUS
  <2>3. <<>> \in Chain
    BY <2>1, <2>2, IsChain
  <2>. QED
    BY <2>1, <2>2, <2>3, ChainIs
<1>3. t \in [Chains(InitSize) -> Chain] /\ \A c \in Chains(InitSize) : t[c] = <<>>
  BY <1>2
<1>. HIDE DEF t
<1>4. \A c \in Chains(hash.nchains) : Members(hash, c) = {}
  BY <1>1, <1>2, <1>3 DEF Members
<1>5. Shape(hash)
  BY <1>1, <1>3, <1>4, SizesIs DEF Shape
<1>6. Counted(hash)
  <2>1. Stored(hash) = {}
    BY <1>4 DEF Stored
  <2>. QED
    BY <1>1, <2>1, FS_EmptySet DEF Counted
<1>7. scan = Idle /\ failures \in 0 .. MaxFailures
  BY HashAssumption DEF Init
<1>8. /\ IsScan(scan) /\ scan.mode = "idle" /\ scan.pos.chain = 0 /\ scan.pos.next = None
      /\ scan.seen = {} /\ scan.twice = {} /\ scan.kept = {}
  BY <1>7 DEF Idle, IsScan
<1>. QED
  BY <1>5, <1>6, <1>7, <1>8 DEF IInv, ScanOK, Typed, EnumAll, EnumOnce, FreeOK

\* The scan is given up, or is at its end.
LEMMA IdleInv ==
  ASSUME Shape(hash'), Counted(hash'), failures' \in 0 .. MaxFailures, scan' = Idle
  PROVE  IInv'
<1>1. /\ IsScan(Idle) /\ Idle.mode = "idle" /\ Idle.pos.chain = 0 /\ Idle.pos.next = None
      /\ Idle.seen = {} /\ Idle.twice = {} /\ Idle.kept = {}
  BY DEF Idle, IsScan
<1>. HIDE DEF Idle
<1>2. Typed(Idle)
  BY <1>1 DEF Typed
<1>. QED
  BY <1>1, <1>2 DEF IInv, ScanOK, EnumAll, EnumOnce, FreeOK

\* Insertion, with or without growth.
LEMMA InsertInv ==
  ASSUME IInv, NEW k \in Key, Insert(k)
  PROVE  IInv'
<1>. DEFINE h == IF hash' = Linked(hash, k) THEN hash ELSE Grown(hash)
<1>1. /\ Shape(hash) /\ Counted(hash) /\ Typed(scan) /\ failures \in 0 .. MaxFailures
      /\ scan.mode # "idle" => Standing(hash, scan)
      /\ EnumAll /\ EnumOnce /\ FreeOK
  BY DEF IInv, ScanOK
<1>2. /\ ~Lookup(hash, k) /\ scan' = Seeing(hash', k) /\ MayChange
      /\ hash' = Linked(hash, k) \/ hash' = Linked(Grown(hash), k)
  BY DEF Insert
<1>3. failures' \in 0 .. MaxFailures
  BY <1>1, HashAssumption DEF Insert
<1>4. Shape(h) /\ Counted(h) /\ Stored(h) = Stored(hash) /\ ~Lookup(h, k)
      /\ hash' = Linked(h, k) /\ (h = hash \/ h.nchains > hash.nchains)
  <2>1. CASE hash' = Linked(hash, k)
    BY <1>1, <1>2, <2>1
  <2>2. CASE hash' # Linked(hash, k)
    <3>. DEFINE g == Grown(hash)
    <3>1. h = g /\ hash' = Linked(g, k) /\ g = Grown(hash)
      BY <1>2, <2>2
    <3>. HIDE DEF g
    <3>2. /\ Shape(g) /\ g.nchains = 2 * hash.nchains /\ g.nodecount = hash.nodecount
          /\ Stored(g) = Stored(hash)
      BY <1>1, <3>1, GrownIs
    <3>3. k \notin Stored(hash) /\ hash.nchains \in Nat /\ hash.nchains > 0
      BY <1>1, <1>2, ShapeIs
    <3>4. ~Lookup(g, k)
      BY <3>2, <3>3, ShapeIs
    <3>5. Counted(g) /\ g.nchains > hash.nchains
      BY <1>1, <3>2, <3>3 DEF Counted
    <3>. HIDE DEF h
    <3>. QED
      BY <3>1, <3>2, <3>4, <3>5
  <2>. QED
    BY <2>1, <2>2
<1>. HIDE DEF h
<1>5. /\ Shape(hash') /\ hash'.nchains = h.nchains /\ Stored(hash') = Stored(h) \cup {k}
      /\ Lookup(hash', k)
  BY <1>4, LinkedIs
<1>6. Counted(hash')
  BY <1>4, CountedLinked
<1>7. CASE scan.mode = "idle"
  <2>1. scan' = scan
    BY <1>2, <1>7 DEF Seeing
  <2>. QED
    BY <1>1, <1>3, <1>5, <1>6, <1>7, <2>1
    DEF IInv, ScanOK, EnumAll, EnumOnce, FreeOK
<1>8. CASE scan.mode # "idle"
  <2>. DEFINE s == Seeing(hash', k)
  <2>0. scan' = s
    BY <1>2
  <2>1. /\ IsScan(s) /\ s.mode = scan.mode
        /\ s.pos.chain = scan.pos.chain /\ s.pos.next = scan.pos.next
        /\ s.seen = scan.seen /\ s.twice = scan.twice /\ s.kept = scan.kept \ {k}
        /\ s.pos.linked <=> scan.pos.linked /\ (scan.pos.next # k \/ Lookup(hash', k))
        /\ s.clean => scan.clean /\ hash'.nchains = hash.nchains
        /\ ~s.mixed => ~scan.mixed /\ ~(hash'.nchains > hash.nchains)
        /\ s.halved <=> scan.halved \/ hash'.nchains < hash.nchains
    BY <1>1, <1>8, SeeingIs DEF Typed
  <2>. HIDE DEF s
  <2>2. scan.mode = "enum"
    BY <1>2, <1>8 DEF MayChange
  <2>3. Typed(s) /\ SamePlace(scan, s) /\ (s.pos.linked <=> scan.pos.linked)
    BY <1>1, <1>5, <2>1 DEF Typed, SamePlace
  <2>4. Standing(hash, scan) /\ Standing(hash', s)
    BY <1>1, <1>4, <1>5, <1>8, <2>1, <2>3 DEF Standing
  <2>5. ASSUME s.clean PROVE Ahead(hash', s)
    <3>1. h = hash /\ hash' = Linked(hash, k)
      BY <1>4, <1>5, <2>1, <2>5, ShapeIs, <1>1
    <3>2. Ahead(hash, scan)
      BY <1>1, <2>1, <2>2, <2>5 DEF EnumAll
    <3>. QED
      BY <1>1, <1>2, <2>1, <2>3, <2>4, <3>1, <3>2, AheadLinked
  <2>6. ASSUME ~s.mixed PROVE Behind(hash', s) /\ s.twice = {}
    <3>1. h = hash /\ hash' = Linked(hash, k)
      BY <1>4, <1>5, <2>1, <2>6
    <3>2. Behind(hash, scan) /\ scan.twice = {}
      BY <1>1, <2>1, <2>2, <2>6 DEF EnumOnce
    <3>. QED
      BY <1>1, <1>2, <2>1, <2>3, <2>4, <3>1, <3>2, BehindLinked
  <2>. QED
    BY <1>3, <1>5, <1>6, <2>0, <2>1, <2>2, <2>3, <2>4, <2>5, <2>6
    DEF IInv, ScanOK, EnumAll, EnumOnce, FreeOK
<1>. QED
  BY <1>7, <1>8

\* Deletion, with or without shrinkage.
LEMMA DeleteInv ==
  ASSUME IInv, NEW k \in Key, Delete(k)
  PROVE  IInv'
<1>. DEFINE h == IF hash.nodecount <= hash.lowmark /\ hash.nodecount > InitSize
                 THEN Shrunk(hash) ELSE hash
<1>1. /\ Shape(hash) /\ Counted(hash) /\ Typed(scan) /\ failures \in 0 .. MaxFailures
      /\ scan.mode # "idle" => Standing(hash, scan)
      /\ EnumAll /\ EnumOnce /\ FreeOK
  BY DEF IInv, ScanOK
<1>2. /\ Lookup(hash, k) /\ scan' = Seeing(hash', k) /\ MayChange
      /\ hash' = Unlinked(h, k) /\ failures' = failures
  BY DEF Delete
<1>3. \/ h = hash
      \/ /\ h = Shrunk(hash) /\ hash.nchains # InitSize
         /\ hash.nodecount <= hash.lowmark /\ hash.nodecount > InitSize
  <2>1. CASE ~(hash.nodecount <= hash.lowmark /\ hash.nodecount > InitSize)
    BY <2>1
  <2>2. CASE hash.nodecount <= hash.lowmark /\ hash.nodecount > InitSize
    <3>1. hash.nodecount \in Nat
      BY <1>1, FS_CardinalityType DEF Counted
    <3>2. hash.lowmark = hash.nchains \div 2
      BY <1>1 DEF Shape
    <3>3. InitSize \in Nat
      BY HashAssumption
    <3>4. hash.nchains = InitSize => hash.lowmark <= InitSize
      BY <3>2, <3>3
    <3>5. hash.lowmark \in Nat
      BY <1>1, <3>2, ShapeIs
    <3>. QED
      BY <2>2, <3>1, <3>3, <3>4, <3>5
  <2>. QED
    BY <2>1, <2>2
<1>. HIDE DEF h
<1>4. /\ Shape(h) /\ Counted(h) /\ Stored(h) = Stored(hash)
      /\ h = hash \/ h.nchains < hash.nchains
  <2>1. CASE h = hash
    BY <1>1, <2>1
  <2>2. CASE h # hash
    <3>1. h = Shrunk(hash) /\ hash.nchains # InitSize
      BY <1>3, <2>2
    <3>. DEFINE m == hash.nchains \div 2
    <3>2. m = hash.nchains \div 2
      OBVIOUS
    <3>. HIDE DEF m
    <3>3. /\ Shape(h) /\ m \in Nat /\ hash.nchains = 2 * m /\ h.nchains = m
          /\ h.nodecount = hash.nodecount /\ Stored(h) = Stored(hash)
      BY <1>1, <3>1, <3>2, ShrunkIs
    <3>4. hash.nchains > 0
      BY <1>1, ShapeIs
    <3>. QED
      BY <1>1, <3>3, <3>4 DEF Counted
  <2>. QED
    BY <2>1, <2>2
<1>5. k \in Stored(h)
  BY <1>1, <1>2, <1>4, ShapeIs
<1>6. /\ Shape(hash') /\ hash'.nchains = h.nchains /\ Stored(hash') = Stored(h) \ {k}
      /\ ~Lookup(hash', k)
  <2>1. Shape(hash') /\ hash'.nchains = h.nchains /\ Stored(hash') = Stored(h) \ {k}
    BY <1>2, <1>4, <1>5, UnlinkedIs
  <2>. QED
    BY <2>1, ShapeIs
<1>7. Counted(hash')
  BY <1>2, <1>4, <1>5, CountedUnlinked
<1>8. CASE scan.mode = "idle"
  <2>1. scan' = scan
    BY <1>2, <1>8 DEF Seeing
  <2>. QED
    BY <1>1, <1>2, <1>6, <1>7, <1>8, <2>1
    DEF IInv, ScanOK, EnumAll, EnumOnce, FreeOK
<1>9. CASE scan.mode # "idle"
  <2>. DEFINE s == Seeing(hash', k)
  <2>0. scan' = s
    BY <1>2
  <2>1. /\ IsScan(s) /\ s.mode = scan.mode
        /\ s.pos.chain = scan.pos.chain /\ s.pos.next = scan.pos.next
        /\ s.seen = scan.seen /\ s.twice = scan.twice /\ s.kept = scan.kept \ {k}
        /\ s.pos.linked <=> scan.pos.linked /\ (scan.pos.next # k \/ Lookup(hash', k))
        /\ s.clean => /\ scan.clean /\ hash'.nchains = hash.nchains
                      /\ scan.pos.linked => scan.pos.next # k \/ Lookup(hash', k)
        /\ ~s.mixed => /\ ~scan.mixed
                       /\ hash'.nchains < hash.nchains => ~scan.halved
        /\ s.halved <=> scan.halved \/ hash'.nchains < hash.nchains
    BY <1>1, <1>9, SeeingIs DEF Typed
  <2>. HIDE DEF s
  <2>2. scan.mode = "enum"
    BY <1>2, <1>9 DEF MayChange
  <2>3. Typed(s) /\ SamePlace(scan, s) /\ (s.pos.linked => scan.pos.linked)
    BY <1>1, <1>6, <2>1 DEF Typed, SamePlace
  <2>4. Standing(hash, scan) /\ Standing(hash', s)
    BY <1>1, <1>4, <1>6, <1>9, <2>1, <2>3 DEF Standing
  <2>5. ASSUME s.clean PROVE Ahead(hash', s)
    <3>1. h = hash /\ hash' = Unlinked(hash, k)
      <4>1. ~(h.nchains < hash.nchains)
        BY <1>1, <1>6, <2>1, <2>5, ShapeIs
      <4>. QED
        BY <1>2, <1>4, <4>1
    <3>2. Ahead(hash, scan)
      BY <1>1, <2>1, <2>2, <2>5 DEF EnumAll
    <3>3. scan.pos.linked => s.pos.linked
      BY <2>1, <2>5
    <3>. QED
      BY <1>1, <1>5, <2>1, <2>3, <2>4, <3>1, <3>2, <3>3, AheadUnlinked
  <2>6. ASSUME ~s.mixed PROVE Behind(hash', s) /\ s.twice = {}
    <3>1. Behind(hash, scan) /\ scan.twice = {} /\ (scan.halved => s.halved)
      BY <1>1, <2>1, <2>2, <2>6 DEF EnumOnce
    <3>2. CASE h = hash
      BY <1>1, <1>2, <1>5, <2>1, <2>3, <2>4, <3>1, <3>2, BehindUnlinked
    <3>3. CASE h # hash
      <4>1. /\ h = Shrunk(hash) /\ hash.nchains # InitSize /\ hash'.nchains < hash.nchains
        BY <1>3, <1>4, <1>6, <3>3
      <4>2. ~scan.halved /\ s.halved
        BY <2>1, <2>6, <4>1
      <4>3. Behind(h, s)
        BY <1>1, <2>3, <2>4, <3>1, <4>1, <4>2, BehindShrunk
      <4>4. Standing(h, s)
        BY <1>4, <2>3, <2>4 DEF Standing, SamePlace
      <4>5. SamePlace(s, s)
        BY DEF SamePlace
      <4>6. Behind(hash', s)
        BY <1>2, <1>4, <1>5, <2>3, <4>3, <4>4, <4>5, BehindUnlinked
      <4>. QED
        BY <2>1, <3>1, <4>6
    <3>. QED
      BY <3>2, <3>3
  <2>. QED
    BY <1>1, <1>2, <1>6, <1>7, <2>0, <2>1, <2>2, <2>3, <2>4, <2>5, <2>6
    DEF IInv, ScanOK, EnumAll, EnumOnce, FreeOK
<1>. QED
  BY <1>8, <1>9

\* An enumeration, or a clearing, begins.
LEMMA BeginInv ==
  ASSUME IInv, NEW mode \in {"enum", "free"}, scan' = Scanning(mode, hash),
         UNCHANGED <<hash, failures>>
  PROVE  IInv'
<1>. DEFINE s == Scanning(mode, hash)
            p == FirstFrom(hash, 0)
<1>1. Shape(hash) /\ Counted(hash) /\ failures \in 0 .. MaxFailures
  BY DEF IInv
<1>. HIDE DEF p
<1>2. /\ s.mode = mode /\ s.pos = p /\ s.seen = {} /\ s.twice = {} /\ s.kept = Stored(hash)
      /\ s = [mode |-> s.mode, pos |-> s.pos, seen |-> s.seen, twice |-> s.twice,
              kept |-> s.kept, clean |-> s.clean, halved |-> s.halved, mixed |-> s.mixed,
              changes |-> s.changes]
  BY DEF Scanning, p
<1>. HIDE DEF s
<1>3. /\ s.pos = [chain |-> s.pos.chain, next |-> s.pos.next, linked |-> s.pos.linked]
      /\ s.pos.chain \in Nat /\ s.pos.next \in Key \cup {None}
      /\ Standing(hash, s) /\ Ahead(hash, s) /\ Behind(hash, s) /\ Emptied(hash, s)
  BY <1>1, <1>2, FirstPlace DEF p
<1>4. IsScan(s)
  BY <1>2, <1>3 DEF IsScan
<1>5. s.kept \subseteq Key
  BY <1>1, <1>2, ShapeIs
<1>6. Typed(s)
  BY <1>2, <1>3, <1>4, <1>5 DEF Typed
<1>7. scan' = s /\ hash' = hash /\ failures' = failures
  BY DEF s
<1>. QED
  BY <1>1, <1>2, <1>3, <1>6, <1>7 DEF IInv, ScanOK, EnumAll, EnumOnce, FreeOK

\* The enumeration returns a node.
LEMMA NextNodeInv ==
  ASSUME IInv, NextNode
  PROVE  IInv'
<1>. DEFINE p == After(hash, scan.pos)
            seen == scan.seen \cup {scan.pos.next}
            twice == scan.twice \cup ({scan.pos.next} \cap scan.seen)
            s == [scan EXCEPT !.pos = p, !.seen = seen, !.twice = twice]
<1>1. /\ Shape(hash) /\ Counted(hash) /\ Typed(scan) /\ failures \in 0 .. MaxFailures
      /\ scan.mode # "idle" => Standing(hash, scan)
      /\ EnumAll /\ EnumOnce /\ FreeOK
  BY DEF IInv, ScanOK
<1>2. /\ scan.mode = "enum" /\ scan.pos.next # None /\ hash' = hash /\ failures' = failures
      /\ scan' = s
  BY DEF NextNode
<1>. HIDE DEF p, seen, twice
<1>3. s = [mode |-> scan.mode, pos |-> p, seen |-> seen, twice |-> twice,
           kept |-> scan.kept, clean |-> scan.clean, halved |-> scan.halved,
           mixed |-> scan.mixed, changes |-> scan.changes]
  <2>. DEFINE s1 == [scan EXCEPT !.pos = p]
              s2 == [s1 EXCEPT !.seen = seen]
  <2>1. s1 = [mode |-> scan.mode, pos |-> p, seen |-> scan.seen, twice |-> scan.twice,
              kept |-> scan.kept, clean |-> scan.clean, halved |-> scan.halved,
              mixed |-> scan.mixed, changes |-> scan.changes]
    BY <1>1 DEF Typed, IsScan
  <2>. HIDE DEF s1
  <2>2. s2 = [mode |-> scan.mode, pos |-> p, seen |-> seen, twice |-> scan.twice,
              kept |-> scan.kept, clean |-> scan.clean, halved |-> scan.halved,
              mixed |-> scan.mixed, changes |-> scan.changes]
    BY <2>1
  <2>3. s = [s2 EXCEPT !.twice = twice]
    BY DEF s1
  <2>. HIDE DEF s2, s
  <2>. QED
    BY <2>2, <2>3
<1>4. /\ s.mode = "enum" /\ s.pos = p /\ s.seen = seen /\ s.twice = twice
      /\ s.kept = scan.kept /\ s.clean = scan.clean /\ s.halved = scan.halved
      /\ s.mixed = scan.mixed /\ s.changes = scan.changes
  BY <1>2, <1>3
<1>5. Standing(hash, scan)
  BY <1>1, <1>2
<1>6. /\ p = [chain |-> p.chain, next |-> p.next, linked |-> p.linked]
      /\ p.chain \in Nat /\ p.next \in Key \cup {None}
      /\ p.linked => p.next \in Stored(hash)
  BY <1>1, <1>5, PlaceAfter DEF p
<1>7. s = [mode |-> s.mode, pos |-> s.pos, seen |-> s.seen, twice |-> s.twice,
           kept |-> s.kept, clean |-> s.clean, halved |-> s.halved, mixed |-> s.mixed,
           changes |-> s.changes]
  BY <1>3
<1>. HIDE DEF s
<1>8. IsScan(s)
  BY <1>4, <1>6, <1>7 DEF IsScan
<1>9. s.seen \subseteq Key
  BY <1>1, <1>2, <1>4 DEF Typed, seen
<1>10. Typed(s)
  BY <1>1, <1>4, <1>6, <1>8, <1>9 DEF Typed
<1>11. Standing(hash, s)
  BY <1>4, <1>6 DEF Standing
<1>12. ASSUME s.clean PROVE Ahead(hash, s)
  <2>1. Ahead(hash, scan)
    BY <1>1, <1>2, <1>4, <1>12 DEF EnumAll
  <2>. QED
    BY <1>1, <1>2, <1>4, <1>5, <2>1, AheadAfter DEF p, seen
<1>13. ASSUME ~s.mixed PROVE Behind(hash, s) /\ s.twice = {}
  <2>1. Behind(hash, scan) /\ scan.twice = {}
    BY <1>1, <1>2, <1>4, <1>13 DEF EnumOnce
  <2>2. scan.pos.next \notin scan.seen
    BY <1>2, <2>1 DEF Behind
  <2>3. Behind(hash, s)
    BY <1>1, <1>2, <1>4, <1>5, <2>1, BehindAfter DEF p, seen
  <2>. QED
    BY <1>4, <2>1, <2>2, <2>3 DEF twice
<1>. QED
  BY <1>1, <1>2, <1>4, <1>10, <1>11, <1>12, <1>13
  DEF IInv, ScanOK, EnumAll, EnumOnce, FreeOK

\* The clearing returns a node and deletes it.
LEMMA FreeNodeInv ==
  ASSUME IInv, FreeNode
  PROVE  IInv'
<1>. DEFINE p == After(hash, scan.pos)
            s == [scan EXCEPT !.pos = p]
<1>1. /\ Shape(hash) /\ Counted(hash) /\ Typed(scan) /\ failures \in 0 .. MaxFailures
      /\ scan.mode # "idle" => Standing(hash, scan)
      /\ EnumAll /\ EnumOnce /\ FreeOK
  BY DEF IInv, ScanOK
<1>2. /\ scan.mode = "free" /\ scan.pos.next # None /\ failures' = failures
      /\ scan' = s /\ hash' = Unlinked(hash, scan.pos.next)
  BY DEF FreeNode
<1>. HIDE DEF p
<1>3. /\ s = [mode |-> scan.mode, pos |-> p, seen |-> scan.seen, twice |-> scan.twice,
              kept |-> scan.kept, clean |-> scan.clean, halved |-> scan.halved,
              mixed |-> scan.mixed, changes |-> scan.changes]
  BY <1>1 DEF Typed, IsScan
<1>4. /\ s.mode = "free" /\ s.pos = p /\ s.seen = scan.seen /\ s.twice = scan.twice
      /\ s.kept = scan.kept /\ s.mixed = scan.mixed
  BY <1>2, <1>3
<1>5. Standing(hash, scan) /\ Emptied(hash, scan)
  BY <1>1, <1>2 DEF FreeOK
<1>6. /\ p = [chain |-> p.chain, next |-> p.next, linked |-> p.linked]
      /\ p.chain \in Nat /\ p.next \in Key \cup {None}
  BY <1>1, <1>5, PlaceAfter DEF p
<1>7. s = [mode |-> s.mode, pos |-> s.pos, seen |-> s.seen, twice |-> s.twice,
           kept |-> s.kept, clean |-> s.clean, halved |-> s.halved, mixed |-> s.mixed,
           changes |-> s.changes]
  BY <1>3
<1>. HIDE DEF s
<1>8. Typed(s)
  BY <1>1, <1>4, <1>6, <1>7 DEF Typed, IsScan
<1>9. scan.pos.next \in Stored(hash)
  BY <1>2, <1>5 DEF Standing, Emptied
<1>10. Shape(hash') /\ Counted(hash')
  BY <1>1, <1>2, <1>9, UnlinkedIs, CountedUnlinked
<1>11. Standing(hash', s) /\ Emptied(hash', s)
  BY <1>1, <1>2, <1>4, <1>5, EmptiedAfter DEF p
<1>12. ~s.mixed => s.twice = {}
  BY <1>1, <1>4 DEF EnumOnce
<1>. QED
  BY <1>1, <1>2, <1>4, <1>8, <1>10, <1>11, <1>12
  DEF IInv, ScanOK, EnumAll, EnumOnce, FreeOK

\* The clearing ends.
LEMMA FreeEndInv ==
  ASSUME IInv, FreeEnd
  PROVE  IInv'
<1>1. Shape(hash) /\ failures \in 0 .. MaxFailures
  BY DEF IInv
<1>2. hash' = Cleared(hash) /\ scan' = Idle /\ failures' = failures
  BY DEF FreeEnd
<1>3. Shape(hash') /\ Counted(hash')
  BY <1>1, <1>2, ClearedIs
<1>. QED
  BY <1>1, <1>2, <1>3, IdleInv

\* Every step keeps the invariant.
LEMMA StepInv == IInv /\ [Next]_vars => IInv'
<1>. SUFFICES ASSUME IInv, [Next]_vars PROVE IInv'
  OBVIOUS
<1>1. ASSUME NEW k \in Key, Insert(k) PROVE IInv'
  BY <1>1, InsertInv
<1>2. ASSUME NEW k \in Key, Delete(k) PROVE IInv'
  BY <1>2, DeleteInv
<1>3. CASE First
  BY <1>3, BeginInv DEF First
<1>4. CASE NextNode
  BY <1>4, NextNodeInv
<1>5. CASE Finish
  BY <1>5, IdleInv DEF Finish, IInv
<1>6. CASE FreeBegin
  BY <1>6, BeginInv DEF FreeBegin
<1>7. CASE FreeNode
  BY <1>7, FreeNodeInv
<1>8. CASE FreeEnd
  BY <1>8, FreeEndInv
<1>9. CASE UNCHANGED vars
  BY <1>9 DEF vars, IInv, ScanOK, EnumAll, EnumOnce, FreeOK
<1>. QED
  BY <1>1, <1>2, <1>3, <1>4, <1>5, <1>6, <1>7, <1>8, <1>9 DEF Next

\* The table and the scan on it, in every reachable state.
THEOREM Invariant == Spec => []IInv
BY InitInv, StepInv, PTL DEF Spec

\* The marks follow the number of chains, which never falls below that of a new table.
THEOREM TypeCorrect == Spec => []TypeOK
<1>1. IInv => TypeOK
  <2>. SUFFICES ASSUME IInv PROVE TypeOK
    OBVIOUS
  <2>1. /\ Shape(hash) /\ failures \in 0 .. MaxFailures /\ Typed(scan)
    BY DEF IInv, ScanOK
  <2>2. hash.nchains \in Nat /\ hash.nchains >= InitSize
    BY <2>1, SizesIs DEF Shape
  <2>3. hash.table \in [Chains(hash.nchains) -> Seq(Key)]
    <3>1. Chain \subseteq Seq(Key)
      BY DEF Chain
    <3>2. hash.table \in [Chains(hash.nchains) -> Chain]
      BY <2>1 DEF Shape
    <3>. QED
      BY <3>1, <3>2
  <2>. QED
    BY <2>1, <2>2, <2>3 DEF TypeOK, Shape, Typed
<1>. QED
  BY Invariant, <1>1, PTL

\* hash_verify never finds a node on another chain than that of its key, nor a wrong
\* count, however often the table grew and shrank.
THEOREM TableVerified == Spec => []Verified
<1>1. IInv => Verified
  <2>. SUFFICES ASSUME IInv PROVE Verified
    OBVIOUS
  <2>1. Shape(hash) /\ Counted(hash)
    BY DEF IInv
  <2>2. \A c \in Chains(hash.nchains) : IsInjective(hash.table[c])
    BY <2>1, ShapeIs DEF Chain
  <2>. QED
    BY <2>1, <2>2 DEF Verified, Shape, Counted
<1>. QED
  BY Invariant, <1>1, PTL

\* An enumeration of a table that keeps its size, whose next node is not deleted, returns
\* all that stayed, whatever else is added and deleted between its steps.
THEOREM EnumerationComplete == Spec => []ScanSeesAll
<1>1. IInv => ScanSeesAll
  BY DEF IInv, EnumAll, Ahead, ScanSeesAll
<1>. QED
  BY Invariant, <1>1, PTL

\* No key is returned twice by an enumeration during which the table neither grew nor
\* shrank more than once, for any number of deletions and of keys added again.
THEOREM EnumerationOnce == Spec => []ScanNoRepeat
<1>1. IInv => ScanNoRepeat
  BY DEF IInv, EnumOnce, ScanNoRepeat
<1>. QED
  BY Invariant, <1>1, PTL

\* Whatever the order of the nodes, deleting what the scan returns empties the table.
THEOREM ClearEmpties == Spec => []ClearFreesAll
<1>1. IInv => ClearFreesAll
  <2>. SUFFICES ASSUME IInv, scan.mode = "free", scan.pos.next = None
                PROVE  hash.nodecount = 0 /\ Stored(hash) = {}
    BY DEF ClearFreesAll
  <2>1. Stored(hash) = {} /\ Counted(hash)
    BY DEF IInv, FreeOK, Emptied
  <2>. QED
    BY <2>1, FS_EmptySet DEF Counted
<1>. QED
  BY Invariant, <1>1, PTL

-----------------------------------------------------------------------------
(* The table implements a set of keys                                      *)

\* Insertion adds its key to the set of keys, and no other.
LEMMA InsertAdds ==
  ASSUME IInv, NEW k \in Key, Insert(k)
  PROVE  Stored(hash') = Stored(hash) \cup {k} /\ k \notin Stored(hash)
<1>1. /\ Shape(hash) /\ ~Lookup(hash, k)
      /\ hash' = Linked(hash, k) \/ hash' = Linked(Grown(hash), k)
  BY DEF IInv, Insert
<1>2. k \notin Stored(hash)
  BY <1>1, ShapeIs
<1>3. CASE hash' = Linked(hash, k)
  BY <1>1, <1>2, <1>3, LinkedIs
<1>4. CASE hash' = Linked(Grown(hash), k)
  <2>. DEFINE g == Grown(hash)
  <2>1. g = Grown(hash) /\ hash' = Linked(g, k)
    BY <1>4
  <2>. HIDE DEF g
  <2>2. Shape(g) /\ Stored(g) = Stored(hash)
    BY <1>1, <2>1, GrownIs
  <2>3. ~Lookup(g, k)
    BY <1>2, <2>2, ShapeIs
  <2>. QED
    BY <1>2, <2>1, <2>2, <2>3, LinkedIs
<1>. QED
  BY <1>1, <1>3, <1>4

\* Deletion takes its key from the set of keys, and no other.
LEMMA DeleteRemoves ==
  ASSUME IInv, NEW k \in Key, Delete(k)
  PROVE  Stored(hash') = Stored(hash) \ {k} /\ k \in Stored(hash)
<1>1. Shape(hash) /\ Counted(hash) /\ Lookup(hash, k)
  BY DEF IInv, Delete
<1>2. k \in Stored(hash)
  BY <1>1, ShapeIs
<1>3. CASE hash' = Unlinked(hash, k)
  BY <1>1, <1>2, <1>3, UnlinkedIs
<1>4. CASE /\ hash' = Unlinked(Shrunk(hash), k)
           /\ hash.nodecount <= hash.lowmark /\ hash.nodecount > InitSize
  <2>. DEFINE g == Shrunk(hash)
              m == hash.nchains \div 2
  <2>1. g = Shrunk(hash) /\ hash' = Unlinked(g, k) /\ m = hash.nchains \div 2
    BY <1>4
  <2>2. hash.nchains # InitSize
    <3>1. hash.nodecount \in Nat /\ hash.lowmark = m
      BY <1>1, FS_CardinalityType DEF Counted, Shape
    <3>2. InitSize \in Nat
      BY HashAssumption
    <3>. QED
      BY <1>4, <3>1, <3>2
  <2>. HIDE DEF g, m
  <2>3. Shape(g) /\ Stored(g) = Stored(hash)
    BY <1>1, <2>1, <2>2, ShrunkIs
  <2>. QED
    BY <1>2, <2>1, <2>3, UnlinkedIs
<1>. QED
  BY <1>3, <1>4 DEF Delete

\* Every step of the table is a step of the set of its keys, or leaves the set alone:
\* what Find answers changes by the key added or deleted and by nothing else.
THEOREM ImplementsASet == Spec => ImplementsMap
<1>. DEFINE K == {k \in Key : Lookup(hash, k)}
            n == hash.nodecount
<1>0. ASSUME NEW h, Shape(h), Counted(h)
      PROVE  /\ {k \in Key : Lookup(h, k)} = Stored(h)
             /\ h.nodecount = Cardinality(Stored(h)) /\ IsFiniteSet(Stored(h))
  <2>1. {k \in Key : Lookup(h, k)} = Stored(h)
    BY <1>0, ShapeIs
  <2>. QED
    BY <1>0, <2>1 DEF Counted
<1>1. IInv => K = Stored(hash) /\ n = Cardinality(K) /\ IsFiniteSet(K)
  BY <1>0 DEF IInv
<1>2. Init => Map!Init
  <2>. SUFFICES ASSUME Init PROVE K = {} /\ n = 0
    BY DEF Map!Init
  <2>1. n = 0 /\ \A c \in Chains(hash.nchains) : hash.table[c] = <<>>
    BY DEF Init
  <2>2. IInv
    BY InitInv
  <2>3. IsFiniteSet(K) /\ n = Cardinality(K)
    BY <1>1, <2>2
  <2>. HIDE DEF K, n
  <2>4. K = {}
    BY <2>1, <2>3, FS_EmptySet
  <2>. QED
    BY <2>1, <2>4
<1>3. IInv /\ IInv' /\ [Next]_vars => [Map!Next]_<<K, n>>
  <2>. SUFFICES ASSUME IInv, IInv', [Next]_vars PROVE [Map!Next]_<<K, n>>
    OBVIOUS
  <2>1. /\ K = Stored(hash) /\ n = Cardinality(K) /\ IsFiniteSet(K)
        /\ K' = Stored(hash') /\ n' = Cardinality(K') /\ IsFiniteSet(K')
    BY <1>0 DEF IInv
  <2>2. ASSUME NEW k \in Key, Insert(k) PROVE Map!Add(k)
    <3>1. K' = K \cup {k} /\ k \notin K
      BY <2>1, <2>2, InsertAdds
    <3>. HIDE DEF K
    <3>2. n' = n + 1
      BY <2>1, <3>1, FS_AddElement
    <3>. QED
      BY <3>1, <3>2 DEF Map!Add, K
  <2>3. ASSUME NEW k \in K, K' = K \ {k} PROVE Map!Del(k)
    <3>. HIDE DEF K
    <3>1. n' = n - 1
      BY <2>1, <2>3, FS_RemoveElement
    <3>. QED
      BY <2>3, <3>1 DEF Map!Del, K
  <2>4. ASSUME NEW k \in Key, Delete(k) PROVE Map!Del(k)
    <3>1. K' = K \ {k} /\ k \in K
      BY <2>1, <2>4, DeleteRemoves
    <3>. HIDE DEF K
    <3>. QED
      BY <2>3, <3>1
  <2>5. ASSUME FreeNode PROVE \E k \in Key : Map!Del(k)
    <3>. DEFINE k == scan.pos.next
    <3>1. Shape(hash) /\ k \in Stored(hash) /\ hash' = Unlinked(hash, k)
      BY <2>5 DEF FreeNode, IInv, FreeOK, Emptied, ScanOK, Standing
    <3>2. k \in Key
      BY <3>1, ShapeIs
    <3>. HIDE DEF k
    <3>3. K' = K \ {k} /\ k \in K
      BY <2>1, <3>1, UnlinkedIs
    <3>. HIDE DEF K
    <3>. QED
      BY <2>3, <3>2, <3>3
  <2>6. ASSUME FreeEnd PROVE K' = K /\ n' = n
    <3>1. Stored(hash) = {}
      BY <2>6 DEF FreeEnd, IInv, FreeOK, Emptied
    <3>2. Stored(hash') = {}
      BY <2>6, ClearedIs DEF FreeEnd, IInv
    <3>. HIDE DEF K
    <3>. QED
      BY <2>1, <3>1, <3>2
  <2>7. ASSUME hash' = hash PROVE K' = K /\ n' = n
    BY <2>7
  <2>. HIDE DEF K, n
  <2>. QED
    BY <2>2, <2>4, <2>5, <2>6, <2>7
    DEF Next, Map!Next, First, NextNode, Finish, FreeBegin, vars
<1>4. ImplementsMap <=> Map!Init /\ [][Map!Next]_<<K, n>>
  BY DEF ImplementsMap, Map!Spec
<1>. HIDE DEF K, n
<1>. QED
  BY Invariant, <1>2, <1>3, <1>4, PTL DEF Spec

=============================================================================
