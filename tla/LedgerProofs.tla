---------------------------- MODULE LedgerProofs ----------------------------
(***************************************************************************)
(* What the ledger stage promises, for any number of entities, scopes,     *)
(* connections and lock keys, any batches and any values for the masker.   *)
(* The first part is about versions: compareVersions orders them by the    *)
(* numbers they stand for, whatever their length.  The second follows the  *)
(* chain of an entity from the lock to the commit.  The invariant is about *)
(* the table every open transaction sees: it is whole but for the chain    *)
(* the transaction is about to extend, and since the entity locks keep     *)
(* transactions apart, a commit of one leaves the other's view alone.      *)
(***************************************************************************)
EXTENDS Ledger, FiniteSetTheorems, WellFoundedInduction, TLAPS

-----------------------------------------------------------------------------
(* The number a sequence of digits spells *)

(* A nonempty set of numbers has a least one.                               *)
LEMMA LeastNat ==
    ASSUME NEW S \in SUBSET Nat, S # {}
    PROVE  \E m \in S : \A n \in S : m <= n
  <1>1. PICK m \in S : \A n \in S : ~(<<n, m>> \in OpToRel(<, Nat))
    BY WFMin, NatLessThanWellFounded, Zenon
  <1>2. \A n \in S : ~(n < m)
    BY <1>1, Zenon DEF OpToRel
  <1>. QED BY <1>2

(* f[i] is the number the first i of the n digits of s spell in base, where *)
(* the code of the digit zero is off.                                       *)
Reads(f, s, n, off, base) ==
    /\ f \in [0..n -> Nat]
    /\ f[0] = 0
    /\ \A i \in 1..n : f[i] = f[i - 1] * base + (s[i] - off)

(* The recursive function of NumberOf.                                      *)
Unfolds(g, s, n, base) ==
    g = [i \in 0..n |-> IF i = 0 THEN 0 ELSE g[i - 1] * base + s[i]]

(* What the recursion of NumberOf computes.                                 *)
LEMMA UnfoldsIsReads ==
    ASSUME NEW base \in {10, 256}, NEW n \in Nat, NEW s \in [1..n -> Nat],
           NEW g, Unfolds(g, s, n, base)
    PROVE  Reads(g, s, n, 0, base)
  <1>1. g[0] = 0 /\ DOMAIN g = 0..n
    BY DEF Unfolds
  <1>2. \A i \in 1..n : g[i] = g[i - 1] * base + s[i]
    <2>. TAKE i \in 1..n
    <2>1. i \in 0..n /\ i # 0
      OBVIOUS
    <2>. QED BY <2>1 DEF Unfolds
  <1>3. \A k \in 0..n : g[k] \in Nat
    <2>. DEFINE Bad == {k \in Nat : k <= n /\ g[k] \notin Nat}
    <2>. SUFFICES ASSUME Bad # {} PROVE FALSE
      OBVIOUS
    <2>0. Bad \in SUBSET Nat
      OBVIOUS
    <2>7. \E m \in Bad : \A k \in Bad : m <= k
      <3>. HIDE DEF Bad
      <3>. QED BY LeastNat, <2>0
    <2>1. PICK m \in Bad : \A k \in Bad : m <= k
      BY <2>7
    <2>2. m # 0
      BY <2>1, <1>1
    <2>3. m \in 1..n /\ m - 1 \in Nat /\ m - 1 \notin Bad
      BY <2>1, <2>2
    <2>4. g[m - 1] \in Nat /\ g[m] = g[m - 1] * base + s[m] /\ s[m] \in Nat
      BY <2>3, <1>2
    <2>5. CASE base = 10 BY <2>5, <2>4, <2>1
    <2>6. CASE base = 256 BY <2>6, <2>4, <2>1
    <2>. QED BY <2>5, <2>6
  <1>4. g \in [0..n -> Nat]
    BY <1>1, <1>3 DEF Unfolds
  <1>5. \A i \in 1..n : g[i] = g[i - 1] * base + (s[i] - 0)
    BY <1>2
  <1>. QED BY <1>1, <1>4, <1>5 DEF Reads

(* The recursion of NumberOf has a value for every length.                  *)
LEMMA UnfoldsExists ==
    ASSUME NEW base \in {10, 256}, NEW n \in Nat, NEW s \in [1..n -> Nat]
    PROVE  \E g : Unfolds(g, s, n, base)
  <1>. DEFINE Bad == {k \in Nat : k <= n /\ ~ \E g : Unfolds(g, s, k, base)}
  <1>. SUFFICES ASSUME ~ \E g : Unfolds(g, s, n, base) PROVE FALSE
    OBVIOUS
  <1>8. n \in Bad
    OBVIOUS
  <1>0. Bad \in SUBSET Nat
    OBVIOUS
  <1>9. \E m \in Bad : \A k \in Bad : m <= k
    <2>. HIDE DEF Bad
    <2>. QED BY LeastNat, <1>0, <1>8
  <1>1. PICK m \in Bad : \A k \in Bad : m <= k
    BY <1>9
  <1>2. CASE m = 0
    <2>1. Unfolds([i \in 0..0 |-> 0], s, 0, base)
      BY DEF Unfolds
    <2>. QED BY <2>1, <1>1, <1>2
  <1>3. CASE m # 0
    <2>1. m \in 1..n /\ m - 1 \in Nat /\ m - 1 <= n /\ m - 1 \notin Bad
      BY <1>1, <1>3
    <2>2. PICK g : Unfolds(g, s, m - 1, base)
      BY <2>1
    <2>. DEFINE h == [i \in 0..m |-> IF i = m THEN g[m - 1] * base + s[m] ELSE g[i]]
    <2>3. \A i \in 0..m : h[i] = IF i = 0 THEN 0 ELSE h[i - 1] * base + s[i]
      <3>. TAKE i \in 0..m
      <3>1. CASE i = m BY <3>1, <2>1
      <3>2. CASE i # m
        <4>1. i \in 0..m - 1 /\ h[i] = g[i]
          BY <3>2, <2>1
        <4>2. g[i] = IF i = 0 THEN 0 ELSE g[i - 1] * base + s[i]
          BY <4>1, <2>2 DEF Unfolds
        <4>3. i # 0 => h[i - 1] = g[i - 1]
          BY <4>1, <2>1
        <4>. QED BY <4>1, <4>2, <4>3
      <3>. QED BY <3>1, <3>2
    <2>4. h = [i \in 0..m |-> IF i = 0 THEN 0 ELSE h[i - 1] * base + s[i]]
      <3>. HIDE DEF h
      <3>1. DOMAIN h = 0..m /\ h = [i \in 0..m |-> h[i]]
        BY DEF h
      <3>. QED BY <2>3, <3>1
    <2>5. Unfolds(h, s, m, base)
      <3>. HIDE DEF h
      <3>. QED BY <2>4 DEF Unfolds
    <2>. QED BY <2>5, <1>1
  <1>. QED BY <1>2, <1>3

(* NumberOf spells the digits, from the first to the last.                  *)
LEMMA NumberReads ==
    ASSUME NEW base \in {10, 256}, NEW s \in Seq(Nat)
    PROVE  \E f : Reads(f, s, Len(s), 0, base) /\ NumberOf(s, base) = f[Len(s)]
  <1>. DEFINE n == Len(s)
              f == CHOOSE g : Unfolds(g, s, n, base)
  <1>1. n \in Nat /\ s \in [1..n -> Nat]
    OBVIOUS
  <1>2. \E g : Unfolds(g, s, n, base)
    BY <1>1, UnfoldsExists
  <1>3. Unfolds(f, s, n, base)
    BY <1>2
  <1>4. NumberOf(s, base) = f[n]
    BY DEF NumberOf, Unfolds
  <1>5. Reads(f, s, n, 0, base)
    <2>. HIDE DEF f, n
    <2>. QED BY <1>1, <1>3, UnfoldsIsReads
  <1>. QED BY <1>4, <1>5

(* The same digits, d places further right, are read the same.              *)
LEMMA SameDigits ==
    ASSUME NEW base \in {10, 256}, NEW off \in Nat,
           NEW n \in Nat, NEW a, NEW f, Reads(f, a, n, off, base),
           NEW m \in Nat, NEW b, NEW g, Reads(g, b, m, off, base),
           NEW d \in Nat, NEW k \in Nat, k <= n, k + d <= m, g[d] = 0,
           \A i \in 1..k : a[i] = b[i + d]
    PROVE  \A i \in 0..k : f[i] = g[i + d]
  <1>. DEFINE Bad == {i \in Nat : i <= k /\ f[i] # g[i + d]}
  <1>. SUFFICES ASSUME Bad # {} PROVE FALSE
    OBVIOUS
  <1>0. Bad \in SUBSET Nat
    OBVIOUS
  <1>9. \E j \in Bad : \A i \in Bad : j <= i
    <2>. HIDE DEF Bad
    <2>. QED BY LeastNat, <1>0
  <1>1. PICK j \in Bad : \A i \in Bad : j <= i
    BY <1>9
  <1>2. j # 0
    BY <1>1 DEF Reads
  <1>3. j \in 1..k /\ j - 1 \in Nat /\ f[j - 1] = g[j - 1 + d]
    BY <1>1, <1>2
  <1>4. j \in 1..n /\ j + d \in 1..m /\ j - 1 + d = j + d - 1
    BY <1>3
  <1>5. f[j] = f[j - 1] * base + (a[j] - off) /\ g[j + d] = g[j + d - 1] * base + (b[j + d] - off)
    BY <1>4 DEF Reads
  <1>. QED BY <1>1, <1>3, <1>4, <1>5

(* The n codes of s are digits of base.                                     *)
AreDigits(s, n, off, base) == \A i \in 1..n : s[i] \in Nat /\ s[i] >= off /\ s[i] - off < base

(* A number that is smaller stays smaller, whatever digits follow.          *)
LEMMA StaysSmaller ==
    ASSUME NEW base \in {10, 256}, NEW off \in Nat,
           NEW n \in Nat, NEW a, NEW f, Reads(f, a, n, off, base), AreDigits(a, n, off, base),
           NEW m \in Nat, NEW b, NEW g, Reads(g, b, m, off, base), AreDigits(b, m, off, base),
           NEW d \in Nat, n + d = m, NEW k \in 0..n, f[k] < g[k + d]
    PROVE  \A i \in k..n : f[i] < g[i + d]
  <1>. DEFINE Bad == {i \in Nat : k <= i /\ i <= n /\ ~(f[i] < g[i + d])}
  <1>. SUFFICES ASSUME NEW e \in k..n, ~(f[e] < g[e + d]) PROVE FALSE
    OBVIOUS
  <1>7. k \in Nat /\ k <= n /\ m = n + d
    OBVIOUS
  <1>8. e \in Bad
    BY <1>7
  <1>0. Bad \in SUBSET Nat
    OBVIOUS
  <1>9. \E j \in Bad : \A i \in Bad : j <= i
    <2>. HIDE DEF Bad
    <2>1. Bad # {}
      BY <1>8
    <2>. QED BY LeastNat, <1>0, <2>1
  <1>1. PICK j \in Bad : \A i \in Bad : j <= i
    BY <1>9
  <1>2. j # k
    BY <1>1
  <1>3. j - 1 \in Nat /\ j - 1 \notin Bad /\ k <= j - 1 /\ j \in 1..n /\ j + d \in 1..m
        /\ j - 1 + d = j + d - 1
    BY <1>1, <1>2, <1>7
  <1>. DEFINE x == f[j - 1]   y == g[j + d - 1]   p == a[j] - off   q == b[j + d] - off
  <1>4. x < y
    BY <1>3
  <1>5. x \in Nat /\ y \in Nat /\ p \in Nat /\ p < base /\ q \in Nat
    <2>1. x \in Nat /\ y \in Nat
      BY <1>3 DEF Reads
    <2>2. a[j] \in Nat /\ b[j + d] \in Nat /\ a[j] >= off /\ a[j] - off < base /\ b[j + d] >= off
      BY <1>3 DEF AreDigits
    <2>. QED BY <2>1, <2>2
  <1>6. f[j] = x * base + p /\ g[j + d] = y * base + q
    BY <1>3 DEF Reads
  <1>. HIDE DEF x, y, p, q
  <1>10. x * base + p < y * base + q
    <2>1. CASE base = 10 BY <2>1, <1>4, <1>5
    <2>2. CASE base = 256 BY <2>2, <1>4, <1>5
    <2>. QED BY <2>1, <2>2
  <1>. QED BY <1>1, <1>6, <1>10


(* The two cases the comparisons need, digit against digit.                 *)
LEMMA SamePrefix ==
    ASSUME NEW base \in {10, 256}, NEW off \in Nat, NEW n \in Nat,
           NEW a, NEW f, Reads(f, a, n, off, base), NEW b, NEW g, Reads(g, b, n, off, base),
           NEW k \in Nat, k <= n, \A i \in 1..k : a[i] = b[i]
    PROVE  f[k] = g[k]
  <1>1. 0 \in Nat /\ k + 0 <= n /\ k \in 0..k /\ k + 0 = k
    OBVIOUS
  <1>2. g[0] = 0
    BY DEF Reads
  <1>3. \A i \in 1..k : a[i] = b[i + 0]
    <2>. TAKE i \in 1..k
    <2>1. i + 0 = i
      OBVIOUS
    <2>. QED BY <2>1
  <1>4. \A i \in 0..k : f[i] = g[i + 0]
    BY <1>1, <1>2, <1>3, SameDigits
  <1>. QED BY <1>1, <1>4

(* A number behind at one digit stays behind, whatever digits follow.       *)
LEMMA StaysBehind ==
    ASSUME NEW base \in {10, 256}, NEW off \in Nat, NEW n \in Nat,
           NEW a, NEW f, Reads(f, a, n, off, base), AreDigits(a, n, off, base),
           NEW b, NEW g, Reads(g, b, n, off, base), AreDigits(b, n, off, base),
           NEW k \in 0..n, f[k] < g[k]
    PROVE  f[n] < g[n]
  <1>1. 0 \in Nat /\ n + 0 = n /\ n \in k..n /\ k + 0 = k
    OBVIOUS
  <1>2. f[k] < g[k + 0]
    BY <1>1
  <1>3. \A i \in k..n : f[i] < g[i + 0]
    BY <1>1, <1>2, StaysSmaller
  <1>. QED BY <1>1, <1>3

(* strings.Compare and bytes.Compare order digits of one length as numbers. *)
LEMMA BytesInOrder ==
    ASSUME NEW base \in {10, 256}, NEW off \in Nat, NEW n \in Nat,
           NEW a \in Seq(Nat), Len(a) = n, NEW f, Reads(f, a, n, off, base),
           AreDigits(a, n, off, base),
           NEW b \in Seq(Nat), Len(b) = n, NEW g, Reads(g, b, n, off, base),
           AreDigits(b, n, off, base)
    PROVE  CompareBytes(a, b) < 0 <=> f[n] < g[n]
  <1>1. DOMAIN a = 1..n /\ DOMAIN b = 1..n /\ n \in 0..n /\ n + 0 = n /\ n <= n
    OBVIOUS
  <1>2. f[0] = 0 /\ g[0] = 0 /\ f[n] \in Nat /\ g[n] \in Nat
    BY <1>1 DEF Reads
  <1>3. CASE a = b
    <2>1. \A i \in 1..n : a[i] = b[i]
      BY <1>3
    <2>2. f[n] = g[n]
      BY <1>1, <2>1, SamePrefix
    <2>. QED BY <1>2, <1>3, <2>2 DEF CompareBytes
  <1>4. CASE a # b
    <2>. DEFINE Differ == {i \in Nat : i \in 1..n /\ a[i] # b[i]}
    <2>1. Differ \in SUBSET Nat /\ Differ # {}
      <3>1. a = [i \in 1..n |-> a[i]] /\ b = [i \in 1..n |-> b[i]]
        BY <1>1
      <3>2. \E i \in 1..n : a[i] # b[i]
        BY <3>1, <1>4
      <3>. QED BY <3>2
    <2>2. \E i \in Differ : \A j \in Differ : i <= j
      <3>. HIDE DEF Differ
      <3>. QED BY <2>1, LeastNat
    <2>3. PICK i \in Differ : \A j \in Differ : i <= j
      BY <2>2
    <2>4. i \in 1..n /\ a[i] # b[i] /\ \A j \in 1..i - 1 : a[j] = b[j]
      BY <2>3
    <2>7. f[i - 1] = g[i - 1]
      <3>1. i - 1 \in Nat /\ i - 1 <= n
        BY <2>4
      <3>. QED BY <3>1, <2>4, SamePrefix
    <2>9. i \in 0..n /\ i - 1 \in 0..n
      BY <2>4
    <2>14. f[i - 1] \in Nat /\ g[i - 1] \in Nat /\ f[i] \in Nat /\ g[i] \in Nat
      BY <2>9 DEF Reads
    <2>15. f[i] = f[i - 1] * base + (a[i] - off) /\ g[i] = g[i - 1] * base + (b[i] - off)
      BY <2>4 DEF Reads
    <2>16. a[i] \in Nat /\ b[i] \in Nat
      BY <2>4 DEF AreDigits
    <2>8. /\ f[i] = f[i - 1] * base + (a[i] - off) /\ g[i] = g[i - 1] * base + (b[i] - off)
          /\ f[i - 1] \in Nat /\ g[i - 1] \in Nat /\ f[i] \in Nat /\ g[i] \in Nat
          /\ a[i] \in Nat /\ b[i] \in Nat
      BY <2>14, <2>15, <2>16
    <2>. DEFINE P == g[i - 1] * base
    <2>12. P \in Int
      <3>1. PICK x \in Nat : x = g[i - 1]
        BY <2>14
      <3>2. x * 10 \in Int /\ x * 256 \in Int
        OBVIOUS
      <3>3. P = x * 10 \/ P = x * 256
        BY <3>1
      <3>. QED BY <3>2, <3>3
    <2>13. f[i] = P + (a[i] - off) /\ g[i] = P + (b[i] - off)
      BY <2>7, <2>8
    <2>. HIDE DEF P
    <2>10. CASE a[i] < b[i]
      <3>1. f[i] < g[i]
        BY <2>12, <2>13, <2>8, <2>10
      <3>3. f[n] < g[n]
        BY <3>1, <2>9, StaysBehind
      <3>5. \E k \in DOMAIN a : a[k] < b[k] /\ \A j \in 1..(k - 1) : a[j] = b[j]
        <4>1. i \in DOMAIN a
          BY <1>1, <2>4
        <4>. QED BY <4>1, <2>4, <2>10, Zenon
      <3>4. CompareBytes(a, b) = -1
        BY <3>5, <1>4 DEF CompareBytes
      <3>. QED BY <3>3, <3>4
    <2>11. CASE b[i] < a[i]
      <3>1. g[i] < f[i]
        BY <2>12, <2>13, <2>8, <2>11
      <3>3. g[n] < f[n]
        BY <3>1, <2>9, StaysBehind
      <3>4. ~ \E k \in DOMAIN a : a[k] < b[k] /\ \A j \in 1..(k - 1) : a[j] = b[j]
        <4>. SUFFICES ASSUME NEW k \in 1..n, a[k] < b[k], \A j \in 1..(k - 1) : a[j] = b[j]
                      PROVE  FALSE
          BY <1>1
        <4>1. a[k] \in Nat /\ b[k] \in Nat
          BY DEF AreDigits
        <4>2. k # i
          BY <4>1, <2>8, <2>11
        <4>3. k < i \/ i < k
          BY <4>2, <2>4
        <4>4. CASE k < i
          BY <4>4, <4>1, <2>4
        <4>5. CASE i < k
          BY <4>5, <2>4
        <4>. QED BY <4>3, <4>4, <4>5
      <3>5. CompareBytes(a, b) = 1
        BY <3>4, <1>4 DEF CompareBytes
      <3>. QED BY <3>3, <3>5, <1>2
    <2>. QED BY <2>4, <2>8, <2>10, <2>11
  <1>. QED BY <1>3, <1>4

(* Without zeros in front, the longer decimal is the larger one.            *)
LEMMA LongerIsLarger ==
    ASSUME NEW a \in Seq(Nat), NEW f, Reads(f, a, Len(a), Zero, 10), AreDigits(a, Len(a), Zero, 10),
           NEW b \in Seq(Nat), NEW g, Reads(g, b, Len(b), Zero, 10), AreDigits(b, Len(b), Zero, 10),
           Len(a) < Len(b), b[1] # Zero
    PROVE  f[Len(a)] < g[Len(b)]
  <1>n. PICK n \in Nat : n = Len(a)
    OBVIOUS
  <1>m. PICK m \in Nat : m = Len(b)
    OBVIOUS
  <1>d. PICK d \in Nat : d = m - n /\ d >= 1
    <2>1. n < m
      BY <1>n, <1>m
    <2>2. m - n \in Nat /\ m - n >= 1
      BY <2>1
    <2>. QED BY <2>2
  <1>. DEFINE s0 == [i \in 1..m - 1 |-> Zero]
              f0 == [i \in 0..m - 1 |-> 0]
  <1>1. n + d = m /\ m - 1 \in Nat /\ Zero \in Nat
    BY <1>d DEF Zero
  <1>0. /\ Reads(f, a, n, Zero, 10) /\ AreDigits(a, n, Zero, 10)
        /\ Reads(g, b, m, Zero, 10) /\ AreDigits(b, m, Zero, 10)
    BY <1>n, <1>m
  <1>2. Reads(f0, s0, m - 1, Zero, 10) /\ AreDigits(s0, m - 1, Zero, 10)
    BY <1>1 DEF Reads, AreDigits, Zero
  <1>3. f0[0] < g[0 + 1]
    <2>3. 1 \in 1..m /\ 0 + 1 = 1 /\ 1 - 1 = 0
      BY <1>1, <1>d
    <2>1. g[1] = g[0] * 10 + (b[1] - 48) /\ g[0] = 0
      BY <2>3, <1>0 DEF Reads, Zero
    <2>2. b[1] \in Nat /\ b[1] >= 48 /\ b[1] # 48
      BY <1>0, <1>1, <1>d DEF AreDigits, Zero
    <2>. QED BY <2>1, <2>2, <2>3, <1>1
  <1>4. \A i \in 0..m - 1 : f0[i] < g[i + 1]
    <2>1. m - 1 + 1 = m /\ 0 \in 0..m - 1 /\ 1 \in Nat
      BY <1>1
    <2>. HIDE DEF s0, f0
    <2>. QED BY <2>1, <1>0, <1>1, <1>2, <1>3, StaysSmaller
  <1>5. 0 < g[d]
    <2>1. d - 1 \in 0..m - 1 /\ d - 1 + 1 = d
      BY <1>1, <1>d
    <2>2. f0[d - 1] < g[d - 1 + 1]
      BY <2>1, <1>4
    <2>3. f0[d - 1] = 0
      BY <2>1
    <2>. QED BY <2>1, <2>2, <2>3
  <1>6. f[0] < g[0 + d] /\ 0 \in 0..n
    BY <1>0, <1>1, <1>5 DEF Reads
  <1>7. \A i \in 0..n : f[i] < g[i + d]
    BY <1>0, <1>1, <1>6, StaysSmaller
  <1>8. n \in 0..n /\ f[n] < g[n + d]
    BY <1>7
  <1>. QED BY <1>1, <1>8, <1>n, <1>m

(* strings.TrimLeft drops the zeros in front, and only those.               *)
LEMMA TrimLeftIs ==
    ASSUME NEW s \in Seq(Nat)
    PROVE  \E z \in 0..Len(s) :
              /\ TrimLeft(s) = SubSeq(s, z + 1, Len(s))
              /\ \A i \in 1..z : s[i] = Zero
              /\ z < Len(s) => s[z + 1] # Zero
  <1>n. PICK n \in Nat : n = Len(s)
    OBVIOUS
  <1>. DEFINE zeros == {i \in DOMAIN s : \A j \in 1..i : s[j] = Zero}
              Ends == {i \in Nat : i = n \/ (i < n /\ s[i + 1] # Zero)}
  <1>1. DOMAIN s = 1..n
    BY <1>n
  <1>2. Ends \in SUBSET Nat /\ n \in Ends
    OBVIOUS
  <1>3. \E z \in Ends : \A i \in Ends : z <= i
    <2>. HIDE DEF Ends
    <2>. QED BY <1>2, LeastNat
  <1>4. PICK z \in Ends : \A i \in Ends : z <= i
    BY <1>3
  <1>5. z \in Nat /\ z <= n /\ (z < n => s[z + 1] # Zero)
    BY <1>1, <1>4
  <1>6. \A i \in 1..z : s[i] = Zero
    <2>. SUFFICES ASSUME NEW i \in 1..z, s[i] # Zero PROVE FALSE
      OBVIOUS
    <2>1. i - 1 \in Nat /\ i - 1 < n /\ i - 1 + 1 = i
      BY <1>5
    <2>2. i - 1 \in Ends
      BY <2>1
    <2>3. z <= i - 1
      BY <2>2, <1>4
    <2>. QED BY <2>1, <2>3, <1>5
  <1>7. zeros = 1..z
    <2>1. ASSUME NEW i \in zeros PROVE i \in 1..z
      <3>1. i \in 1..n /\ \A j \in 1..i : s[j] = Zero
        BY <1>1
      <3>2. ~(z < i)
        <4>. SUFFICES ASSUME z < i PROVE FALSE
          OBVIOUS
        <4>1. z + 1 \in 1..i /\ z < n
          BY <3>1, <1>5, <1>1
        <4>. QED BY <4>1, <3>1, <1>5
      <3>. QED BY <3>1, <3>2, <1>5, <1>1
    <2>2. ASSUME NEW i \in 1..z PROVE i \in zeros
      <3>1. i \in 1..n /\ \A j \in 1..i : j \in 1..z
        BY <1>5, <1>1
      <3>. QED BY <3>1, <1>1, <1>6
    <2>. HIDE DEF zeros
    <2>. QED BY <2>1, <2>2
  <1>8. Cardinality(zeros) = z
    <2>1. Cardinality(1..z) = z
      BY <1>5, FS_Interval
    <2>. HIDE DEF zeros
    <2>. QED BY <1>7, <2>1
  <1>9. TrimLeft(s) = SubSeq(s, z + 1, n)
    <2>1. TrimLeft(s) = SubSeq(s, Cardinality(zeros) + 1, n)
      BY <1>n DEF TrimLeft
    <2>. HIDE DEF zeros
    <2>. QED BY <2>1, <1>8
  <1>. QED BY <1>5, <1>6, <1>9, <1>n

(* Where nothing but zeros is cut off in front, the number is the same.     *)
IsTail(x, m, s, z) == \A i \in 1..m : x[i] = s[i + z]

(* Two sequences with the same digits spell the same number.                *)
LEMMA SameTail ==
    ASSUME NEW n \in Nat, NEW s, NEW f, Reads(f, s, n, Zero, 10),
           NEW m \in Nat, NEW x, NEW g, Reads(g, x, m, Zero, 10),
           NEW z \in Nat, m + z = n, f[z] = 0, IsTail(x, m, s, z)
    PROVE  g[m] = f[n]
  <1>1. m <= m /\ m + z <= n /\ Zero \in Nat /\ m \in 0..m
    BY DEF Zero
  <1>2. \A i \in 0..m : g[i] = f[i + z]
    BY <1>1, SameDigits DEF IsTail
  <1>. QED BY <1>1, <1>2

(* A decimal version is worth what is left of it without those zeros.       *)
LEMMA TrimmedValue ==
    ASSUME NEW s \in Seq(Nat), isDecimal(s)
    PROVE  LET x == TrimLeft(s) IN
           /\ x \in Seq(Nat)
           /\ Len(x) > 0 => x[1] # Zero
           /\ AreDigits(x, Len(x), Zero, 10)
           /\ \E f : Reads(f, x, Len(x), Zero, 10) /\ Value("decimal", s) = f[Len(x)]
  <1>n. PICK n \in Nat : n = Len(s)
    OBVIOUS
  <1>. DEFINE c == [i \in DOMAIN s |-> s[i] - Zero]
  <1>0. DOMAIN s = 1..n
    BY <1>n
  <1>1. DOMAIN s = 1..n /\ \A i \in 1..n : s[i] \in 48..57
    <2>1. \A i \in 1..n : s[i] \in Chars(s)
      BY <1>0 DEF Chars
    <2>. QED BY <1>0, <2>1 DEF isDecimal, Digits
  <1>2. c \in Seq(Nat) /\ Len(c) = n /\ \A i \in 1..n : c[i] = s[i] - 48
    <2>1. c = [i \in 1..n |-> s[i] - 48]
      BY <1>1 DEF Zero
    <2>2. \A i \in 1..n : s[i] - 48 \in Nat
      BY <1>1
    <2>3. c \in [1..n -> Nat]
      BY <2>1, <2>2
    <2>. HIDE DEF c
    <2>. QED BY <2>1, <2>3, <1>n
  <1>3. PICK f : Reads(f, c, n, 0, 10) /\ NumberOf(c, 10) = f[n]
    <2>. HIDE DEF c
    <2>. QED BY <1>2, NumberReads
  <1>4. Reads(f, s, n, Zero, 10)
    <2>. HIDE DEF c
    <2>1. \A i \in 1..n : c[i] - 0 = s[i] - 48
      BY <1>1, <1>2
    <2>. QED BY <2>1, <1>3 DEF Reads, Zero
  <1>5. Value("decimal", s) = f[n]
    BY <1>n, <1>3 DEF Value
  <1>6. PICK z \in Nat : /\ z <= n
                         /\ TrimLeft(s) = SubSeq(s, z + 1, n)
                         /\ \A i \in 1..z : s[i] = Zero
                         /\ z < n => s[z + 1] # Zero
    <2>1. n \in Nat /\ \A k \in 0..n : k \in Nat /\ k <= n
      OBVIOUS
    <2>. QED BY <1>n, <2>1, TrimLeftIs
  <1>m. PICK m \in Nat : m = n - z
    BY <1>6
  <1>x. PICK x : x = SubSeq(s, z + 1, n)
    OBVIOUS
  <1>7. x \in Seq(Nat) /\ Len(x) = m /\ \A i \in 1..m : x[i] = s[i + z]
    BY <1>n, <1>m, <1>x, <1>6
  <1>8. \A i \in 1..m : x[i] \in 48..57
    <2>. TAKE i \in 1..m
    <2>1. i + z \in 1..n
      BY <1>m, <1>6
    <2>. QED BY <2>1, <1>1, <1>7
  <1>9. AreDigits(x, m, Zero, 10)
    <2>1. \A i \in 1..m : x[i] \in Nat /\ x[i] >= 48 /\ x[i] - 48 < 10
      <3>. TAKE i \in 1..m
      <3>1. x[i] \in 48..57
        BY <1>8
      <3>. QED BY <3>1
    <2>. QED BY <2>1 DEF AreDigits, Zero
  <1>. DEFINE xc == [i \in 1..m |-> x[i] - Zero]
  <1>10. xc \in Seq(Nat) /\ Len(xc) = m /\ \A i \in 1..m : xc[i] = x[i] - 48
    <2>1. xc = [i \in 1..m |-> x[i] - 48]
      BY DEF Zero
    <2>2. \A i \in 1..m : x[i] - 48 \in Nat
      BY <1>8
    <2>3. xc \in [1..m -> Nat]
      BY <2>1, <2>2
    <2>. HIDE DEF xc
    <2>. QED BY <2>1, <2>3
  <1>11. PICK g : Reads(g, xc, m, 0, 10)
    <2>. HIDE DEF xc
    <2>. QED BY <1>10, NumberReads
  <1>12. Reads(g, x, m, Zero, 10)
    <2>. HIDE DEF xc
    <2>1. \A i \in 1..m : xc[i] - 0 = x[i] - 48
      BY <1>8, <1>10
    <2>. QED BY <2>1, <1>11 DEF Reads, Zero
  <1>13. f[z] = 0
    <2>. DEFINE s0 == [i \in 1..n |-> Zero]
                f0 == [i \in 0..n |-> 0]
    <2>1. Reads(f0, s0, n, Zero, 10)
      BY <1>1 DEF Reads, Zero
    <2>2. \A i \in 1..z : s[i] = s0[i]
      BY <1>6, <1>1
    <2>3. f[z] = f0[z]
      <3>. HIDE DEF s0, f0
      <3>1. z \in Nat /\ z <= n /\ Zero \in Nat
        BY <1>6, <1>m DEF Zero
      <3>. QED BY <2>1, <2>2, <3>1, <1>1, <1>4, SamePrefix
    <2>. QED BY <2>3, <1>6, <1>1
  <1>14. g[m] = f[n]
    <2>1. z \in Nat /\ m + z = n /\ IsTail(x, m, s, z)
      BY <1>6, <1>7, <1>m DEF IsTail
    <2>. QED BY <2>1, <1>4, <1>12, <1>13, SameTail
  <1>15. m > 0 => x[1] # Zero
    BY <1>6, <1>7, <1>m
  <1>. QED
    <2>1. TrimLeft(s) = x
      BY <1>6, <1>x
    <2>2. Reads(g, x, m, Zero, 10) /\ Value("decimal", s) = g[m]
      BY <1>5, <1>12, <1>14
    <2>3. m = Len(x)
      BY <1>7
    <2>. QED BY <2>1, <2>2, <2>3, <1>7, <1>9, <1>15

(* compareDecimal: without the leading zeros, shorter is less.              *)
LEMMA DecimalInOrder ==
    ASSUME NEW a \in Seq(Nat), isDecimal(a), NEW b \in Seq(Nat), isDecimal(b)
    PROVE  /\ Value("decimal", a) \in Nat /\ Value("decimal", b) \in Nat
           /\ compareDecimal(a, b) < 0 <=> Value("decimal", a) < Value("decimal", b)
  <1>. DEFINE x == TrimLeft(a)   y == TrimLeft(b)
  <1>1. PICK f : /\ x \in Seq(Nat)
                 /\ Len(x) > 0 => x[1] # Zero
                 /\ AreDigits(x, Len(x), Zero, 10)
                 /\ Reads(f, x, Len(x), Zero, 10) /\ Value("decimal", a) = f[Len(x)]
    BY TrimmedValue
  <1>2. PICK g : /\ y \in Seq(Nat)
                 /\ Len(y) > 0 => y[1] # Zero
                 /\ AreDigits(y, Len(y), Zero, 10)
                 /\ Reads(g, y, Len(y), Zero, 10) /\ Value("decimal", b) = g[Len(y)]
    BY TrimmedValue
  <1>3. compareDecimal(a, b) = IF Len(x) # Len(y) THEN (IF Len(x) < Len(y) THEN -1 ELSE 1)
                               ELSE CompareBytes(x, y)
    BY DEF compareDecimal
  <1>. HIDE DEF x, y
  <1>8. Len(x) \in Nat /\ Len(y) \in Nat
    BY <1>1, <1>2
  <1>4. Len(x) \in Nat /\ Len(y) \in Nat /\ f[Len(x)] \in Nat /\ g[Len(y)] \in Nat /\ Zero \in Nat
    <2>1. Len(x) \in 0..Len(x) /\ Len(y) \in 0..Len(y)
      BY <1>8
    <2>. QED BY <2>1, <1>1, <1>2, <1>8 DEF Reads, Zero
  <1>5. CASE Len(x) = Len(y)
    <2>1. CompareBytes(x, y) < 0 <=> f[Len(x)] < g[Len(x)]
      BY <1>1, <1>2, <1>4, <1>5, BytesInOrder
    <2>. QED BY <2>1, <1>1, <1>2, <1>3, <1>4, <1>5
  <1>6. CASE Len(x) < Len(y)
    <2>1. f[Len(x)] < g[Len(y)]
      BY <1>1, <1>2, <1>4, <1>6, LongerIsLarger
    <2>. QED BY <2>1, <1>1, <1>2, <1>3, <1>4, <1>6
  <1>7. CASE Len(y) < Len(x)
    <2>1. g[Len(y)] < f[Len(x)]
      BY <1>1, <1>2, <1>4, <1>7, LongerIsLarger
    <2>. QED BY <2>1, <1>1, <1>2, <1>3, <1>4, <1>7
  <1>. QED BY <1>4, <1>5, <1>6, <1>7

(* A readable base64 version decodes to bytes.                              *)
LEMMA UnpaddedIs ==
    ASSUME NEW s \in Seq(Nat)
    PROVE  Unpadded(s) \in Seq(Nat)
  <1>n. PICK n \in Nat : n = Len(s)
    OBVIOUS
  <1>. DEFINE pads == {i \in DOMAIN s : \A j \in i..Len(s) : s[j] = Pad}
  <1>1. pads \subseteq 1..n /\ IsFiniteSet(1..n) /\ Cardinality(1..n) = n
    <2>1. IsFiniteSet(1..n) /\ Cardinality(1..n) = n
      BY FS_Interval
    <2>2. DOMAIN s = 1..n
      BY <1>n
    <2>. QED BY <2>1, <2>2
  <1>2. PICK k : k = Cardinality(pads)
    OBVIOUS
  <1>3. k \in Nat /\ k <= n
    <2>. HIDE DEF pads
    <2>. QED BY <1>1, <1>2, FS_Subset, FS_CardinalityType
  <1>4. Unpadded(s) = SubSeq(s, 1, n - k)
    BY <1>n, <1>2 DEF Unpadded
  <1>5. n - k \in Nat /\ n - k <= n
    BY <1>3
  <1>. QED BY <1>4, <1>5, <1>n

(* A character of the alphabet stands for six bits.                         *)
LEMMA SextetIs ==
    ASSUME NEW c \in Base64Alphabet
    PROVE  Sextet(c) \in 0..63
  <1>1. CASE c \in 65..90
    <2>1. c \in Int /\ 65 <= c /\ c <= 90
      BY <1>1
    <2>2. Sextet(c) = c - 65
      BY <1>1, <2>1 DEF Sextet, Digits
    <2>. QED BY <2>1, <2>2
  <1>2. CASE c \in 97..122
    <2>1. c \in Int /\ 97 <= c /\ c <= 122
      BY <1>2
    <2>2. Sextet(c) = c - 71
      BY <1>2, <2>1 DEF Sextet, Digits
    <2>. QED BY <2>1, <2>2
  <1>3. CASE c \in 48..57
    BY <1>3 DEF Sextet, Digits
  <1>4. CASE c = 43 \/ c = 45
    BY <1>4 DEF Sextet, Digits
  <1>5. CASE c = 47 \/ c = 95
    BY <1>5 DEF Sextet, Digits
  <1>. QED BY <1>1, <1>2, <1>3, <1>4, <1>5 DEF Base64Alphabet, Digits, UrlSafe, Standard

(* What base64 decodes to is bytes.                                         *)
LEMMA DecodeIsBytes ==
    ASSUME NEW s \in Seq(Nat), IsBase64(s)
    PROVE  /\ DecodeBytes(s) \in Seq(Nat)
           /\ AreDigits(DecodeBytes(s), Len(DecodeBytes(s)), 0, 256)
  <1>b. PICK body : body = Unpadded(s)
    OBVIOUS
  <1>1. body \in Seq(Nat) /\ Chars(body) \subseteq Base64Alphabet
    BY <1>b, UnpaddedIs DEF IsBase64
  <1>l. PICK l \in Nat : l = Len(body)
    BY <1>1
  <1>2. \A i \in 1..l : Sextet(body[i]) \in 0..63
    <2>. TAKE i \in 1..l
    <2>1. i \in DOMAIN body
      BY <1>1, <1>l
    <2>2. body[i] \in Base64Alphabet
      BY <2>1, <1>1 DEF Chars
    <2>. QED BY <2>2, SextetIs
  <1>n. PICK n \in Nat : n = (6 * l) \div 8
    OBVIOUS
  <1>. DEFINE At(i) == Sextet(body[i + 1])
              Byte(k) == LET bit == 8 * (k - 1)
                             i == bit \div 6
                         IN  ((At(i) * 64 + At(i + 1)) \div 2^(4 - (bit % 6))) % 256
  <1>3. DecodeBytes(s) = [k \in 1..n |-> Byte(k)]
    BY <1>b, <1>l, <1>n DEF DecodeBytes
  <1>4. \A k \in 1..n : Byte(k) \in 0..255
    <2>. TAKE k \in 1..n
    <2>1. PICK bit \in Nat : bit = 8 * (k - 1)
      OBVIOUS
    <2>2. PICK i \in Nat : i = bit \div 6
      BY <2>1
    <2>3. PICK r \in {0, 2, 4} : r = bit % 6
      BY <2>1
    <2>4. i + 1 \in 1..l /\ i + 1 + 1 \in 1..l
      <3>1. bit = 6 * i + r
        BY <2>1, <2>2, <2>3
      <3>2. 8 * k <= 6 * l
        BY <1>n
      <3>3. 6 * i + r + 8 <= 6 * l
        BY <2>1, <3>1, <3>2
      <3>. QED BY <3>3, <2>3
    <2>5. PICK a \in Nat : a = At(i)
      BY <2>4, <1>2
    <2>6. PICK b \in Nat : b = At(i + 1)
      BY <2>4, <1>2
    <2>7. Byte(k) = ((a * 64 + b) \div 2^(4 - r)) % 256
      BY <2>1, <2>2, <2>3, <2>5, <2>6
    <2>8. PICK p \in {1, 4, 16} : p = 2^(4 - r)
      <3>1. CASE r = 0 BY <3>1
      <3>2. CASE r = 2 BY <3>2
      <3>3. CASE r = 4 BY <3>3
      <3>. QED BY <2>3, <3>1, <3>2, <3>3
    <2>9. (a * 64 + b) \div p \in Int
      BY <2>5, <2>6, <2>8
    <2>. HIDE DEF Byte
    <2>. QED BY <2>7, <2>8, <2>9
  <1>. HIDE DEF Byte
  <1>d. PICK d : d = DecodeBytes(s)
    OBVIOUS
  <1>5. d \in Seq(Nat) /\ Len(d) = n /\ \A k \in 1..n : d[k] \in 0..255
    <2>2. \A k \in 1..n : Byte(k) \in Nat
      <3>. TAKE k \in 1..n
      <3>1. PICK e \in 0..255 : e = Byte(k)
        BY <1>4
      <3>2. e \in Nat
        OBVIOUS
      <3>. QED BY <3>1, <3>2, Zenon
    <2>1. d \in [1..n -> Nat]
      BY <1>3, <1>d, <2>2
    <2>. QED BY <2>1, <1>3, <1>4, <1>d
  <1>6. AreDigits(d, n, 0, 256)
    <2>1. \A k \in 1..n : d[k] \in Nat /\ d[k] >= 0 /\ d[k] - 0 < 256
      <3>. TAKE k \in 1..n
      <3>1. PICK e \in 0..255 : e = d[k]
        BY <1>5
      <3>2. e \in Nat /\ e >= 0 /\ e - 0 < 256
        OBVIOUS
      <3>. QED BY <3>1, <3>2
    <2>. QED BY <2>1 DEF AreDigits
  <1>. QED BY <1>5, <1>6, <1>d

(* Two sequences of bytes of one length.                                    *)
LEMMA BytesOfOneLength ==
    ASSUME NEW a \in Seq(Nat), AreDigits(a, Len(a), 0, 256),
           NEW b \in Seq(Nat), AreDigits(b, Len(b), 0, 256), Len(a) = Len(b)
    PROVE  /\ NumberOf(a, 256) \in Nat /\ NumberOf(b, 256) \in Nat
           /\ CompareBytes(a, b) < 0 <=> NumberOf(a, 256) < NumberOf(b, 256)
  <1>n. PICK n \in Nat : n = Len(a)
    OBVIOUS
  <1>1. PICK f : Reads(f, a, n, 0, 256) /\ NumberOf(a, 256) = f[n]
    BY <1>n, NumberReads
  <1>2. PICK g : Reads(g, b, n, 0, 256) /\ NumberOf(b, 256) = g[n]
    BY <1>n, NumberReads
  <1>3. f[n] \in Nat /\ g[n] \in Nat
    <2>1. n \in 0..n
      OBVIOUS
    <2>. QED BY <2>1, <1>1, <1>2 DEF Reads
  <1>4. CompareBytes(a, b) < 0 <=> f[n] < g[n]
    <2>1. AreDigits(a, n, 0, 256) /\ AreDigits(b, n, 0, 256) /\ Len(b) = n
      BY <1>n
    <2>. QED BY <2>1, <1>n, <1>1, <1>2, BytesInOrder
  <1>. QED BY <1>1, <1>2, <1>3, <1>4

(* What a provider declares is what its versions are compared by: where two *)
(* versions compare at all, the order is that of the numbers they spell.    *)
THEOREM CompareIsByValue ==
    ASSUME NEW order \in VersionOrders, NEW v \in ByteString, NEW head \in ByteString,
           compareVersions(order, v, head).ok
    PROVE  /\ Value(order, v) \in Nat /\ Value(order, head) \in Nat
           /\ compareVersions(order, v, head).order < 0 <=> Value(order, v) < Value(order, head)
  <1>1. /\ v \in Seq(Nat) /\ AreDigits(v, Len(v), 0, 256)
        /\ head \in Seq(Nat) /\ AreDigits(head, Len(head), 0, 256)
    <2>1. ASSUME NEW s \in ByteString PROVE s \in Seq(Nat) /\ AreDigits(s, Len(s), 0, 256)
      <3>1. s \in Seq(Octet) /\ Octet \subseteq Nat
        BY DEF ByteString, Octet
      <3>2. \A i \in 1..Len(s) : s[i] \in Octet
        BY <3>1
      <3>3. \A i \in 1..Len(s) : s[i] \in Nat /\ s[i] >= 0 /\ s[i] - 0 < 256
        <4>. TAKE i \in 1..Len(s)
        <4>1. PICK e \in 0..255 : e = s[i]
          BY <3>2 DEF Octet
        <4>2. e \in Nat /\ e >= 0 /\ e - 0 < 256
          OBVIOUS
        <4>. QED BY <4>1, <4>2
      <3>. QED BY <3>1, <3>3 DEF AreDigits
    <2>. QED BY <2>1
  <1>2. CASE order = "decimal"
    <2>1. isDecimal(v) /\ isDecimal(head)
      BY <1>2 DEF compareVersions, Unordered
    <2>2. compareVersions(order, v, head).order = compareDecimal(v, head)
      BY <1>2, <2>1 DEF compareVersions, Ordered
    <2>. QED BY <1>1, <1>2, <2>1, <2>2, DecimalInOrder
  <1>3. CASE order = "lexical"
    <2>1. Len(v) = Len(head) /\ v # <<>>
      BY <1>3 DEF compareVersions, Unordered
    <2>2. compareVersions(order, v, head).order = CompareBytes(v, head)
      BY <1>3, <2>1 DEF compareVersions, Ordered
    <2>3. Value(order, v) = NumberOf(v, 256) /\ Value(order, head) = NumberOf(head, 256)
      BY <1>3 DEF Value
    <2>. QED BY <1>1, <2>1, <2>2, <2>3, BytesOfOneLength
  <1>4. CASE order = "base64"
    <2>1. IsBase64(v) /\ IsBase64(head) /\ Len(DecodeBytes(v)) = Len(DecodeBytes(head))
      BY <1>4 DEF compareVersions, Unordered
    <2>2. compareVersions(order, v, head).order = CompareBytes(DecodeBytes(v), DecodeBytes(head))
      BY <1>4, <2>1 DEF compareVersions, Ordered
    <2>3. /\ Value(order, v) = NumberOf(DecodeBytes(v), 256)
          /\ Value(order, head) = NumberOf(DecodeBytes(head), 256)
      BY <1>4 DEF Value
    <2>4. /\ DecodeBytes(v) \in Seq(Nat) /\ DecodeBytes(head) \in Seq(Nat)
          /\ AreDigits(DecodeBytes(v), Len(DecodeBytes(v)), 0, 256)
          /\ AreDigits(DecodeBytes(head), Len(DecodeBytes(head)), 0, 256)
      BY <1>1, <2>1, DecodeIsBytes
    <2>. QED BY <2>1, <2>2, <2>3, <2>4, BytesOfOneLength
  <1>5. CASE order = "unset"
    BY <1>5 DEF compareVersions, Unordered
  <1>. QED BY <1>2, <1>3, <1>4, <1>5 DEF VersionOrders

-----------------------------------------------------------------------------
(* Tables *)

Val(r) == Value(OrderOf[r.entity], r.version)

(* The rows of e in a table T, and the rows that supersede r.               *)
Rows(T, e) == {r \in Rec : r.entity = e /\ T[r].stored}
Heirs(T, r) == {s \in Rec : T[s].stored /\ T[s].supersedes = r}

(* The rows of e are one chain that ends at h, the newest of them.          *)
ChainTo(T, e, h) ==
    /\ h \in Rows(T, e) /\ Heirs(T, h) = {}
    /\ \A r \in Rows(T, e) \ {h} : \E s \in Rows(T, e) : Heirs(T, r) = {s}
    /\ \A S \in SUBSET Rows(T, e) : S # {} => \E r \in S : T[r].supersedes \notin S
    /\ \A r \in Rows(T, e) \ {h} : Val(r) \in Nat /\ Val(h) \in Nat /\ Val(r) <= Val(h)

Marked(T, e, h) == \A r \in Rec : r.entity = e => (T[r].is_head <=> r = h)
Unmarked(T, e) == \A r \in Rec : r.entity = e => ~T[r].is_head

Whole(T, e) ==
    \/ Rows(T, e) = {} /\ Unmarked(T, e)
    \/ \E h \in Rec : ChainTo(T, e, h) /\ Marked(T, e, h)

(* The chain of e between DemoteEntityHead and InsertLedgerEntry.           *)
Headless(T, e, h) ==
    /\ Unmarked(T, e)
    /\ \/ h = None /\ Rows(T, e) = {}
       \/ h \in Rec /\ ChainTo(T, e, h)

(* A row supersedes a row of its own entity, or none.                       *)
Grounded(T) ==
    \A s \in Rec : T[s].stored =>
        \/ T[s].supersedes = None
        \/ /\ T[s].supersedes \in Rec /\ T[s].supersedes.entity = s.entity
           /\ T[T[s].supersedes].stored

(* The table as transaction p sees it, and leaves it if it commits.         *)
SeenOf(T, t) ==
    [r \in Rec |->
        IF \E n \in t.new : n.id = r
        THEN [stored |-> TRUE, is_head |-> r \notin t.demoted,
              supersedes |-> (CHOOSE n \in t.new : n.id = r).supersedes]
        ELSE [T[r] EXCEPT !.is_head = @ /\ r \notin t.demoted]]
Seen(p) == SeenOf(record_ledger, txn[p])

-----------------------------------------------------------------------------
(* The invariant *)

Row == [stored : BOOLEAN, supersedes : Rec \cup {None}, is_head : BOOLEAN]
At == {"idle", "lock", "head", "known", "demote", "insert", "mask"}

TxnType(p) ==
    /\ txn[p] = [at |-> txn[p].at, recs |-> txn[p].recs, i |-> txn[p].i, keys |-> txn[p].keys,
                 head |-> txn[p].head, new |-> txn[p].new, demoted |-> txn[p].demoted,
                 mask |-> txn[p].mask]
    /\ txn[p].at \in At
    /\ txn[p].new \subseteq [id : Rec, supersedes : Rec \cup {None}]
    /\ txn[p].demoted \subseteq Rec
    /\ txn[p].head \in Rec \cup {None}
    /\ txn[p].mask \in Seq(Secrets)

LedgerType ==
    /\ record_ledger \in [Rec -> Row]
    /\ txn = [p \in Procs |-> txn[p]]
    /\ locks = [p \in Procs |-> locks[p]]

(* p writes only rows of entities it prepares.                              *)
OfBatch(p, r) == \E j \in 1..Len(txn[p].recs) : txn[p].recs[j].entity = r.entity

Progress(p) ==
    /\ txn[p].at = "idle" => txn[p] = Idle /\ locks[p] = {}
    /\ txn[p].at # "idle" =>
          /\ txn[p].recs \in Batches /\ txn[p].i \in 1..Len(txn[p].recs)
          /\ txn[p].keys \subseteq LockKeys(txn[p].recs)
    /\ txn[p].at = "lock" => txn[p].keys # {} /\ txn[p].new = {} /\ txn[p].demoted = {}
    /\ txn[p].at \notin {"idle", "lock"} => txn[p].keys = {}
    /\ txn[p].at = "mask" => txn[p].i = Len(txn[p].recs)
    /\ txn[p].at = "lock" => txn[p].i = 1
    /\ \A m, n \in txn[p].new : m.id = n.id => m = n
    /\ \A n \in txn[p].new : OfBatch(p, n.id)
    /\ \A r \in txn[p].demoted : OfBatch(p, r) /\ Known(p, r)

NotOlder(r, h) == Val(r) \in Nat /\ Val(h) \in Nat /\ Val(h) <= Val(r)

(* What p read still holds: nobody else writes the entity it works on.      *)
HeadRead(p) ==
    LET e == Current(p).entity  h == txn[p].head IN
    /\ txn[p].at = "known" =>
          \/ h = None /\ Rows(Seen(p), e) = {} /\ Unmarked(Seen(p), e)
          \/ h \in Rec /\ h.entity = e /\ Marked(Seen(p), e, h)
    /\ txn[p].at = "demote" =>
          h \in Rec /\ h.entity = e /\ Marked(Seen(p), e, h) /\ NotOlder(Current(p), h)
    /\ txn[p].at = "insert" =>
          Headless(Seen(p), e, h) /\ (h # None => NotOlder(Current(p), h))

WholeTable(T) == Grounded(T) /\ \A e \in Entities : Whole(T, e)

(* What p would commit is whole, but for the chain it is about to extend.   *)
SeenInv(p) ==
    /\ Grounded(Seen(p))
    /\ \A e \in Entities :
          Whole(Seen(p), e) \/ (txn[p].at = "insert" /\ Current(p).entity = e)

(* A record p is done with: its entity is in its scope, or has a newer one. *)
Settled(p, j) ==
    \E h \in Rec :
        /\ h.entity = txn[p].recs[j].entity /\ Seen(p)[h].is_head
        /\ h.scope = txn[p].recs[j].scope \/ Val(txn[p].recs[j]) < Val(h)

Done(p, j) ==
    /\ j < txn[p].i \/ txn[p].at = "mask"
    /\ \A k \in (j + 1)..txn[p].i : txn[p].recs[k].entity # txn[p].recs[j].entity

SettledInv(p) ==
    txn[p].at \notin {"idle", "lock"} =>
        \A j \in 1..Len(txn[p].recs) : Done(p, j) => Settled(p, j)

(* The locks p holds are those of its batch, taken in ascending order.      *)
Held(p) == LockKeys(txn[p].recs) \ txn[p].keys

LocksOf(p) ==
    /\ txn[p].at # "idle" => \A k \in Held(p) : EntityLock(k) \in locks[p]
    /\ txn[p].at = "lock" =>
          /\ locks[p] = {EntityLock(k) : k \in Held(p)}
          /\ \A k \in Held(p), l \in txn[p].keys : k < l
    /\ \A k : EntityLock(k) \in locks[p] => k \in Held(p)
    /\ \A r \in Rec : RowLock(r) \in locks[p] => OfBatch(p, r) /\ txn[p].at # "lock"

TxnInv(p) ==
    /\ TxnType(p) /\ Progress(p) /\ (txn[p].at # "idle" => HeadRead(p))
    /\ SeenInv(p) /\ SettledInv(p) /\ LocksOf(p)

LedgerInv ==
    /\ LedgerType /\ WholeTable(record_ledger)
    /\ \A p \in Procs : TxnInv(p)
    /\ \A p, q \in Procs : p # q => locks[p] \cap locks[q] = {}

-----------------------------------------------------------------------------
(* Chains *)

(* Two tables hold the same rows of e.                                      *)
AgreeOn(T, U, e) == \A r \in Rec : r.entity = e => U[r] = T[r]

(* Tables that agree on an entity agree on its rows and their heirs.        *)
LEMMA SameRows ==
    ASSUME NEW T, NEW U, NEW e, AgreeOn(T, U, e), Grounded(T), Grounded(U), None \notin Rec
    PROVE  /\ Rows(U, e) = Rows(T, e)
           /\ \A r \in Rec : r.entity = e => Heirs(U, r) = Heirs(T, r)
  <1>1. Rows(U, e) = Rows(T, e)
    BY DEF Rows, AgreeOn
  <1>2. ASSUME NEW r \in Rec, r.entity = e
        PROVE  Heirs(U, r) = Heirs(T, r)
    <2>1. ASSUME NEW s \in Rec PROVE s \in Heirs(U, r) <=> s \in Heirs(T, r)
      <3>1. CASE s.entity = e
        BY <3>1 DEF Heirs, AgreeOn
      <3>2. CASE s.entity # e
        <4>1. s \notin Heirs(U, r)
          BY <1>2, <3>2 DEF Heirs, Grounded
        <4>2. s \notin Heirs(T, r)
          BY <1>2, <3>2 DEF Heirs, Grounded
        <4>. QED BY <4>1, <4>2
      <3>. QED BY <3>1, <3>2
    <2>2. Heirs(U, r) \subseteq Rec /\ Heirs(T, r) \subseteq Rec
      BY DEF Heirs
    <2>. QED BY <2>1, <2>2
  <1>. QED BY <1>1, <1>2

(* ... and on its chain.                                                    *)
LEMMA SameChain ==
    ASSUME NEW T, NEW U, NEW e, AgreeOn(T, U, e), Grounded(T), Grounded(U), None \notin Rec,
           NEW h, ChainTo(T, e, h)
    PROVE  ChainTo(U, e, h)
  <1>1. /\ Rows(U, e) = Rows(T, e)
        /\ \A r \in Rec : r.entity = e => Heirs(U, r) = Heirs(T, r)
    BY SameRows
  <1>2. \A r \in Rows(T, e) : r \in Rec /\ r.entity = e /\ U[r] = T[r] /\ Heirs(U, r) = Heirs(T, r)
    BY <1>1 DEF Rows, AgreeOn
  <1>3. h \in Rows(U, e) /\ Heirs(U, h) = {}
    BY <1>1, <1>2 DEF ChainTo
  <1>4. \A r \in Rows(U, e) \ {h} : \E s \in Rows(U, e) : Heirs(U, r) = {s}
    BY <1>1, <1>2 DEF ChainTo
  <1>5. \A S \in SUBSET Rows(U, e) : S # {} => \E r \in S : U[r].supersedes \notin S
    <2>. TAKE S \in SUBSET Rows(U, e)
    <2>. HAVE S # {}
    <2>1. PICK r \in S : T[r].supersedes \notin S
      BY <1>1 DEF ChainTo
    <2>2. U[r] = T[r]
      BY <1>1, <1>2
    <2>. QED BY <2>1, <2>2
  <1>6. \A r \in Rows(U, e) \ {h} : Val(r) \in Nat /\ Val(h) \in Nat /\ Val(r) <= Val(h)
    BY <1>1 DEF ChainTo
  <1>. QED BY <1>3, <1>4, <1>5, <1>6 DEF ChainTo

(* ... and so on whether the chain is whole.                                *)
LEMMA SameWhole ==
    ASSUME NEW T, NEW U, NEW e, AgreeOn(T, U, e), Grounded(T), Grounded(U), None \notin Rec
    PROVE  /\ Whole(T, e) => Whole(U, e)
           /\ \A h : Headless(T, e, h) => Headless(U, e, h)
           /\ \A h : Marked(T, e, h) => Marked(U, e, h)
           /\ Unmarked(T, e) => Unmarked(U, e)
           /\ Rows(U, e) = Rows(T, e)
  <1>1. Rows(U, e) = Rows(T, e)
    BY SameRows
  <1>2. \A h : Marked(T, e, h) => Marked(U, e, h)
    BY DEF Marked, AgreeOn
  <1>3. Unmarked(T, e) => Unmarked(U, e)
    BY DEF Unmarked, AgreeOn
  <1>4. \A h : ChainTo(T, e, h) => ChainTo(U, e, h)
    BY SameChain
  <1>. QED BY <1>1, <1>2, <1>3, <1>4 DEF Whole, Headless

(* A marked row of a whole chain is its end.                                *)
LEMMA MarkedIsEnd ==
    ASSUME NEW T, NEW e, Whole(T, e), NEW h \in Rec, h.entity = e, Marked(T, e, h)
    PROVE  ChainTo(T, e, h)
  <1>1. ~Unmarked(T, e)
    BY DEF Marked, Unmarked
  <1>2. PICK g \in Rec : ChainTo(T, e, g) /\ Marked(T, e, g)
    BY <1>1 DEF Whole
  <1>3. g = h
    BY <1>2 DEF Marked
  <1>. QED BY <1>2, <1>3

(* A whole chain without a head has no rows.                                *)
LEMMA UnmarkedIsEmpty ==
    ASSUME NEW T, NEW e, Whole(T, e), Unmarked(T, e)
    PROVE  Rows(T, e) = {}
  BY DEF Whole, Marked, Unmarked, ChainTo, Rows

(* Whatever row a whole chain marks is its only marked row.                 *)
LEMMA HeadIsMarked ==
    ASSUME NEW T, NEW e, Whole(T, e), NEW h \in Rec, h.entity = e, T[h].is_head
    PROVE  Marked(T, e, h)
  <1>1. ~Unmarked(T, e)
    BY DEF Unmarked
  <1>2. PICK g \in Rec : ChainTo(T, e, g) /\ Marked(T, e, g)
    BY <1>1 DEF Whole
  <1>3. g = h
    BY <1>2 DEF Marked
  <1>. QED BY <1>2, <1>3

(* DemoteEntityHead: the chain keeps its rows and loses its marker.         *)
LEMMA Demoted ==
    ASSUME NEW T, NEW U, NEW e, Whole(T, e), NEW h \in Rec, h.entity = e, Marked(T, e, h),
           \A r \in Rec : U[r].stored = T[r].stored /\ U[r].supersedes = T[r].supersedes,
           Unmarked(U, e)
    PROVE  Headless(U, e, h)
  <1>1. ChainTo(T, e, h)
    BY MarkedIsEnd
  <1>2. Rows(U, e) = Rows(T, e) /\ \A r : Heirs(U, r) = Heirs(T, r)
    BY DEF Rows, Heirs
  <1>3. \A S \in SUBSET Rows(U, e) : S # {} => \E r \in S : U[r].supersedes \notin S
    <2>. TAKE S \in SUBSET Rows(U, e)
    <2>. HAVE S # {}
    <2>1. PICK r \in S : T[r].supersedes \notin S
      BY <1>1, <1>2 DEF ChainTo
    <2>2. r \in Rec
      BY DEF Rows
    <2>. QED BY <2>1, <2>2
  <1>4. ChainTo(U, e, h)
    BY <1>1, <1>2, <1>3 DEF ChainTo
  <1>. QED BY <1>4 DEF Headless

(* InsertLedgerEntry: the chain grows by one row, at its end.               *)
Extends(T, U, x, h) ==
    /\ U[x].stored /\ U[x].is_head /\ U[x].supersedes = h
    /\ \A r \in Rec : r # x => U[r] = T[r]

(* A chain that takes a row not older than its end ends at that row.        *)
LEMMA Extended ==
    ASSUME NEW T, NEW U, NEW x \in Rec, ~T[x].stored, NEW h, Extends(T, U, x, h),
           Grounded(T), Headless(T, x.entity, h), h # None => NotOlder(x, h), None \notin Rec
    PROVE  Grounded(U) /\ ChainTo(U, x.entity, x) /\ Marked(U, x.entity, x)
  <1>. DEFINE e == x.entity
  <1>1. h = None \/ (h \in Rec /\ ChainTo(T, e, h) /\ h \in Rows(T, e))
    BY DEF Headless, ChainTo
  <1>2. Rows(U, e) = Rows(T, e) \cup {x} /\ x \notin Rows(T, e)
    BY DEF Rows, Extends
  <1>3. Marked(U, e, x)
    BY DEF Marked, Extends, Headless, Unmarked
  <1>4. Grounded(U)
    <2>. SUFFICES ASSUME NEW s \in Rec, U[s].stored
                  PROVE  \/ U[s].supersedes = None
                         \/ /\ U[s].supersedes \in Rec /\ U[s].supersedes.entity = s.entity
                            /\ U[U[s].supersedes].stored
      BY DEF Grounded
    <2>1. CASE s = x
      BY <1>1, <2>1 DEF Extends, Rows
    <2>2. CASE s # x
      <3>1. U[s] = T[s]
        BY <2>2 DEF Extends
      <3>. QED BY <3>1 DEF Grounded, Extends
    <2>. QED BY <2>1, <2>2
  <1>5. Heirs(T, x) = {}
    BY DEF Heirs, Grounded
  <1>6. \A r \in Rec : r # h => Heirs(U, r) = Heirs(T, r)
    <2>. TAKE r \in Rec
    <2>. HAVE r # h
    <2>1. ASSUME NEW s \in Rec PROVE s \in Heirs(U, r) <=> s \in Heirs(T, r)
      BY DEF Heirs, Extends
    <2>2. Heirs(U, r) \subseteq Rec /\ Heirs(T, r) \subseteq Rec
      BY DEF Heirs
    <2>. QED BY <2>1, <2>2
  <1>7. h \in Rec => x # h /\ Heirs(U, h) = {x}
    <2>. HAVE h \in Rec
    <2>0. ChainTo(T, e, h) /\ x # h
      BY <1>1, <1>2
    <2>1. ASSUME NEW s \in Rec PROVE s \in Heirs(U, h) <=> s = x
      <3>1. s \notin Heirs(T, h)
        BY <2>0 DEF ChainTo
      <3>. QED BY <3>1 DEF Heirs, Extends
    <2>2. Heirs(U, h) \subseteq Rec
      BY DEF Heirs
    <2>. QED BY <2>0, <2>1, <2>2
  <1>8. x \in Rows(U, e) /\ Heirs(U, x) = {}
    BY <1>2, <1>5, <1>6, <1>7
  <1>9. ASSUME NEW r \in Rows(U, e) \ {x}
        PROVE  \E s \in Rows(U, e) : Heirs(U, r) = {s}
    <2>1. r \in Rows(T, e) /\ r \in Rec /\ h \in Rec /\ ChainTo(T, e, h)
      BY <1>1, <1>2 DEF Rows, Headless
    <2>2. CASE r = h
      BY <1>7, <1>8, <2>1, <2>2
    <2>3. CASE r # h
      <3>1. PICK s \in Rows(T, e) : Heirs(T, r) = {s}
        BY <2>1, <2>3 DEF ChainTo
      <3>. QED BY <3>1, <1>2, <1>6, <2>1, <2>3
    <2>. QED BY <2>2, <2>3
  <1>10. ASSUME NEW S \in SUBSET Rows(U, e), S # {}
         PROVE  \E r \in S : U[r].supersedes \notin S
    <2>1. CASE S = {x}
      BY <2>1, <1>1, <1>7 DEF Extends
    <2>2. CASE S # {x}
      <3>0. \E y \in S : y # x
        BY <1>10, <2>2, Zenon
      <3>1. S \ {x} # {} /\ S \ {x} \subseteq Rows(T, e)
        BY <3>0, <1>2
      <3>2. h \in Rec /\ ChainTo(T, e, h)
        BY <3>1, <1>1 DEF Headless
      <3>3. PICK r \in S \ {x} : T[r].supersedes \notin S \ {x}
        BY <3>1, <3>2 DEF ChainTo
      <3>4. r \in Rec /\ T[r].stored /\ U[r] = T[r]
        BY <3>1, <3>3 DEF Rows, Extends
      <3>5. T[r].supersedes # x
        BY <3>4 DEF Grounded
      <3>. QED BY <3>3, <3>4, <3>5
    <2>. QED BY <2>1, <2>2
  <1>11. ASSUME NEW r \in Rows(U, e) \ {x}
         PROVE  Val(r) \in Nat /\ Val(x) \in Nat /\ Val(r) <= Val(x)
    <2>1. r \in Rows(T, e) /\ h \in Rec /\ ChainTo(T, e, h)
      BY <1>1, <1>2 DEF Headless
    <2>2. Val(x) \in Nat /\ Val(h) \in Nat /\ Val(h) <= Val(x)
      BY <2>1 DEF NotOlder
    <2>3. CASE r = h
      BY <2>2, <2>3
    <2>4. CASE r # h
      <3>1. Val(r) \in Nat /\ Val(r) <= Val(h)
        BY <2>1, <2>4 DEF ChainTo
      <3>. QED BY <3>1, <2>2
    <2>. QED BY <2>3, <2>4
  <1>12. ChainTo(U, e, x)
    BY <1>8, <1>9, <1>10, <1>11 DEF ChainTo
  <1>. QED BY <1>3, <1>4, <1>12

-----------------------------------------------------------------------------
(* What a transaction sees *)

(* What p sees: its own rows, and the table's less the markers it took.     *)
LEMMA SeenIs ==
    ASSUME NEW p \in Procs, record_ledger \in [Rec -> Row], TxnType(p), Progress(p)
    PROVE  /\ \A r \in Rec : Known(p, r) <=> Seen(p)[r].stored
           /\ \A e : HeadsSeen(p, e) = {r \in Rec : r.entity = e /\ Seen(p)[r].is_head}
           /\ \A n \in txn[p].new : Seen(p)[n.id].supersedes = n.supersedes
           /\ \A r \in Rec : r \notin NewIds(p) => Seen(p)[r].supersedes = record_ledger[r].supersedes
           /\ \A r \in Rec : ~OfBatch(p, r) => Seen(p)[r] = record_ledger[r]
           /\ Seen(p) \in [Rec -> Row]
  <1>1. \A r \in Rec : (\E n \in txn[p].new : n.id = r) <=> r \in NewIds(p)
    BY DEF NewIds
  <1>2. \A n \in txn[p].new : n.id \in Rec /\ n.supersedes \in Rec \cup {None}
    BY DEF TxnType
  <1>3. \A r \in Rec : record_ledger[r] \in Row
    OBVIOUS
  <1>4. \A n \in txn[p].new : (CHOOSE m \in txn[p].new : m.id = n.id) = n
    BY DEF Progress
  <1>5. ASSUME NEW r \in Rec, r \in NewIds(p)
        PROVE  /\ Seen(p)[r].stored = TRUE
               /\ Seen(p)[r].is_head = (r \notin txn[p].demoted)
               /\ \A n \in txn[p].new : n.id = r => Seen(p)[r].supersedes = n.supersedes
               /\ Seen(p)[r] \in Row
    <2>1. Seen(p)[r] = [stored |-> TRUE, is_head |-> r \notin txn[p].demoted,
                        supersedes |-> (CHOOSE n \in txn[p].new : n.id = r).supersedes]
      BY <1>1, <1>5 DEF Seen, SeenOf
    <2>2. PICK n \in txn[p].new : n.id = r
      BY <1>1, <1>5
    <2>3. (CHOOSE m \in txn[p].new : m.id = r) = n
      BY <1>4, <2>2
    <2>4. \A m \in txn[p].new : m.id = r => m = n
      BY <2>2 DEF Progress
    <2>5. PICK u \in Rec \cup {None} : u = n.supersedes
      BY <1>2
    <2>6. PICK b \in BOOLEAN : b = (r \notin txn[p].demoted)
      OBVIOUS
    <2>7. Seen(p)[r] = [stored |-> TRUE, is_head |-> b, supersedes |-> u]
      BY <2>1, <2>3, <2>5, <2>6
    <2>8. Seen(p)[r] \in Row
      BY <2>7 DEF Row
    <2>. QED BY <2>4, <2>5, <2>6, <2>7, <2>8
  <1>6. ASSUME NEW r \in Rec, r \notin NewIds(p)
        PROVE  /\ Seen(p)[r].stored = record_ledger[r].stored
               /\ Seen(p)[r].is_head = (record_ledger[r].is_head /\ r \notin txn[p].demoted)
               /\ Seen(p)[r].supersedes = record_ledger[r].supersedes
               /\ Seen(p)[r] \in Row
               /\ r \notin txn[p].demoted => Seen(p)[r] = record_ledger[r]
    <2>1. Seen(p)[r] = [record_ledger[r] EXCEPT !.is_head = @ /\ r \notin txn[p].demoted]
      BY <1>1, <1>6 DEF Seen, SeenOf
    <2>2. PICK w \in Row : w = record_ledger[r]
      BY <1>3
    <2>3. w = [stored |-> w.stored, supersedes |-> w.supersedes, is_head |-> w.is_head]
          /\ w.is_head \in BOOLEAN
      BY DEF Row
    <2>4. Seen(p)[r] = [stored |-> w.stored, supersedes |-> w.supersedes,
                        is_head |-> w.is_head /\ r \notin txn[p].demoted]
      BY <2>1, <2>2, <2>3
    <2>. QED BY <2>2, <2>3, <2>4 DEF Row
  <1>7. \A r \in Rec : Known(p, r) <=> Seen(p)[r].stored
    BY <1>5, <1>6 DEF Known
  <1>8. \A e : HeadsSeen(p, e) = {r \in Rec : r.entity = e /\ Seen(p)[r].is_head}
    BY <1>5, <1>6 DEF HeadsSeen
  <1>9. \A n \in txn[p].new : Seen(p)[n.id].supersedes = n.supersedes
    BY <1>1, <1>2, <1>5
  <1>10. \A r \in Rec : ~OfBatch(p, r) => Seen(p)[r] = record_ledger[r]
    BY <1>1, <1>6 DEF Progress
  <1>11. Seen(p) \in [Rec -> Row]
    BY <1>5, <1>6 DEF Seen, SeenOf
  <1>. QED BY <1>6, <1>7, <1>8, <1>9, <1>10, <1>11

(* Nothing written, nothing seen but the table.                             *)
LEMMA SeenTable ==
    ASSUME NEW T \in [Rec -> Row], NEW t, t.new = {}, t.demoted = {}
    PROVE  SeenOf(T, t) = T
  <1>1. \A r \in Rec : SeenOf(T, t)[r] = T[r]
    <2>. TAKE r \in Rec
    <2>1. SeenOf(T, t)[r] = [T[r] EXCEPT !.is_head = @ /\ TRUE]
      BY DEF SeenOf
    <2>2. PICK w \in Row : w = T[r]
      OBVIOUS
    <2>3. [w EXCEPT !.is_head = @ /\ TRUE] = w
      BY DEF Row
    <2>. QED BY <2>1, <2>2, <2>3
  <1>2. SeenOf(T, t) = [r \in Rec |-> SeenOf(T, t)[r]]
    BY DEF SeenOf
  <1>. QED BY <1>1, <1>2

(* A commit leaves the table p saw.                                         *)
LEMMA CommitIsSeen ==
    ASSUME NEW p \in Procs, Commit(p)
    PROVE  record_ledger' = Seen(p)
  BY DEF Commit, Seen, SeenOf

-----------------------------------------------------------------------------
(* Whose rows are whose *)

(* Past the locks, two transactions never work on one entity.               *)
LEMMA Apart ==
    ASSUME BatchAssumption, LedgerInv, NEW p \in Procs, NEW q \in Procs, p # q,
           txn[p].at \notin {"idle", "lock"}, txn[q].at \notin {"idle", "lock"},
           NEW r \in Rec, NEW s \in Rec, OfBatch(p, r), OfBatch(q, s)
    PROVE  r.entity # s.entity
  <1>1. ASSUME NEW c \in Procs, txn[c].at \notin {"idle", "lock"}, NEW z \in Rec, OfBatch(c, z)
        PROVE  EntityLock(LockKeyOf[z.entity]) \in locks[c]
    <2>1. TxnInv(c)
      BY DEF LedgerInv
    <2>2. txn[c].recs \in Batches /\ txn[c].keys = {}
      BY <1>1, <2>1 DEF TxnInv, Progress, TxnType, At
    <2>3. PICK j \in 1..Len(txn[c].recs) : txn[c].recs[j].entity = z.entity
      BY <1>1 DEF OfBatch
    <2>4. DOMAIN txn[c].recs = 1..Len(txn[c].recs)
      BY <2>2 DEF BatchAssumption
    <2>5. LockKeyOf[z.entity] \in Held(c)
      BY <2>2, <2>3, <2>4 DEF Held, LockKeys
    <2>. QED BY <1>1, <2>1, <2>5 DEF TxnInv, LocksOf
  <1>2. EntityLock(LockKeyOf[r.entity]) \in locks[p] /\ EntityLock(LockKeyOf[s.entity]) \in locks[q]
    BY <1>1
  <1>3. locks[p] \cap locks[q] = {}
    BY DEF LedgerInv
  <1>. QED BY <1>2, <1>3

(* The record p works on is one of its batch.                               *)
LEMMA CurrentIs ==
    ASSUME BatchAssumption, NEW p \in Procs, Progress(p), txn[p].at # "idle"
    PROVE  /\ Current(p) \in Rec /\ Current(p).entity \in Entities /\ OfBatch(p, Current(p))
           /\ Current(p).version \in ByteString
           /\ txn[p].recs \in Seq(Rec) /\ DOMAIN txn[p].recs = 1..Len(txn[p].recs)
           /\ Len(txn[p].recs) \in Nat /\ txn[p].i \in 1..Len(txn[p].recs)
           /\ \A j \in 1..Len(txn[p].recs) : txn[p].recs[j] \in Rec /\ txn[p].recs[j].entity \in Entities
  <1>1. txn[p].recs \in Batches /\ txn[p].i \in 1..Len(txn[p].recs)
    BY DEF Progress
  <1>2. txn[p].recs \in Seq(Rec)
    BY <1>1 DEF BatchAssumption
  <1>3. \A j \in 1..Len(txn[p].recs) : txn[p].recs[j] \in Rec
    BY <1>2
  <1>4. Current(p) = txn[p].recs[txn[p].i]
    BY DEF Current
  <1>. QED BY <1>1, <1>2, <1>3, <1>4 DEF BatchAssumption, OfBatch

-----------------------------------------------------------------------------
(* What a statement of one transaction leaves to the others *)

(* A step of another transaction that writes nothing keeps q's invariant.   *)
LEMMA OthersSame ==
    ASSUME NEW q \in Procs, TxnInv(q), txn'[q] = txn[q], locks'[q] = locks[q],
           record_ledger' = record_ledger
    PROVE  TxnInv(q)'
  <1>1. Seen(q)' = Seen(q)
    BY DEF Seen
  <1>2. TxnType(q)'
    BY DEF TxnInv, TxnType
  <1>3. Progress(q)'
    BY DEF TxnInv, Progress, OfBatch, Known, NewIds
  <1>4. txn'[q].at # "idle" => HeadRead(q)'
    BY <1>1 DEF TxnInv, HeadRead, Current
  <1>5. SeenInv(q)'
    BY <1>1 DEF TxnInv, SeenInv, Current
  <1>6. SettledInv(q)'
    <2>1. \A j : Done(q, j)' <=> Done(q, j)
      BY DEF Done
    <2>2. \A j : Settled(q, j)' <=> Settled(q, j)
      BY <1>1 DEF Settled
    <2>. QED BY <2>1, <2>2 DEF TxnInv, SettledInv
  <1>7. LocksOf(q)'
    BY DEF TxnInv, LocksOf, Held, OfBatch
  <1>. QED BY <1>2, <1>3, <1>4, <1>5, <1>6, <1>7 DEF TxnInv

(* What Ran changes, and what it leaves alone.                              *)
LEMMA RanIs ==
    ASSUME LedgerInv, NEW p \in Procs, NEW t, Ran(p, t)
    PROVE  /\ txn'[p] = t /\ locks'[p] = locks[p] \cup Wants(p)
           /\ record_ledger' = record_ledger
           /\ \A q \in Procs \ {p} : txn'[q] = txn[q] /\ locks'[q] = locks[q]
           /\ txn' = [q \in Procs |-> txn'[q]] /\ locks' = [q \in Procs |-> locks'[q]]
           /\ \A q \in Procs \ {p} : Wants(p) \cap locks[q] = {}
  <1>1. txn = [q \in Procs |-> txn[q]] /\ locks = [q \in Procs |-> locks[q]]
    BY DEF LedgerInv, LedgerType
  <1>2. txn' = [txn EXCEPT ![p] = t] /\ locks' = [locks EXCEPT ![p] = @ \cup Wants(p)]
        /\ record_ledger' = record_ledger
    BY DEF Ran
  <1>3. \A q \in Procs \ {p} : Wants(p) \cap locks[q] = {}
    BY DEF Ran, CanLock
  <1>4. txn'[p] = t /\ \A q \in Procs \ {p} : txn'[q] = txn[q]
    BY <1>1, <1>2
  <1>5. locks'[p] = locks[p] \cup Wants(p) /\ \A q \in Procs \ {p} : locks'[q] = locks[q]
    BY <1>1, <1>2
  <1>6. txn' = [q \in Procs |-> txn'[q]]
    BY <1>1, <1>2
  <1>7. locks' = [q \in Procs |-> locks'[q]]
    BY <1>1, <1>2
  <1>. QED BY <1>2, <1>3, <1>4, <1>5, <1>6, <1>7

(* A statement that keeps its own transaction in order keeps the rest, too. *)
LEMMA RanKeeps ==
    ASSUME LedgerInv, NEW p \in Procs, NEW t, Ran(p, t), TxnInv(p)'
    PROVE  LedgerInv'
  <1>1. LedgerType'
    BY RanIs DEF LedgerInv, LedgerType, Row
  <1>2. WholeTable(record_ledger)'
    <2>1. record_ledger' = record_ledger
      BY RanIs
    <2>. QED BY <2>1 DEF LedgerInv
  <1>3. \A q \in Procs : TxnInv(q)'
    <2>. TAKE q \in Procs
    <2>1. CASE q = p
      BY <2>1
    <2>2. CASE q # p
      <3>1. txn'[q] = txn[q] /\ locks'[q] = locks[q] /\ record_ledger' = record_ledger
        BY <2>2, RanIs
      <3>2. TxnInv(q)
        BY DEF LedgerInv
      <3>. QED BY <3>1, <3>2, OthersSame
    <2>. QED BY <2>1, <2>2
  <1>4. \A q, r \in Procs : q # r => locks'[q] \cap locks'[r] = {}
    <2>1. \A q, r \in Procs : q # r => locks[q] \cap locks[r] = {}
      BY DEF LedgerInv
    <2>. TAKE q, r \in Procs
    <2>. HAVE q # r
    <2>2. CASE q = p
      <3>1. /\ locks'[q] = locks[q] \cup Wants(p) /\ locks'[r] = locks[r]
            /\ Wants(p) \cap locks[r] = {} /\ locks[q] \cap locks[r] = {}
        BY <2>1, <2>2, RanIs
      <3>. QED BY <3>1
    <2>3. CASE r = p
      <3>1. /\ locks'[r] = locks[r] \cup Wants(p) /\ locks'[q] = locks[q]
            /\ Wants(p) \cap locks[q] = {} /\ locks[q] \cap locks[r] = {}
        BY <2>1, <2>3, RanIs
      <3>. QED BY <3>1
    <2>4. CASE q # p /\ r # p
      BY <2>1, <2>4, RanIs
    <2>. QED BY <2>2, <2>3, <2>4
  <1>. QED BY <1>1, <1>2, <1>3, <1>4 DEF LedgerInv

(* A transaction that ended has nothing left to keep.                       *)
LEMMA EndIs ==
    ASSUME LedgerInv, NEW p \in Procs, End(p),
           record_ledger' \in [Rec -> Row], WholeTable(record_ledger')
    PROVE  /\ TxnInv(p)'
           /\ txn' = [q \in Procs |-> txn'[q]] /\ locks' = [q \in Procs |-> locks'[q]]
           /\ \A q \in Procs \ {p} : txn'[q] = txn[q] /\ locks'[q] = locks[q]
           /\ locks'[p] = {}
  <1>1. txn = [q \in Procs |-> txn[q]] /\ locks = [q \in Procs |-> locks[q]]
    BY DEF LedgerInv, LedgerType
  <1>2. txn' = [txn EXCEPT ![p] = Idle] /\ locks' = [locks EXCEPT ![p] = {}]
    BY DEF End
  <1>3. /\ txn'[p] = Idle /\ locks'[p] = {}
        /\ \A q \in Procs \ {p} : txn'[q] = txn[q] /\ locks'[q] = locks[q]
        /\ txn' = [q \in Procs |-> txn'[q]] /\ locks' = [q \in Procs |-> locks'[q]]
    BY <1>1, <1>2
  <1>4. /\ txn'[p].at = "idle" /\ txn'[p].new = {} /\ txn'[p].demoted = {}
        /\ txn'[p].keys = {} /\ txn'[p].recs = <<>> /\ txn'[p].mask = <<>> /\ txn'[p].head = None
    BY <1>3 DEF Idle
  <1>5. Seen(p)' = record_ledger'
    BY <1>4, SeenTable DEF Seen
  <1>6. TxnType(p)'
    BY <1>3, <1>4 DEF TxnType, At, Idle
  <1>7. Progress(p)'
    BY <1>3, <1>4 DEF Progress
  <1>8. SeenInv(p)'
    BY <1>5 DEF SeenInv, WholeTable
  <1>9. SettledInv(p)' /\ (txn'[p].at # "idle" => HeadRead(p)')
    BY <1>4 DEF SettledInv
  <1>10. LocksOf(p)'
    BY <1>3, <1>4 DEF LocksOf
  <1>. QED BY <1>3, <1>6, <1>7, <1>8, <1>9, <1>10 DEF TxnInv

-----------------------------------------------------------------------------
(* The statements of one transaction *)

(* Past the entity locks no statement waits for one.                        *)
LEMMA WantsIs ==
    ASSUME BatchAssumption, NEW p \in Procs, Progress(p), txn[p].at \notin {"idle", "lock"}
    PROVE  /\ \A k : EntityLock(k) \notin Wants(p)
           /\ \A r \in Rec : RowLock(r) \in Wants(p) => OfBatch(p, r)
           /\ txn[p].at \notin {"demote", "insert"} => \A r : RowLock(r) \notin Wants(p)
  <1>1. CASE txn[p].at = "demote"
    <2>1. Wants(p) = {RowLock(r) : r \in HeadsSeen(p, Current(p).entity)}
      BY <1>1 DEF Wants
    <2>2. \A r \in HeadsSeen(p, Current(p).entity) : r.entity = Current(p).entity
      BY DEF HeadsSeen
    <2>3. OfBatch(p, Current(p))
      BY CurrentIs
    <2>. QED BY <1>1, <2>1, <2>2, <2>3 DEF EntityLock, RowLock, OfBatch
  <1>2. CASE txn[p].at = "insert"
    <2>1. Wants(p) = {RowLock(Current(p))}
      BY <1>2 DEF Wants
    <2>3. OfBatch(p, Current(p))
      BY CurrentIs
    <2>. QED BY <1>2, <2>1, <2>3 DEF EntityLock, RowLock
  <1>3. CASE txn[p].at = "mask" /\ txn[p].mask # <<>>
    <2>1. Wants(p) = {MapLock(Head(txn[p].mask))}
      BY <1>3 DEF Wants
    <2>. QED BY <1>3, <2>1 DEF EntityLock, RowLock, MapLock
  <1>4. CASE txn[p].at \notin {"demote", "insert"} /\ ~(txn[p].at = "mask" /\ txn[p].mask # <<>>)
    <2>1. Wants(p) = {}
      BY <1>4 DEF Wants
    <2>. QED BY <1>4, <2>1
  <1>. QED BY <1>1, <1>2, <1>3, <1>4

(* A statement that writes no row of the ledger.                            *)
LEMMA QuietStep ==
    ASSUME BatchAssumption, LedgerInv, NEW p \in Procs, NEW t, Ran(p, t),
           txn[p].at \notin {"idle", "lock"}, t.at \notin {"idle", "lock"}, t.at \in At,
           t.recs = txn[p].recs, t.keys = txn[p].keys, t.new = txn[p].new,
           t.demoted = txn[p].demoted, t.i \in 1..Len(t.recs), t.at = "mask" => t.i = Len(t.recs)
    PROVE  /\ Seen(p)' = Seen(p) /\ Progress(p)' /\ LocksOf(p)'
           /\ (t.at # "insert" /\ txn[p].at # "insert") => SeenInv(p)'
  <1>1. TxnInv(p) /\ TxnType(p) /\ Progress(p) /\ LocksOf(p) /\ SeenInv(p)
    BY DEF LedgerInv, TxnInv
  <1>2. txn'[p] = t /\ locks'[p] = locks[p] \cup Wants(p) /\ record_ledger' = record_ledger
    BY RanIs
  <1>3. Seen(p)' = Seen(p)
    BY <1>2 DEF Seen, SeenOf
  <1>4. Progress(p)'
    <2>1. \A r : OfBatch(p, r)' <=> OfBatch(p, r)
      BY <1>2 DEF OfBatch
    <2>2. \A r : Known(p, r)' <=> Known(p, r)
      BY <1>2 DEF Known, NewIds
    <2>3. t.recs \in Batches /\ t.keys = {} /\ t.keys \subseteq LockKeys(t.recs)
      BY <1>1 DEF Progress, TxnType, At
    <2>. QED BY <1>1, <1>2, <2>1, <2>2, <2>3 DEF Progress
  <1>5. LocksOf(p)'
    <2>1. Held(p)' = Held(p) /\ \A r : OfBatch(p, r)' <=> OfBatch(p, r)
      BY <1>2 DEF Held, OfBatch, LockKeys
    <2>2. /\ \A k : EntityLock(k) \notin Wants(p)
          /\ \A r \in Rec : RowLock(r) \in Wants(p) => OfBatch(p, r)
      BY <1>1, WantsIs
    <2>. QED BY <1>1, <1>2, <2>1, <2>2 DEF LocksOf
  <1>6. (t.at # "insert" /\ txn[p].at # "insert") => SeenInv(p)'
    BY <1>1, <1>2, <1>3 DEF SeenInv
  <1>. QED BY <1>3, <1>4, <1>5, <1>6

(* EntityHead reads the marked row of a whole chain, or finds it empty.     *)
LEMMA ReadHeadStep ==
    ASSUME BatchAssumption, LedgerInv, NEW p \in Procs, ReadHead(p)
    PROVE  LedgerInv'
  <1>. DEFINE e == Current(p).entity
  <1>1. TxnInv(p) /\ TxnType(p) /\ Progress(p) /\ LocksOf(p) /\ SeenInv(p) /\ SettledInv(p)
        /\ record_ledger \in [Rec -> Row]
    BY DEF LedgerInv, TxnInv, LedgerType
  <1>2. txn[p].at = "head"
    BY DEF ReadHead
  <1>3. PICK h \in Rec \cup {None} :
            /\ Ran(p, [txn[p] EXCEPT !.at = "known", !.head = h])
            /\ \/ h = None /\ HeadsSeen(p, e) = {}
               \/ h \in Rec /\ h \in HeadsSeen(p, e)
    BY DEF ReadHead, HeadsSeen
  <1>4. PICK t : t = [txn[p] EXCEPT !.at = "known", !.head = h]
    OBVIOUS
  <1>5. /\ t.at = "known" /\ t.head = h /\ t.recs = txn[p].recs /\ t.i = txn[p].i
        /\ t.keys = txn[p].keys /\ t.new = txn[p].new /\ t.demoted = txn[p].demoted
        /\ t.mask = txn[p].mask
        /\ t = [at |-> t.at, recs |-> t.recs, i |-> t.i, keys |-> t.keys, head |-> t.head,
                new |-> t.new, demoted |-> t.demoted, mask |-> t.mask]
    BY <1>1, <1>4 DEF TxnType
  <1>6. Ran(p, t) /\ txn'[p] = t
    BY <1>3, <1>4, RanIs
  <1>7. txn[p].i \in 1..Len(txn[p].recs) /\ e \in Entities
    BY <1>1, <1>2, CurrentIs
  <1>8. Seen(p)' = Seen(p) /\ Progress(p)' /\ LocksOf(p)' /\ SeenInv(p)'
    BY <1>2, <1>5, <1>6, <1>7, QuietStep DEF At
  <1>9. TxnType(p)'
    BY <1>1, <1>5, <1>6 DEF TxnType, At
  <1>10. Current(p)' = Current(p)
    BY <1>5, <1>6 DEF Current
  <1>11. Whole(Seen(p), e)
    BY <1>1, <1>2, <1>7 DEF SeenInv
  <1>12. HeadsSeen(p, e) = {r \in Rec : r.entity = e /\ Seen(p)[r].is_head}
    BY <1>1, SeenIs
  <1>13. HeadRead(p)'
    <2>1. CASE h = None /\ HeadsSeen(p, e) = {}
      <3>1. Unmarked(Seen(p), e)
        BY <2>1, <1>12 DEF Unmarked
      <3>2. Rows(Seen(p), e) = {}
        BY <3>1, <1>11, UnmarkedIsEmpty
      <3>. QED BY <2>1, <3>1, <3>2, <1>5, <1>6, <1>8, <1>10 DEF HeadRead
    <2>2. CASE h \in Rec /\ h \in HeadsSeen(p, e)
      <3>1. h.entity = e /\ Seen(p)[h].is_head
        BY <2>2, <1>12
      <3>2. Marked(Seen(p), e, h)
        BY <2>2, <3>1, <1>11, HeadIsMarked
      <3>. QED BY <2>2, <3>1, <3>2, <1>5, <1>6, <1>8, <1>10 DEF HeadRead
    <2>. QED BY <1>3, <2>1, <2>2
  <1>14. SettledInv(p)'
    <2>1. \A j : Done(p, j)' => Done(p, j)
      BY <1>2, <1>5, <1>6 DEF Done
    <2>2. \A j : Settled(p, j) => Settled(p, j)'
      BY <1>5, <1>6, <1>8 DEF Settled
    <2>. QED BY <1>1, <1>2, <1>5, <1>6, <2>1, <2>2 DEF SettledInv
  <1>15. TxnInv(p)'
    BY <1>8, <1>9, <1>13, <1>14 DEF TxnInv
  <1>. QED BY <1>6, <1>15, RanKeeps

(* The values the masker maps are those of the admitted records.            *)
UnfoldsMask(g, t, n) ==
    g = [i \in 0..n |->
            IF i = 0 THEN <<>>
            ELSE IF Admitted(t, t.recs[i]) THEN g[i - 1] \o SecretsOf[t.recs[i]] ELSE g[i - 1]]

(* The recursion of MaskOf has a value for every number of records.         *)
LEMMA MaskExists ==
    ASSUME NEW t, NEW n \in Nat
    PROVE  \E g : UnfoldsMask(g, t, n)
  <1>. DEFINE Bad == {k \in Nat : ~ \E g : UnfoldsMask(g, t, k)}
  <1>. SUFFICES ASSUME ~ \E g : UnfoldsMask(g, t, n) PROVE FALSE
    OBVIOUS
  <1>8. n \in Bad
    OBVIOUS
  <1>0. Bad \in SUBSET Nat
    OBVIOUS
  <1>9. \E m \in Bad : \A k \in Bad : m <= k
    <2>. HIDE DEF Bad
    <2>. QED BY LeastNat, <1>0, <1>8
  <1>1. PICK m \in Bad : \A k \in Bad : m <= k
    BY <1>9
  <1>2. CASE m = 0
    <2>1. UnfoldsMask([i \in 0..0 |-> <<>>], t, 0)
      BY DEF UnfoldsMask
    <2>. QED BY <2>1, <1>1, <1>2
  <1>3. CASE m # 0
    <2>1. m \in Nat /\ m - 1 \in Nat /\ m - 1 \notin Bad
      BY <1>1, <1>3
    <2>2. PICK g : UnfoldsMask(g, t, m - 1)
      BY <2>1
    <2>. DEFINE Step(i, q) == IF Admitted(t, t.recs[i]) THEN q \o SecretsOf[t.recs[i]] ELSE q
                h == [i \in 0..m |-> IF i = m THEN Step(m, g[m - 1]) ELSE g[i]]
    <2>3. \A i \in 0..m : h[i] = IF i = 0 THEN <<>> ELSE Step(i, h[i - 1])
      <3>. HIDE DEF Step
      <3>. TAKE i \in 0..m
      <3>1. CASE i = m BY <3>1, <2>1, <1>3
      <3>2. CASE i # m
        <4>1. i \in 0..m - 1 /\ h[i] = g[i]
          BY <3>2, <2>1
        <4>2. g[i] = IF i = 0 THEN <<>> ELSE Step(i, g[i - 1])
          BY <4>1, <2>2 DEF UnfoldsMask, Step
        <4>3. i # 0 => h[i - 1] = g[i - 1]
          BY <4>1, <2>1
        <4>. QED BY <4>1, <4>2, <4>3
      <3>. QED BY <3>1, <3>2
    <2>4. h = [i \in 0..m |-> IF i = 0 THEN <<>> ELSE Step(i, h[i - 1])]
      <3>. HIDE DEF h, Step
      <3>1. DOMAIN h = 0..m /\ h = [i \in 0..m |-> h[i]]
        BY DEF h
      <3>. QED BY <2>3, <3>1
    <2>5. UnfoldsMask(h, t, m)
      <3>. HIDE DEF h
      <3>. QED BY <2>4 DEF UnfoldsMask
    <2>. QED BY <2>5, <1>1
  <1>. QED BY <1>2, <1>3

(* What the masker is given is a list of values.                            *)
LEMMA MaskOfIs ==
    ASSUME BatchAssumption, NEW t, t.recs \in Seq(Rec)
    PROVE  MaskOf(t) \in Seq(Secrets)
  <1>n. PICK n \in Nat : n = Len(t.recs)
    OBVIOUS
  <1>. DEFINE f == CHOOSE g : UnfoldsMask(g, t, n)
  <1>1. UnfoldsMask(f, t, n)
    BY MaskExists
  <1>2. MaskOf(t) = f[n]
    BY <1>n DEF MaskOf, UnfoldsMask
  <1>. HIDE DEF f
  <1>3. \A i \in 1..n : t.recs[i] \in Rec /\ SecretsOf[t.recs[i]] \in Seq(Secrets)
    BY <1>n DEF BatchAssumption
  <1>. DEFINE Bad == {k \in Nat : k <= n /\ f[k] \notin Seq(Secrets)}
  <1>. SUFFICES ASSUME f[n] \notin Seq(Secrets) PROVE FALSE
    BY <1>2
  <1>4. n \in Bad /\ Bad \in SUBSET Nat
    OBVIOUS
  <1>5. \E m \in Bad : \A k \in Bad : m <= k
    <2>. HIDE DEF Bad
    <2>. QED BY LeastNat, <1>4
  <1>6. PICK m \in Bad : \A k \in Bad : m <= k
    BY <1>5
  <1>7. f[0] = <<>> /\ <<>> \in Seq(Secrets)
    BY <1>1 DEF UnfoldsMask
  <1>8. m # 0
    BY <1>6, <1>7
  <1>9. m \in 1..n /\ m \in 0..n /\ m - 1 \in Nat /\ m - 1 \notin Bad /\ f[m - 1] \in Seq(Secrets)
    BY <1>6, <1>8
  <1>10. f[m] = IF Admitted(t, t.recs[m]) THEN f[m - 1] \o SecretsOf[t.recs[m]] ELSE f[m - 1]
    BY <1>1, <1>8, <1>9 DEF UnfoldsMask
  <1>11. f[m] \in Seq(Secrets)
    BY <1>3, <1>9, <1>10
  <1>. QED BY <1>6, <1>11

(* NextRecord goes on to the next record, or to the masker.                 *)
LEMMA NextRecordIs ==
    ASSUME BatchAssumption, NEW t, t.recs \in Seq(Rec), t.i \in 1..Len(t.recs),
           t = [at |-> t.at, recs |-> t.recs, i |-> t.i, keys |-> t.keys, head |-> t.head,
                new |-> t.new, demoted |-> t.demoted, mask |-> t.mask],
           NEW u, u = NextRecord(t)
    PROVE  /\ u.recs = t.recs /\ u.keys = t.keys /\ u.new = t.new /\ u.demoted = t.demoted
           /\ \/ /\ u.at = "head" /\ u.i = t.i + 1 /\ t.i < Len(t.recs)
                 /\ u.head = None /\ u.mask = t.mask
              \/ /\ u.at = "mask" /\ u.i = t.i /\ t.i = Len(t.recs) /\ u.mask \in Seq(Secrets)
                 /\ u.head = t.head
           /\ u = [at |-> u.at, recs |-> u.recs, i |-> u.i, keys |-> u.keys, head |-> u.head,
                   new |-> u.new, demoted |-> u.demoted, mask |-> u.mask]
  <1>1. Len(t.recs) \in Nat
    <2>1. PICK s \in Seq(Rec) : s = t.recs
      OBVIOUS
    <2>2. Len(s) \in Nat
      OBVIOUS
    <2>. QED BY <2>1, <2>2
  <1>2. CASE More(t)
    <2>1. u = [t EXCEPT !.at = "head", !.i = @ + 1, !.head = None]
      BY <1>2 DEF NextRecord
    <2>2. t.i < Len(t.recs)
      BY <1>2 DEF More
    <2>. QED BY <2>1, <2>2
  <1>3. CASE ~More(t)
    <2>1. u = [t EXCEPT !.at = "mask", !.mask = MaskOf(t)]
      BY <1>3 DEF NextRecord
    <2>2. t.i = Len(t.recs)
      BY <1>1, <1>3 DEF More
    <2>3. PICK m \in Seq(Secrets) : m = MaskOf(t)
      BY MaskOfIs
    <2>. QED BY <2>1, <2>2, <2>3
  <1>. QED BY <1>2, <1>3

(* A record that is done with stays so, until its entity is taken up again. *)
LEMMA SettledGoesOn ==
    ASSUME NEW p \in Procs, Progress(p), SettledInv(p), txn[p].at \in {"known", "insert"},
           BatchAssumption,
           txn'[p].recs = txn[p].recs,
           \/ txn'[p].at = "head" /\ txn'[p].i = txn[p].i + 1
           \/ txn'[p].at = "mask" /\ txn'[p].i = txn[p].i /\ txn[p].i = Len(txn[p].recs),
           \A e \in Entities : e # Current(p).entity => AgreeOn(Seen(p), Seen(p)', e),
           NEW i, i = txn[p].i, Settled(p, i)'
    PROVE  SettledInv(p)'
  <1>1. i = txn[p].i
    OBVIOUS
  <1>2. PICK recs : recs = txn[p].recs
    OBVIOUS
  <1>3. recs \in Seq(Rec) /\ i \in 1..Len(recs) /\ Current(p) = recs[i]
        /\ \A j \in 1..Len(recs) : recs[j] \in Rec /\ recs[j].entity \in Entities
    BY <1>1, <1>2, CurrentIs DEF Current
  <1>. SUFFICES ASSUME NEW j \in 1..Len(recs), Done(p, j)'
                PROVE  Settled(p, j)'
    BY <1>2 DEF SettledInv
  <1>4. j <= i /\ i <= txn'[p].i /\ txn'[p].i \in Int
    BY <1>1, <1>2, <1>3 DEF Done
  <1>5. \A k \in (j + 1)..txn'[p].i : recs[k].entity # recs[j].entity
    BY <1>2 DEF Done
  <1>6. CASE j = i
    BY <1>1, <1>6
  <1>7. CASE j # i
    <2>0. j \in Int /\ i \in Int
      BY <1>3
    <2>5. j < i /\ i \in (j + 1)..txn'[p].i
      BY <2>0, <1>4, <1>7
    <2>1. j < i /\ recs[j].entity # Current(p).entity
      BY <2>5, <1>3, <1>5
    <2>2. Done(p, j)
      BY <1>1, <1>2, <1>3, <1>4, <1>5, <2>1 DEF Done
    <2>3. Settled(p, j)
      BY <1>2, <2>2 DEF SettledInv
    <2>4. AgreeOn(Seen(p), Seen(p)', recs[j].entity)
      BY <1>3, <2>1
    <2>. QED BY <1>2, <2>3, <2>4 DEF Settled, AgreeOn
  <1>. QED BY <1>6, <1>7

(* A record that is passed over: its entity is in its scope, or newer.      *)
LEMMA PassOverStep ==
    ASSUME BatchAssumption, LedgerInv, NEW p \in Procs, PassOver(p)
    PROVE  LedgerInv'
  <1>r. PICK r : r = Current(p)
    OBVIOUS
  <1>e. PICK e : e = r.entity
    OBVIOUS
  <1>h. PICK h : h = txn[p].head
    OBVIOUS
  <1>1. TxnInv(p) /\ TxnType(p) /\ Progress(p) /\ LocksOf(p) /\ SeenInv(p) /\ SettledInv(p)
        /\ record_ledger \in [Rec -> Row]
    BY DEF LedgerInv, TxnInv, LedgerType
  <1>2. txn[p].at = "known" /\ Decision(p, r) = "pass over" /\ Ran(p, NextRecord(txn[p]))
    BY <1>r DEF PassOver
  <1>3. /\ r \in Rec /\ e \in Entities /\ txn[p].recs \in Seq(Rec) /\ txn[p].i \in 1..Len(txn[p].recs)
        /\ r.version \in ByteString
    BY <1>1, <1>2, <1>r, <1>e, CurrentIs
  <1>4. PICK u : u = NextRecord(txn[p])
    OBVIOUS
  <1>5. /\ u.recs = txn[p].recs /\ u.keys = txn[p].keys
        /\ u.new = txn[p].new /\ u.demoted = txn[p].demoted
        /\ \/ /\ u.at = "head" /\ u.i = txn[p].i + 1 /\ txn[p].i < Len(txn[p].recs)
              /\ u.head = None /\ u.mask = txn[p].mask
           \/ /\ u.at = "mask" /\ u.i = txn[p].i /\ txn[p].i = Len(txn[p].recs)
              /\ u.mask \in Seq(Secrets) /\ u.head = txn[p].head
        /\ u = [at |-> u.at, recs |-> u.recs, i |-> u.i, keys |-> u.keys, head |-> u.head,
                new |-> u.new, demoted |-> u.demoted, mask |-> u.mask]
    <2>1. txn[p] = [at |-> txn[p].at, recs |-> txn[p].recs, i |-> txn[p].i, keys |-> txn[p].keys,
                 head |-> txn[p].head, new |-> txn[p].new, demoted |-> txn[p].demoted,
                 mask |-> txn[p].mask]
      BY <1>1 DEF TxnType
    <2>2. PICK t : t = txn[p]
      OBVIOUS
    <2>. QED BY <2>1, <2>2, <1>3, <1>4, NextRecordIs
  <1>6. Ran(p, u) /\ txn'[p] = u
    BY <1>2, <1>4, RanIs
  <1>7. u.i \in 1..Len(u.recs)
    BY <1>3, <1>5
  <1>8. Seen(p)' = Seen(p) /\ Progress(p)' /\ LocksOf(p)' /\ SeenInv(p)'
    BY <1>2, <1>5, <1>6, <1>7, QuietStep DEF At
  <1>9. TxnType(p)'
    BY <1>1, <1>5, <1>6 DEF TxnType, At
  <1>10. HeadRead(p)'
    BY <1>5, <1>6 DEF HeadRead
  <1>11. \/ h = None /\ Rows(Seen(p), e) = {}
         \/ h \in Rec /\ h.entity = e /\ Marked(Seen(p), e, h)
    BY <1>1, <1>2, <1>r, <1>e, <1>h DEF TxnInv, HeadRead
  <1>12. /\ HeadsSeen(p, e) = {x \in Rec : x.entity = e /\ Seen(p)[x].is_head}
         /\ Known(p, r) => r \in Rows(Seen(p), e)
    BY <1>1, <1>3, <1>e, SeenIs DEF Rows
  <1>13. \E g \in Rec : /\ g.entity = e /\ Seen(p)[g].is_head
                        /\ g.scope = r.scope \/ Val(r) < Val(g)
    <2>1. CASE Known(p, r) /\ ~ScopeReturned(p, r)
      <3>1. h \in Rec /\ h.entity = e /\ Seen(p)[h].is_head
        BY <2>1, <1>11, <1>12 DEF Marked
      <3>2. r \in HeadsSeen(p, e) \/ h.scope = r.scope
        BY <2>1, <3>1, <1>e, <1>h DEF ScopeReturned, BatchAssumption
      <3>. QED BY <3>1, <3>2, <1>3, <1>12
    <2>2. CASE ~Known(p, r)
      <3>. DEFINE c == compareVersions(OrderOf[e], r.version, h.version)
      <3>1. h # None /\ c.ok /\ c.order < 0
        BY <2>2, <1>2, <1>e, <1>h DEF Decision, ScopeReturned
      <3>2. h \in Rec /\ h.entity = e /\ Seen(p)[h].is_head
        BY <3>1, <1>11 DEF Marked
      <3>3. h.version \in ByteString /\ OrderOf[e] \in VersionOrders
        BY <3>2, <1>3 DEF BatchAssumption
      <3>4. Val(r) < Val(h)
        BY <3>1, <3>2, <3>3, <1>3, <1>e, CompareIsByValue DEF Val
      <3>. QED BY <3>2, <3>4
    <2>. QED BY <2>1, <2>2, <1>2 DEF Decision
  <1>14. SettledInv(p)'
    <2>1. PICK i : i = txn[p].i
      OBVIOUS
    <2>2. txn[p].recs[i] = r
      BY <1>r, <2>1 DEF Current
    <2>3. Settled(p, i)'
      BY <1>13, <1>5, <1>6, <1>8, <1>e, <2>2 DEF Settled
    <2>4. \A x : AgreeOn(Seen(p), Seen(p)', x)
      BY <1>8 DEF AgreeOn
    <2>. QED BY <1>1, <1>2, <1>5, <1>6, <2>1, <2>3, <2>4, SettledGoesOn
  <1>15. TxnInv(p)'
    BY <1>8, <1>9, <1>10, <1>14 DEF TxnInv
  <1>. QED BY <1>6, <1>15, RanKeeps

(* admit decides by what it read: the first record, or one not older.       *)
LEMMA AdmitStep ==
    ASSUME BatchAssumption, LedgerInv, NEW p \in Procs, Admit(p)
    PROVE  LedgerInv'
  <1>r. PICK r : r = Current(p)
    OBVIOUS
  <1>e. PICK e : e = r.entity
    OBVIOUS
  <1>h. PICK h : h = txn[p].head
    OBVIOUS
  <1>1. TxnInv(p) /\ TxnType(p) /\ Progress(p) /\ LocksOf(p) /\ SeenInv(p) /\ SettledInv(p)
        /\ record_ledger \in [Rec -> Row]
    BY DEF LedgerInv, TxnInv, LedgerType
  <1>2. PICK at : /\ txn[p].at = "known" /\ Ran(p, [txn[p] EXCEPT !.at = at])
                  /\ \/ Decision(p, r) = "first" /\ at = "insert"
                     \/ Decision(p, r) = "replace" /\ at = "demote"
    BY <1>r DEF Admit
  <1>3. r \in Rec /\ e \in Entities /\ txn[p].i \in 1..Len(txn[p].recs) /\ r.version \in ByteString
    BY <1>1, <1>2, <1>r, <1>e, CurrentIs
  <1>4. PICK t : t = [txn[p] EXCEPT !.at = at]
    OBVIOUS
  <1>5. /\ t.at = at /\ t.head = h /\ t.recs = txn[p].recs /\ t.i = txn[p].i
        /\ t.keys = txn[p].keys /\ t.new = txn[p].new /\ t.demoted = txn[p].demoted
        /\ t.mask = txn[p].mask
        /\ t = [at |-> t.at, recs |-> t.recs, i |-> t.i, keys |-> t.keys, head |-> t.head,
                new |-> t.new, demoted |-> t.demoted, mask |-> t.mask]
    BY <1>1, <1>4, <1>h DEF TxnType
  <1>6. Ran(p, t) /\ txn'[p] = t /\ record_ledger' = record_ledger
    BY <1>2, <1>4, RanIs
  <1>8. Seen(p)' = Seen(p) /\ Progress(p)' /\ LocksOf(p)'
    BY <1>2, <1>3, <1>5, <1>6, QuietStep DEF At
  <1>9. TxnType(p)'
    BY <1>1, <1>2, <1>5, <1>6, <1>h DEF TxnType, At
  <1>10. Current(p)' = r
    BY <1>5, <1>6, <1>r DEF Current
  <1>11. \/ h = None /\ Rows(Seen(p), e) = {} /\ Unmarked(Seen(p), e)
         \/ h \in Rec /\ h.entity = e /\ Marked(Seen(p), e, h)
    BY <1>1, <1>2, <1>r, <1>e, <1>h DEF TxnInv, HeadRead
  <1>12. SeenInv(p)'
    <2>1. \A x \in Entities : Whole(Seen(p), x)
      BY <1>1, <1>2 DEF SeenInv
    <2>. QED BY <2>1, <1>1, <1>8 DEF SeenInv
  <1>13. HeadRead(p)'
    <2>1. CASE Decision(p, r) = "first" /\ at = "insert"
      <3>1. h = None
        BY <2>1, <1>h DEF Decision
      <3>. QED BY <2>1, <3>1, <1>5, <1>6, <1>8, <1>10, <1>11, <1>e DEF HeadRead, Headless, BatchAssumption
    <2>2. CASE Decision(p, r) = "replace" /\ at = "demote"
      <3>. DEFINE c == compareVersions(OrderOf[e], r.version, h.version)
      <3>1. h # None /\ c.ok /\ ~(c.order < 0)
        BY <2>2, <1>e, <1>h DEF Decision
      <3>2. h \in Rec /\ h.entity = e /\ Marked(Seen(p), e, h)
        BY <3>1, <1>11
      <3>3. h.version \in ByteString /\ OrderOf[e] \in VersionOrders
        BY <3>2, <1>3 DEF BatchAssumption
      <3>4. Val(r) \in Nat /\ Val(h) \in Nat /\ ~(Val(r) < Val(h))
        BY <3>1, <3>2, <3>3, <1>3, <1>e, CompareIsByValue DEF Val
      <3>5. NotOlder(r, h)
        BY <3>4 DEF NotOlder
      <3>. QED BY <2>2, <3>2, <3>5, <1>5, <1>6, <1>8, <1>10, <1>e DEF HeadRead
    <2>. QED BY <1>2, <2>1, <2>2
  <1>14. SettledInv(p)'
    <2>1. \A j : Done(p, j)' => Done(p, j)
      BY <1>2, <1>5, <1>6 DEF Done
    <2>2. \A j : Settled(p, j) => Settled(p, j)'
      BY <1>5, <1>6, <1>8 DEF Settled
    <2>. QED BY <1>1, <1>2, <1>5, <1>6, <2>1, <2>2 DEF SettledInv
  <1>15. TxnInv(p)'
    BY <1>8, <1>9, <1>12, <1>13, <1>14 DEF TxnInv
  <1>. QED BY <1>6, <1>15, RanKeeps

(* UpsertRedactions writes no row of the ledger.                            *)
LEMMA MaskStep ==
    ASSUME BatchAssumption, LedgerInv, NEW p \in Procs, Mask(p)
    PROVE  LedgerInv'
  <1>1. TxnInv(p) /\ TxnType(p) /\ Progress(p) /\ LocksOf(p) /\ SeenInv(p) /\ SettledInv(p)
    BY DEF LedgerInv, TxnInv
  <1>2. txn[p].at = "mask" /\ txn[p].mask # <<>> /\ Ran(p, [txn[p] EXCEPT !.mask = Tail(@)])
    BY DEF Mask
  <1>3. txn[p].i \in 1..Len(txn[p].recs) /\ txn[p].i = Len(txn[p].recs)
    BY <1>1, <1>2 DEF Progress
  <1>4. PICK m \in Seq(Secrets) : m = Tail(txn[p].mask)
    <2>1. PICK s \in Seq(Secrets) : s = txn[p].mask
      BY <1>1 DEF TxnType
    <2>2. s # <<>>
      BY <1>2, <2>1
    <2>3. Tail(s) \in Seq(Secrets)
      BY <2>2
    <2>. QED BY <2>1, <2>3
  <1>t. PICK t : t = [txn[p] EXCEPT !.mask = m]
    OBVIOUS
  <1>5. /\ t.at = "mask" /\ t.head = txn[p].head /\ t.recs = txn[p].recs /\ t.i = txn[p].i
        /\ t.keys = txn[p].keys /\ t.new = txn[p].new /\ t.demoted = txn[p].demoted
        /\ t.mask = m
        /\ t = [at |-> t.at, recs |-> t.recs, i |-> t.i, keys |-> t.keys, head |-> t.head,
                new |-> t.new, demoted |-> t.demoted, mask |-> t.mask]
    BY <1>1, <1>2, <1>t DEF TxnType
  <1>6. Ran(p, t) /\ txn'[p] = t
    BY <1>2, <1>4, <1>t, RanIs
  <1>8. Seen(p)' = Seen(p) /\ Progress(p)' /\ LocksOf(p)' /\ SeenInv(p)'
    BY <1>2, <1>3, <1>5, <1>6, QuietStep DEF At
  <1>9. TxnType(p)'
    BY <1>1, <1>5, <1>6 DEF TxnType, At
  <1>10. HeadRead(p)'
    BY <1>5, <1>6 DEF HeadRead
  <1>14. SettledInv(p)'
    <2>1. \A j : Done(p, j)' => Done(p, j)
      BY <1>2, <1>5, <1>6 DEF Done
    <2>2. \A j : Settled(p, j) => Settled(p, j)'
      BY <1>5, <1>6, <1>8 DEF Settled
    <2>. QED BY <1>1, <1>2, <1>5, <1>6, <2>1, <2>2 DEF SettledInv
  <1>15. TxnInv(p)'
    BY <1>8, <1>9, <1>10, <1>14 DEF TxnInv
  <1>. QED BY <1>6, <1>15, RanKeeps

(* A statement past the entity locks keeps them.                            *)
LEMMA LocksGoOn ==
    ASSUME BatchAssumption, LedgerInv, NEW p \in Procs, NEW t, Ran(p, t),
           txn[p].at \notin {"idle", "lock"}, t.at \notin {"idle", "lock"},
           t.recs = txn[p].recs, t.keys = txn[p].keys
    PROVE  LocksOf(p)'
  <1>1. Progress(p) /\ LocksOf(p)
    BY DEF LedgerInv, TxnInv
  <1>2. txn'[p] = t /\ locks'[p] = locks[p] \cup Wants(p)
    BY RanIs
  <1>3. Held(p)' = Held(p) /\ \A r : OfBatch(p, r)' <=> OfBatch(p, r)
    BY <1>2 DEF Held, OfBatch, LockKeys
  <1>4. /\ \A k : EntityLock(k) \notin Wants(p)
        /\ \A r \in Rec : RowLock(r) \in Wants(p) => OfBatch(p, r)
    BY <1>1, WantsIs
  <1>. QED BY <1>1, <1>2, <1>3, <1>4 DEF LocksOf

(* The rows p writes take the marker off D, and nothing else.               *)
TakesMarker(T, U, D) ==
    \A r \in Rec :
        /\ U[r].stored = T[r].stored /\ U[r].supersedes = T[r].supersedes
        /\ U[r].is_head <=> T[r].is_head /\ r \notin D
        /\ r \notin D => U[r] = T[r]

(* Demoting takes the marker off what p sees, too.                          *)
LEMMA SeenDemoted ==
    ASSUME NEW T \in [Rec -> Row], NEW t, NEW u, NEW D, u.new = t.new, u.demoted = t.demoted \cup D
    PROVE  TakesMarker(SeenOf(T, t), SeenOf(T, u), D)
  <1>. SUFFICES ASSUME NEW r \in Rec
                PROVE  /\ SeenOf(T, u)[r].stored = SeenOf(T, t)[r].stored
                       /\ SeenOf(T, u)[r].supersedes = SeenOf(T, t)[r].supersedes
                       /\ SeenOf(T, u)[r].is_head <=> SeenOf(T, t)[r].is_head /\ r \notin D
                       /\ r \notin D => SeenOf(T, u)[r] = SeenOf(T, t)[r]
    BY DEF TakesMarker
  <1>1. PICK w \in Row : w = T[r]
    OBVIOUS
  <1>8. PICK a \in BOOLEAN, b \in BOOLEAN : a = w.stored /\ b = w.is_head
    BY DEF Row
  <1>9. PICK y : y = w.supersedes
    OBVIOUS
  <1>2. w = [stored |-> a, supersedes |-> y, is_head |-> b]
    BY <1>8, <1>9 DEF Row
  <1>5. PICK c \in BOOLEAN, d \in BOOLEAN : c = (r \notin t.demoted) /\ d = (r \notin u.demoted)
    OBVIOUS
  <1>6. d <=> c /\ r \notin D
    BY <1>5
  <1>7. r \notin D => d = c
    BY <1>6
  <1>3. CASE \E n \in t.new : n.id = r
    <2>0. PICK z : z = (CHOOSE n \in t.new : n.id = r).supersedes
      OBVIOUS
    <2>3. PICK o \in BOOLEAN : o = TRUE
      OBVIOUS
    <2>1. SeenOf(T, u)[r] = [stored |-> o, is_head |-> d, supersedes |-> z]
      BY <1>3, <1>5, <2>0, <2>3 DEF SeenOf
    <2>2. SeenOf(T, t)[r] = [stored |-> o, is_head |-> c, supersedes |-> z]
      BY <1>3, <1>5, <2>0, <2>3 DEF SeenOf
    <2>. QED BY <2>1, <2>2, <1>6, <1>7
  <1>4. CASE ~ \E n \in t.new : n.id = r
    <2>0. PICK v \in BOOLEAN, o \in BOOLEAN : v = (b /\ c) /\ o = (b /\ d)
      OBVIOUS
    <2>1. SeenOf(T, u)[r] = [w EXCEPT !.is_head = @ /\ d]
      BY <1>1, <1>4, <1>5 DEF SeenOf
    <2>2. SeenOf(T, t)[r] = [w EXCEPT !.is_head = @ /\ c]
      BY <1>1, <1>4, <1>5 DEF SeenOf
    <2>3. SeenOf(T, u)[r] = [stored |-> a, supersedes |-> y, is_head |-> o]
      BY <1>2, <2>0, <2>1
    <2>4. SeenOf(T, t)[r] = [stored |-> a, supersedes |-> y, is_head |-> v]
      BY <1>2, <2>0, <2>2
    <2>5. (o <=> v /\ r \notin D) /\ (r \notin D => o = v)
      BY <1>6, <1>7, <2>0
    <2>. QED BY <2>3, <2>4, <2>5
  <1>. QED BY <1>3, <1>4

(* ... and put in one row more.                                             *)
LEMMA SeenInserted ==
    ASSUME NEW T \in [Rec -> Row], NEW t, NEW u, NEW x \in Rec, NEW h,
           u.new = t.new \cup {[id |-> x, supersedes |-> h]}, u.demoted = t.demoted,
           \A m, n \in t.new : m.id = n.id => m = n,
           \A n \in t.new : n.id # x, x \notin t.demoted
    PROVE  Extends(SeenOf(T, t), SeenOf(T, u), x, h)
  <1>. DEFINE e == [id |-> x, supersedes |-> h]
  <1>1. (CHOOSE n \in u.new : n.id = x) = e
    OBVIOUS
  <1>2. SeenOf(T, u)[x] = [stored |-> TRUE, is_head |-> x \notin u.demoted,
                           supersedes |-> (CHOOSE n \in u.new : n.id = x).supersedes]
    BY DEF SeenOf
  <1>3. SeenOf(T, u)[x].stored /\ SeenOf(T, u)[x].is_head /\ SeenOf(T, u)[x].supersedes = h
    <2>1. PICK b \in BOOLEAN : b = (x \notin u.demoted)
      OBVIOUS
    <2>2. b
      BY <2>1
    <2>4. PICK o \in BOOLEAN : o = TRUE
      OBVIOUS
    <2>5. PICK z : z = (CHOOSE n \in u.new : n.id = x)
      OBVIOUS
    <2>6. z.supersedes = h
      BY <1>1, <2>5
    <2>7. SeenOf(T, u)[x] = [stored |-> TRUE, is_head |-> x \notin u.demoted,
                             supersedes |-> z.supersedes]
      BY <1>2, <2>5, Zenon
    <2>3. SeenOf(T, u)[x] = [stored |-> o, is_head |-> b, supersedes |-> h]
      BY <2>1, <2>4, <2>6, <2>7
    <2>. QED BY <2>2, <2>3, <2>4
  <1>4. ASSUME NEW r \in Rec, r # x
        PROVE  SeenOf(T, u)[r] = SeenOf(T, t)[r]
    <2>1. (\E n \in u.new : n.id = r) <=> (\E n \in t.new : n.id = r)
      BY <1>4
    <2>2. CASE \E n \in t.new : n.id = r
      <3>1. PICK n \in t.new : n.id = r
        BY <2>2
      <3>2. (CHOOSE m \in u.new : m.id = r) = n
        BY <3>1, <1>4
      <3>3. (CHOOSE m \in t.new : m.id = r) = n
        BY <3>1
      <3>4. SeenOf(T, u)[r] = [stored |-> TRUE, is_head |-> r \notin u.demoted,
                           supersedes |-> (CHOOSE m \in u.new : m.id = r).supersedes]
        BY <2>1, <2>2 DEF SeenOf
      <3>5. SeenOf(T, t)[r] = [stored |-> TRUE, is_head |-> r \notin t.demoted,
                           supersedes |-> (CHOOSE m \in t.new : m.id = r).supersedes]
        BY <2>2 DEF SeenOf
      <3>. QED BY <3>2, <3>3, <3>4, <3>5
    <2>3. CASE ~ \E n \in t.new : n.id = r
      BY <2>1, <2>3 DEF SeenOf
    <2>. QED BY <2>2, <2>3
  <1>. QED BY <1>3, <1>4 DEF Extends

(* DemoteEntityHead finds the head that was read, and nothing else.         *)
LEMMA DemoteStep ==
    ASSUME BatchAssumption, LedgerInv, NEW p \in Procs, Demote(p)
    PROVE  LedgerInv'
  <1>r. PICK r : r = Current(p)
    OBVIOUS
  <1>e. PICK e : e = r.entity
    OBVIOUS
  <1>h. PICK h : h = txn[p].head
    OBVIOUS
  <1>1. TxnInv(p) /\ TxnType(p) /\ Progress(p) /\ LocksOf(p) /\ SeenInv(p) /\ SettledInv(p)
        /\ record_ledger \in [Rec -> Row]
    BY DEF LedgerInv, TxnInv, LedgerType
  <1>2. /\ txn[p].at = "demote"
        /\ Ran(p, [txn[p] EXCEPT !.at = "insert", !.demoted = @ \cup HeadsSeen(p, e)])
    BY <1>r, <1>e DEF Demote
  <1>3. r \in Rec /\ e \in Entities /\ txn[p].i \in 1..Len(txn[p].recs) /\ OfBatch(p, r)
    BY <1>1, <1>2, <1>r, <1>e, CurrentIs
  <1>4. PICK t : t = [txn[p] EXCEPT !.at = "insert", !.demoted = @ \cup HeadsSeen(p, e)]
    OBVIOUS
  <1>5. /\ t.at = "insert" /\ t.head = h /\ t.recs = txn[p].recs /\ t.i = txn[p].i
        /\ t.keys = txn[p].keys /\ t.new = txn[p].new
        /\ t.demoted = txn[p].demoted \cup HeadsSeen(p, e)
        /\ t.mask = txn[p].mask
        /\ t = [at |-> t.at, recs |-> t.recs, i |-> t.i, keys |-> t.keys, head |-> t.head,
                new |-> t.new, demoted |-> t.demoted, mask |-> t.mask]
    BY <1>1, <1>4, <1>h DEF TxnType
  <1>6. Ran(p, t) /\ txn'[p] = t /\ record_ledger' = record_ledger
    BY <1>2, <1>4, RanIs
  <1>7. LocksOf(p)'
    BY <1>2, <1>5, <1>6, LocksGoOn
  <1>8. h \in Rec /\ h.entity = e /\ Marked(Seen(p), e, h) /\ NotOlder(r, h)
    BY <1>1, <1>2, <1>r, <1>e, <1>h DEF TxnInv, HeadRead
  <1>9. HeadsSeen(p, e) = {h}
    <2>1. HeadsSeen(p, e) = {x \in Rec : x.entity = e /\ Seen(p)[x].is_head}
      BY <1>1, SeenIs
    <2>. QED BY <2>1, <1>8 DEF Marked
  <1>10. TxnType(p)'
    BY <1>1, <1>5, <1>6, <1>8, <1>9 DEF TxnType, At
  <1>. DEFINE T == Seen(p)
              U == Seen(p)'
  <1>11. \A x \in Rec :
            /\ U[x].stored = T[x].stored /\ U[x].supersedes = T[x].supersedes
            /\ U[x].is_head <=> T[x].is_head /\ x # h
            /\ x # h => U[x] = T[x]
    <2>1. t.demoted = txn[p].demoted \cup {h}
      BY <1>5, <1>9
    <2>2. PICK s : s = txn[p]
      OBVIOUS
    <2>3. T = SeenOf(record_ledger, s) /\ U = SeenOf(record_ledger, t)
      BY <2>2, <1>6 DEF Seen
    <2>4. PICK D : D = {h}
      OBVIOUS
    <2>5. PICK B \in [Rec -> Row] : B = record_ledger
      BY <1>1
    <2>6. t.new = s.new /\ t.demoted = s.demoted \cup D
      BY <2>1, <2>2, <2>4, <1>5
    <2>7. TakesMarker(SeenOf(B, s), SeenOf(B, t), D)
      BY <2>5, <2>6, SeenDemoted
    <2>. HIDE DEF T, U
    <2>. QED BY <2>3, <2>4, <2>5, <2>7 DEF TakesMarker
  <1>12. Grounded(T) /\ Whole(T, e)
    BY <1>1, <1>2, <1>3 DEF SeenInv
  <1>. HIDE DEF T, U
  <1>13. Grounded(U)
    BY <1>11, <1>12 DEF Grounded
  <1>14. Unmarked(U, e)
    BY <1>8, <1>11 DEF Unmarked, Marked, T
  <1>15. Headless(U, e, h)
    BY <1>8, <1>11, <1>12, <1>14, Demoted DEF T
  <1>16. \A x : x # e => AgreeOn(T, U, x)
    BY <1>8, <1>11 DEF AgreeOn
  <1>17. Current(p)' = r
    BY <1>5, <1>6, <1>r DEF Current
  <1>18. SeenInv(p)'
    <2>1. ASSUME NEW x \in Entities, x # e PROVE Whole(U, x)
      <3>1. Whole(T, x)
        BY <1>1, <1>2 DEF SeenInv, T
      <3>2. AgreeOn(T, U, x) /\ None \notin Rec
        BY <2>1, <1>16 DEF BatchAssumption
      <3>. QED BY <3>1, <3>2, <1>12, <1>13, SameWhole
    <2>. QED BY <2>1, <1>5, <1>6, <1>13, <1>17, <1>e DEF SeenInv, U
  <1>19. HeadRead(p)'
    BY <1>5, <1>6, <1>8, <1>15, <1>17, <1>e DEF HeadRead, U
  <1>20. Progress(p)'
    <2>1. \A x : OfBatch(p, x)' <=> OfBatch(p, x)
      BY <1>5, <1>6 DEF OfBatch
    <2>2. \A x : Known(p, x)' <=> Known(p, x)
      BY <1>5, <1>6 DEF Known, NewIds
    <2>3. txn[p].recs \in Batches /\ txn[p].keys = {} /\ txn[p].keys \subseteq LockKeys(txn[p].recs)
      BY <1>1, <1>2 DEF Progress
    <2>4. Known(p, h)
      <3>1. ChainTo(T, e, h)
        BY <1>8, <1>12, MarkedIsEnd DEF T
      <3>2. T[h].stored
        BY <3>1 DEF ChainTo, Rows
      <3>. QED BY <3>2, <1>1, <1>8, SeenIs DEF T
    <2>5. OfBatch(p, h)
      BY <1>3, <1>8, <1>e DEF OfBatch
    <2>. QED BY <1>1, <1>3, <1>5, <1>6, <1>9, <2>1, <2>2, <2>3, <2>4, <2>5 DEF Progress
  <1>21. SettledInv(p)'
    <2>1. \A j : Done(p, j)' => Done(p, j)
      BY <1>2, <1>5, <1>6 DEF Done
    <2>2. \A j \in 1..Len(txn[p].recs) : Done(p, j)' => txn[p].recs[j].entity # e
      <3>. TAKE j \in 1..Len(txn[p].recs)
      <3>. HAVE Done(p, j)'
      <3>1. j < txn[p].i
        BY <1>5, <1>6 DEF Done
      <3>2. txn[p].i \in (j + 1)..txn[p].i
        BY <3>1, <1>3
      <3>. QED BY <3>2, <1>5, <1>6, <1>r, <1>e DEF Done, Current
    <2>3. ASSUME NEW j \in 1..Len(txn[p].recs), Settled(p, j), txn[p].recs[j].entity # e
          PROVE  Settled(p, j)'
      <3>1. AgreeOn(T, U, txn[p].recs[j].entity)
        BY <2>3, <1>16
      <3>. QED BY <3>1, <2>3, <1>5, <1>6 DEF Settled, AgreeOn, T, U
    <2>. QED BY <1>1, <1>2, <1>5, <1>6, <2>1, <2>2, <2>3 DEF SettledInv
  <1>22. TxnInv(p)'
    BY <1>7, <1>10, <1>18, <1>19, <1>20, <1>21 DEF TxnInv
  <1>. QED BY <1>6, <1>22, RanKeeps

(* InsertLedgerEntry extends the chain from the head that was read.         *)
LEMMA InsertStep ==
    ASSUME BatchAssumption, LedgerInv, NEW p \in Procs, Insert(p)
    PROVE  LedgerInv'
  <1>r. PICK r : r = Current(p)
    OBVIOUS
  <1>e. PICK e : e = r.entity
    OBVIOUS
  <1>h. PICK h : h = txn[p].head
    OBVIOUS
  <1>s. PICK s : s = txn[p]
    OBVIOUS
  <1>1. TxnInv(p) /\ TxnType(p) /\ Progress(p) /\ LocksOf(p) /\ SeenInv(p) /\ SettledInv(p)
        /\ record_ledger \in [Rec -> Row]
    BY DEF LedgerInv, TxnInv, LedgerType
  <1>n. PICK n : n = [id |-> r, supersedes |-> h]
    OBVIOUS
  <1>2. /\ s.at = "insert" /\ IndexAllows(p, r)
        /\ Ran(p, NextRecord([s EXCEPT !.new = @ \cup {n}]))
    BY <1>r, <1>h, <1>s, <1>n DEF Insert
  <1>3. /\ r \in Rec /\ e \in Entities /\ s.recs \in Seq(Rec) /\ s.i \in 1..Len(s.recs)
        /\ OfBatch(p, r)
    BY <1>1, <1>2, <1>r, <1>e, <1>s, CurrentIs
  <1>4. s = [at |-> s.at, recs |-> s.recs, i |-> s.i, keys |-> s.keys, head |-> s.head,
             new |-> s.new, demoted |-> s.demoted, mask |-> s.mask]
    BY <1>1, <1>s DEF TxnType
  <1>5. PICK t : t = [s EXCEPT !.new = @ \cup {n}]
    OBVIOUS
  <1>6. /\ t.at = s.at /\ t.recs = s.recs /\ t.i = s.i /\ t.keys = s.keys /\ t.head = s.head
        /\ t.new = s.new \cup {n} /\ t.demoted = s.demoted /\ t.mask = s.mask
        /\ t = [at |-> t.at, recs |-> t.recs, i |-> t.i, keys |-> t.keys, head |-> t.head,
                new |-> t.new, demoted |-> t.demoted, mask |-> t.mask]
    BY <1>4, <1>5
  <1>7. PICK u : u = NextRecord(t)
    OBVIOUS
  <1>8. /\ u.recs = s.recs /\ u.keys = s.keys /\ u.new = s.new \cup {n} /\ u.demoted = s.demoted
        /\ \/ /\ u.at = "head" /\ u.i = s.i + 1 /\ s.i < Len(s.recs)
              /\ u.head = None /\ u.mask = s.mask
           \/ /\ u.at = "mask" /\ u.i = s.i /\ s.i = Len(s.recs)
              /\ u.mask \in Seq(Secrets) /\ u.head = s.head
        /\ u = [at |-> u.at, recs |-> u.recs, i |-> u.i, keys |-> u.keys, head |-> u.head,
                new |-> u.new, demoted |-> u.demoted, mask |-> u.mask]
    <2>1. t.recs \in Seq(Rec) /\ t.i \in 1..Len(t.recs)
      BY <1>3, <1>6
    <2>3. t = [at |-> t.at, recs |-> t.recs, i |-> t.i, keys |-> t.keys, head |-> t.head,
               new |-> t.new, demoted |-> t.demoted, mask |-> t.mask]
      BY <1>6
    <2>2. /\ u.recs = t.recs /\ u.keys = t.keys /\ u.new = t.new /\ u.demoted = t.demoted
          /\ \/ /\ u.at = "head" /\ u.i = t.i + 1 /\ t.i < Len(t.recs)
                /\ u.head = None /\ u.mask = t.mask
             \/ /\ u.at = "mask" /\ u.i = t.i /\ t.i = Len(t.recs) /\ u.mask \in Seq(Secrets)
                /\ u.head = t.head
          /\ u = [at |-> u.at, recs |-> u.recs, i |-> u.i, keys |-> u.keys, head |-> u.head,
                  new |-> u.new, demoted |-> u.demoted, mask |-> u.mask]
      BY <2>1, <2>3, <1>7, NextRecordIs, ZenonT(60)
    <2>. QED BY <2>2, <1>6
  <1>9. Ran(p, u) /\ txn'[p] = u /\ record_ledger' = record_ledger
    BY <1>2, <1>5, <1>7, RanIs
  <1>10. LocksOf(p)'
    BY <1>2, <1>8, <1>9, <1>s, LocksGoOn
  <1>11. Headless(Seen(p), e, h) /\ (h # None => NotOlder(r, h)) /\ h \in Rec \cup {None}
    BY <1>1, <1>2, <1>r, <1>e, <1>h, <1>s DEF TxnInv, HeadRead, TxnType
  <1>12. ~Known(p, r)
    BY <1>2 DEF IndexAllows
  <1>13. /\ r \notin s.demoted /\ \A m \in s.new : m.id # r
         /\ \A m, o \in s.new : m.id = o.id => m = o
         /\ ~Seen(p)[r].stored
    <2>1. \A m \in s.new : m.id # r
      BY <1>12, <1>s DEF Known, NewIds
    <2>2. ~Seen(p)[r].stored
      BY <1>1, <1>3, <1>12, SeenIs
    <2>. QED BY <1>1, <1>12, <1>s, <2>1, <2>2 DEF Progress
  <1>14. Extends(Seen(p), Seen(p)', r, h)
    <2>1. PICK B \in [Rec -> Row] : B = record_ledger
      BY <1>1
    <2>2. Seen(p) = SeenOf(B, s) /\ Seen(p)' = SeenOf(B, u)
      BY <2>1, <1>s, <1>9 DEF Seen
    <2>3. u.new = s.new \cup {[id |-> r, supersedes |-> h]} /\ u.demoted = s.demoted
      BY <1>8, <1>n
    <2>4. Extends(SeenOf(B, s), SeenOf(B, u), r, h)
      BY <1>3, <1>13, <2>1, <2>3, SeenInserted
    <2>. QED BY <2>2, <2>4
  <1>15. PICK T, U : T = Seen(p) /\ U = Seen(p)'
    OBVIOUS
  <1>16. Grounded(T) /\ \A x \in Entities : x # e => Whole(T, x)
    BY <1>1, <1>r, <1>e, <1>15 DEF SeenInv
  <1>17. Grounded(U) /\ ChainTo(U, e, r) /\ Marked(U, e, r)
    <2>1. ~T[r].stored /\ Extends(T, U, r, h) /\ Headless(T, r.entity, h) /\ None \notin Rec
      BY <1>11, <1>13, <1>14, <1>15, <1>e DEF BatchAssumption
    <2>. QED BY <2>1, <1>3, <1>11, <1>16, <1>e, Extended
  <1>18. \A x : x # e => AgreeOn(T, U, x)
    BY <1>14, <1>15, <1>e DEF AgreeOn, Extends
  <1>19. SeenInv(p)'
    <2>1. ASSUME NEW x \in Entities, x # e PROVE Whole(U, x)
      <3>1. AgreeOn(T, U, x) /\ Whole(T, x) /\ None \notin Rec
        BY <2>1, <1>16, <1>18 DEF BatchAssumption
      <3>. QED BY <3>1, <1>16, <1>17, SameWhole
    <2>2. Whole(U, e)
      BY <1>3, <1>17 DEF Whole
    <2>. QED BY <2>1, <2>2, <1>15, <1>17 DEF SeenInv
  <1>20. HeadRead(p)'
    BY <1>8, <1>9 DEF HeadRead
  <1>21. TxnType(p)'
    <2>1. n \in [id : Rec, supersedes : Rec \cup {None}]
      BY <1>3, <1>11, <1>n
    <2>. QED BY <1>1, <1>8, <1>9, <1>s, <2>1 DEF TxnType, At
  <1>22. Progress(p)'
    <2>1. \A x : OfBatch(p, x)' <=> OfBatch(p, x)
      BY <1>8, <1>9, <1>s DEF OfBatch
    <2>2. \A x : Known(p, x) => Known(p, x)'
      BY <1>8, <1>9, <1>s DEF Known, NewIds
    <2>3. s.recs \in Batches /\ s.keys = {} /\ s.keys \subseteq LockKeys(s.recs)
      BY <1>1, <1>2, <1>s DEF Progress
    <2>4. \A m, o \in u.new : m.id = o.id => m = o
      BY <1>8, <1>13, <1>n
    <2>5. \A m \in u.new : OfBatch(p, m.id)
      BY <1>1, <1>3, <1>8, <1>n, <1>s DEF Progress
    <2>6. \A x \in u.demoted : OfBatch(p, x) /\ Known(p, x)
      BY <1>1, <1>8, <1>s DEF Progress
    <2>7. u.i \in 1..Len(u.recs)
      <3>1. Len(s.recs) \in Nat
        BY <1>3
      <3>. QED BY <3>1, <1>3, <1>8
    <2>8. u.at \in {"head", "mask"} /\ (u.at = "mask" => u.i = Len(u.recs))
      BY <1>8
    <2>. QED BY <1>8, <1>9, <2>1, <2>2, <2>3, <2>4, <2>5, <2>6, <2>7, <2>8 DEF Progress
  <1>23. SettledInv(p)'
    <2>1. PICK i : i = txn[p].i
      OBVIOUS
    <2>2. txn[p].recs[i] = r
      BY <1>r, <2>1 DEF Current
    <2>3. U[r].is_head
      BY <1>3, <1>17, <1>e DEF Marked
    <2>4. Settled(p, i)'
      BY <1>3, <1>8, <1>9, <1>15, <1>e, <1>s, <2>2, <2>3 DEF Settled
    <2>5. \A x \in Entities : x # Current(p).entity => AgreeOn(Seen(p), Seen(p)', x)
      BY <1>15, <1>18, <1>r, <1>e
    <2>. QED BY <1>1, <1>2, <1>8, <1>9, <1>s, <2>1, <2>4, <2>5, SettledGoesOn
  <1>24. TxnInv(p)'
    BY <1>10, <1>19, <1>20, <1>21, <1>22, <1>23 DEF TxnInv
  <1>. QED BY <1>9, <1>24, RanKeeps

-----------------------------------------------------------------------------
(* The first statements and the last *)

(* A transaction begins with locks to take, and sees the table.             *)
LEMMA BeginStep ==
    ASSUME BatchAssumption, LedgerInv, NEW p \in Procs, NEW b \in Batches, Begin(p, b)
    PROVE  LedgerInv'
  <1>1. TxnInv(p) /\ Progress(p) /\ LedgerType /\ WholeTable(record_ledger)
    BY DEF LedgerInv, TxnInv
  <1>2. txn[p].at = "idle" /\ locks[p] = {}
    BY <1>1 DEF Begin, Progress
  <1>3. b \in Seq(Rec) /\ b # <<>>
    BY DEF BatchAssumption
  <1>4. LockKeys(b) # {}
    <2>1. 1 \in DOMAIN b
      BY <1>3
    <2>2. LockKeyOf[b[1].entity] \in LockKeys(b)
      BY <2>1 DEF LockKeys
    <2>. QED BY <2>2
  <1>5. PICK t : t = [Idle EXCEPT !.recs = b, !.keys = LockKeys(b),
                 !.at = IF LockKeys(b) = {} THEN "head" ELSE "lock"]
    OBVIOUS
  <1>6. t = [at |-> "lock", recs |-> b, i |-> 1, keys |-> LockKeys(b), head |-> None,
             new |-> {}, demoted |-> {}, mask |-> <<>>]
    BY <1>4, <1>5 DEF Idle
  <1>7. Ran(p, t)
    <2>1. Wants(p) = {}
      BY <1>2 DEF Wants
    <2>2. locks = [locks EXCEPT ![p] = @ \cup {}]
      BY <1>1 DEF LedgerType
    <2>. QED BY <2>1, <2>2, <1>5 DEF Begin, Ran, CanLock
  <1>8. txn'[p] = t /\ locks'[p] = {} /\ record_ledger' = record_ledger
    BY <1>2, <1>7, RanIs DEF Begin
  <1>9. TxnType(p)'
    BY <1>6, <1>8 DEF TxnType, At
  <1>10. Progress(p)'
    <2>1. 1 \in 1..Len(b)
      BY <1>3
    <2>. QED BY <2>1, <1>4, <1>6, <1>8 DEF Progress
  <1>11. SeenInv(p)'
    <2>1. PICK B \in [Rec -> Row] : B = record_ledger
      BY <1>1 DEF LedgerType
    <2>2. SeenOf(B, t) = B
      BY <1>6, <2>1, SeenTable
    <2>3. Seen(p)' = record_ledger
      BY <1>8, <2>1, <2>2 DEF Seen
    <2>. QED BY <1>1, <2>3 DEF SeenInv, WholeTable
  <1>12. SettledInv(p)' /\ HeadRead(p)'
    BY <1>6, <1>8 DEF SettledInv, HeadRead
  <1>13. LocksOf(p)'
    <2>1. Held(p)' = {}
      BY <1>6, <1>8 DEF Held
    <2>. QED BY <2>1, <1>8 DEF LocksOf
  <1>14. TxnInv(p)'
    BY <1>9, <1>10, <1>11, <1>12, <1>13 DEF TxnInv
  <1>. QED BY <1>7, <1>14, RanKeeps

(* The keys of a batch are numbers, so one of them is the least.            *)
LEMMA KeysAreNumbers ==
    ASSUME BatchAssumption, NEW b \in Batches
    PROVE  LockKeys(b) \subseteq Nat
  <1>1. \A j \in DOMAIN b : b[j] \in Rec
    BY DEF Rec
  <1>2. \A r \in Rec : LockKeyOf[r.entity] \in Nat
    BY DEF BatchAssumption
  <1>. QED BY <1>1, <1>2 DEF LockKeys

(* The next lock is the least of those p still has to take.                 *)
LEMMA NextKeyIs ==
    ASSUME BatchAssumption, NEW p \in Procs, Progress(p), txn[p].at = "lock"
    PROVE  NextKey(p) \in txn[p].keys /\ \A l \in txn[p].keys : NextKey(p) <= l
  <1>1. PICK keys : keys = txn[p].keys
    OBVIOUS
  <1>2. keys # {} /\ keys \subseteq LockKeys(txn[p].recs) /\ txn[p].recs \in Batches
    BY <1>1 DEF Progress
  <1>3. LockKeys(txn[p].recs) \subseteq Nat
    BY <1>2, KeysAreNumbers
  <1>4. \E k \in keys : \A l \in keys : k <= l
    BY <1>2, <1>3, LeastNat
  <1>5. NextKey(p) = CHOOSE k \in keys : \A l \in keys : k <= l
    BY <1>1 DEF NextKey
  <1>. QED BY <1>1, <1>4, <1>5

(* LockEntityKey takes the least key left, so those it holds are less.      *)
LEMMA LockEntityStep ==
    ASSUME BatchAssumption, LedgerInv, NEW p \in Procs, LockEntity(p)
    PROVE  LedgerInv'
  <1>k. PICK k : k = NextKey(p)
    OBVIOUS
  <1>s. PICK s : s = txn[p]
    OBVIOUS
  <1>left. PICK left : left = s.keys \ {k}
    OBVIOUS
  <1>1. TxnInv(p) /\ TxnType(p) /\ Progress(p) /\ LocksOf(p) /\ LedgerType /\ WholeTable(record_ledger)
    BY DEF LedgerInv, TxnInv
  <1>2. /\ s.at = "lock"
        /\ Ran(p, [s EXCEPT !.keys = left, !.at = IF left = {} THEN "head" ELSE "lock"])
    BY <1>k, <1>s, <1>left DEF LockEntity
  <1>3. k \in s.keys /\ \A l \in s.keys : k <= l
    BY <1>1, <1>2, <1>k, <1>s, NextKeyIs
  <1>4. /\ s.recs \in Batches /\ s.i = 1 /\ 1 \in 1..Len(s.recs) /\ s.new = {} /\ s.demoted = {}
        /\ s.keys \subseteq LockKeys(s.recs)
    BY <1>1, <1>2, <1>s DEF Progress
  <1>5. PICK t : t = [s EXCEPT !.keys = left, !.at = IF left = {} THEN "head" ELSE "lock"]
    OBVIOUS
  <1>6. /\ t.at \in {"head", "lock"} /\ (t.at = "head" <=> left = {})
        /\ t.keys = left /\ t.recs = s.recs /\ t.i = 1 /\ t.head = s.head
        /\ t.new = {} /\ t.demoted = {} /\ t.mask = s.mask
        /\ t = [at |-> t.at, recs |-> t.recs, i |-> t.i, keys |-> t.keys, head |-> t.head,
                new |-> t.new, demoted |-> t.demoted, mask |-> t.mask]
    BY <1>1, <1>4, <1>5, <1>s DEF TxnType
  <1>7. Wants(p) = {EntityLock(k)}
    BY <1>2, <1>k, <1>s DEF Wants
  <1>8. Ran(p, t) /\ txn'[p] = t /\ locks'[p] = locks[p] \cup {EntityLock(k)}
        /\ record_ledger' = record_ledger
    BY <1>2, <1>5, <1>7, RanIs
  <1>9. TxnType(p)'
    BY <1>1, <1>6, <1>8, <1>s DEF TxnType, At
  <1>10. Progress(p)'
    BY <1>4, <1>6, <1>8, <1>left DEF Progress
  <1>11. SeenInv(p)'
    <2>1. PICK B \in [Rec -> Row] : B = record_ledger
      BY <1>1 DEF LedgerType
    <2>2. SeenOf(B, t) = B
      BY <1>6, <2>1, SeenTable
    <2>3. Seen(p)' = record_ledger
      BY <1>8, <2>1, <2>2 DEF Seen
    <2>. QED BY <1>1, <2>3 DEF SeenInv, WholeTable
  <1>12. SettledInv(p)' /\ HeadRead(p)'
    <2>1. \A j \in 1..Len(t.recs) : ~Done(p, j)'
      BY <1>6, <1>8 DEF Done
    <2>. QED BY <2>1, <1>6, <1>8 DEF SettledInv, HeadRead
  <1>13. LocksOf(p)'
    <2>1. Held(p)' = Held(p) \cup {k}
      BY <1>3, <1>4, <1>6, <1>8, <1>left, <1>s DEF Held
    <2>2. /\ locks[p] = {EntityLock(x) : x \in Held(p)}
          /\ \A x \in Held(p), l \in s.keys : x < l
      BY <1>1, <1>2, <1>s DEF LocksOf
    <2>3. locks'[p] = {EntityLock(x) : x \in Held(p) \cup {k}}
      BY <2>2, <1>8
    <2>4. \A x \in Held(p) \cup {k}, l \in left : x < l
      <3>1. s.keys \subseteq Nat
        BY <1>4, KeysAreNumbers
      <3>2. \A l \in left : l \in s.keys /\ k < l
        BY <3>1, <1>3, <1>left
      <3>. QED BY <3>2, <2>2
    <2>5. \A x : EntityLock(x) \in locks'[p] => x \in Held(p) \cup {k}
      BY <2>3 DEF EntityLock
    <2>6. \A r : RowLock(r) \notin locks'[p]
      BY <2>3 DEF EntityLock, RowLock
    <2>. QED BY <2>1, <2>3, <2>4, <2>5, <2>6, <1>6, <1>8 DEF LocksOf
  <1>14. TxnInv(p)'
    BY <1>9, <1>10, <1>11, <1>12, <1>13 DEF TxnInv
  <1>. QED BY <1>8, <1>14, RanKeeps

(* A transaction that ends leaves the others as they were.                  *)
LEMMA EndKeeps ==
    ASSUME LedgerInv, NEW p \in Procs, End(p),
           record_ledger' \in [Rec -> Row], WholeTable(record_ledger'),
           \A q \in Procs \ {p} : TxnInv(q)'
    PROVE  LedgerInv'
  <1>1. /\ TxnInv(p)'
        /\ txn' = [q \in Procs |-> txn'[q]] /\ locks' = [q \in Procs |-> locks'[q]]
        /\ \A q \in Procs \ {p} : txn'[q] = txn[q] /\ locks'[q] = locks[q]
        /\ locks'[p] = {}
    BY EndIs
  <1>2. LedgerType'
    BY <1>1 DEF LedgerType, Row
  <1>3. \A q \in Procs : TxnInv(q)'
    BY <1>1
  <1>4. \A q, r \in Procs : q # r => locks[q] \cap locks[r] = {}
    BY DEF LedgerInv
  <1>5. \A q, r \in Procs : q # r => locks'[q] \cap locks'[r] = {}
    <2>. TAKE q, r \in Procs
    <2>. HAVE q # r
    <2>1. CASE q = p \/ r = p
      BY <1>1, <2>1
    <2>2. CASE q # p /\ r # p
      <3>1. locks'[q] = locks[q] /\ locks'[r] = locks[r]
        BY <1>1, <2>2
      <3>. QED BY <1>4, <3>1
    <2>. QED BY <2>1, <2>2
  <1>. QED BY <1>2, <1>3, <1>5 DEF LedgerInv

(* Refuse and Rollback leave the table as it was.                           *)
LEMMA UndoneStep ==
    ASSUME LedgerInv, NEW p \in Procs, End(p), UNCHANGED record_ledger
    PROVE  LedgerInv'
  <1>1. record_ledger \in [Rec -> Row] /\ WholeTable(record_ledger)
        /\ txn = [q \in Procs |-> txn[q]] /\ locks = [q \in Procs |-> locks[q]]
    BY DEF LedgerInv, LedgerType
  <1>2. record_ledger' \in [Rec -> Row] /\ WholeTable(record_ledger')
    BY <1>1
  <1>3. \A q \in Procs \ {p} : txn'[q] = txn[q] /\ locks'[q] = locks[q]
    BY <1>1 DEF End
  <1>4. \A q \in Procs \ {p} : TxnInv(q)'
    <2>. TAKE q \in Procs \ {p}
    <2>1. TxnInv(q) /\ txn'[q] = txn[q] /\ locks'[q] = locks[q]
      BY <1>3 DEF LedgerInv
    <2>. QED BY <2>1, OthersSame
  <1>. QED BY <1>2, <1>4, EndKeeps

(* t wrote nothing to r.                                                    *)
Untouched(t, r) == (\A n \in t.new : n.id # r) /\ r \notin t.demoted

(* A row t wrote nothing to is the table's.                                 *)
LEMMA SeenElsewhere ==
    ASSUME NEW T \in [Rec -> Row], NEW t, NEW r \in Rec, Untouched(t, r)
    PROVE  SeenOf(T, t)[r] = T[r]
  <1>1. SeenOf(T, t)[r] = [T[r] EXCEPT !.is_head = @ /\ TRUE]
    BY DEF SeenOf, Untouched
  <1>2. PICK w \in Row : w = T[r]
    OBVIOUS
  <1>3. [w EXCEPT !.is_head = @ /\ TRUE] = w
    BY DEF Row
  <1>. QED BY <1>1, <1>2, <1>3

(* A row that did not change looks the same to t.                           *)
LEMMA SeenAgrees ==
    ASSUME NEW T, NEW B, NEW t, NEW r \in Rec, T[r] = B[r]
    PROVE  SeenOf(T, t)[r] = SeenOf(B, t)[r]
  BY DEF SeenOf

(* Another transaction commits: q sees its own entities as before.          *)
LEMMA CommitOthers ==
    ASSUME BatchAssumption, LedgerInv, NEW p \in Procs, NEW q \in Procs, p # q,
           txn[p].at = "mask", record_ledger' = Seen(p), WholeTable(record_ledger'),
           record_ledger' \in [Rec -> Row], txn'[q] = txn[q], locks'[q] = locks[q]
    PROVE  TxnInv(q)'
  <1>s. PICK s : s = txn[q]
    OBVIOUS
  <1>1. /\ TxnInv(q) /\ TxnType(q) /\ Progress(q) /\ LocksOf(q) /\ SeenInv(q) /\ SettledInv(q)
        /\ s.at # "idle" => HeadRead(q)
        /\ record_ledger \in [Rec -> Row]
    BY <1>s DEF LedgerInv, TxnInv, LedgerType
  <1>2. PICK B \in [Rec -> Row] : B = record_ledger
    BY <1>1
  <1>3. PICK C \in [Rec -> Row] : C = record_ledger'
    OBVIOUS
  <1>4. PICK T, U : T = SeenOf(B, s) /\ U = SeenOf(C, s)
    OBVIOUS
  <1>5. Seen(q) = T /\ Seen(q)' = U
    BY <1>2, <1>3, <1>4, <1>s DEF Seen
  <1>6. TxnType(q)'
    BY <1>1 DEF TxnType
  <1>7. LocksOf(q)'
    BY <1>1 DEF LocksOf, Held, OfBatch
  <1>8. Grounded(C) /\ \A e \in Entities : Whole(C, e)
    BY <1>3 DEF WholeTable
  <1>9. CASE s.at \in {"idle", "lock"}
    <2>1. s.new = {} /\ s.demoted = {}
      BY <1>1, <1>9, <1>s DEF Progress, Idle
    <2>2. U = C
      BY <1>4, <2>1, SeenTable
    <2>3. SeenInv(q)'
      BY <1>5, <1>8, <2>2 DEF SeenInv
    <2>4. Progress(q)'
      BY <1>1, <1>s, <2>1 DEF Progress, OfBatch
    <2>5. SettledInv(q)' /\ HeadRead(q)'
      BY <1>9, <1>s DEF SettledInv, HeadRead
    <2>. QED BY <1>6, <1>7, <2>3, <2>4, <2>5 DEF TxnInv
  <1>10. CASE s.at \notin {"idle", "lock"}
    <2>. DEFINE Own(e) == \E j \in 1..Len(s.recs) : s.recs[j].entity = e
    <2>1. \A r \in Rec : OfBatch(q, r) <=> Own(r.entity)
      BY <1>s DEF OfBatch
    <2>2. \A e : Own(e) => AgreeOn(B, C, e)
      <3>. SUFFICES ASSUME NEW r \in Rec, OfBatch(q, r) PROVE C[r] = B[r]
        BY <2>1 DEF AgreeOn
      <3>1. ~OfBatch(p, r)
        BY <1>10, <1>s, Apart
      <3>2. TxnType(p) /\ Progress(p)
        BY DEF LedgerInv, TxnInv
      <3>. QED BY <3>1, <3>2, <1>1, <1>2, <1>3, SeenIs
    <2>3. \A e : Own(e) => AgreeOn(T, U, e)
      <3>1. \A r \in Rec : C[r] = B[r] => SeenOf(C, s)[r] = SeenOf(B, s)[r]
        BY SeenAgrees
      <3>. HIDE DEF Own
      <3>. QED BY <3>1, <2>2, <1>4 DEF AgreeOn
    <2>4. \A e : ~Own(e) => AgreeOn(C, U, e)
      <3>. SUFFICES ASSUME NEW r \in Rec, ~OfBatch(q, r) PROVE U[r] = C[r]
        BY <2>1 DEF AgreeOn
      <3>1. Untouched(s, r)
        BY <1>1, <1>s DEF Progress, Untouched
      <3>2. SeenOf(C, s)[r] = C[r]
        BY <1>3, <3>1, SeenElsewhere
      <3>. QED BY <3>2, <1>4
    <2>5. Grounded(T) /\ None \notin Rec
      BY <1>1, <1>5 DEF SeenInv, BatchAssumption
    <2>6. Grounded(U)
      <3>. SUFFICES ASSUME NEW r \in Rec, U[r].stored
                    PROVE  \/ U[r].supersedes = None
                           \/ /\ U[r].supersedes \in Rec /\ U[r].supersedes.entity = r.entity
                              /\ U[U[r].supersedes].stored
        BY DEF Grounded
      <3>1. CASE Own(r.entity)
        <4>1. \A x \in Rec : x.entity = r.entity => U[x] = T[x]
          BY <3>1, <2>3 DEF AgreeOn
        <4>. HIDE DEF Own
        <4>. QED BY <4>1, <2>5 DEF Grounded
      <3>2. CASE ~Own(r.entity)
        <4>1. \A x \in Rec : x.entity = r.entity => U[x] = C[x]
          BY <3>2, <2>4 DEF AgreeOn
        <4>. HIDE DEF Own
        <4>. QED BY <4>1, <1>8 DEF Grounded
      <3>. QED BY <3>1, <3>2
    <2>7. ASSUME NEW e, Own(e)
          PROVE  /\ Whole(T, e) => Whole(U, e)
                 /\ \A h : Headless(T, e, h) => Headless(U, e, h)
                 /\ \A h : Marked(T, e, h) => Marked(U, e, h)
                 /\ Unmarked(T, e) => Unmarked(U, e)
                 /\ Rows(U, e) = Rows(T, e)
      <3>1. AgreeOn(T, U, e)
        BY <2>3, <2>7
      <3>. QED BY <3>1, <2>5, <2>6, SameWhole
    <2>8. Current(q)' = Current(q) /\ Own(Current(q).entity)
      <3>1. OfBatch(q, Current(q)) /\ Current(q) \in Rec
        BY <1>1, <1>10, <1>s, CurrentIs
      <3>. QED BY <2>1, <3>1 DEF Current
    <2>9. SeenInv(q)'
      <3>1. ASSUME NEW e \in Entities, ~Own(e) PROVE Whole(U, e)
        <4>1. AgreeOn(C, U, e) /\ Whole(C, e)
          BY <3>1, <2>4, <1>8
        <4>. QED BY <4>1, <1>8, <2>5, <2>6, SameWhole
      <3>2. ASSUME NEW e \in Entities, Own(e)
            PROVE  Whole(U, e) \/ (s.at = "insert" /\ Current(q).entity = e)
        <4>1. Whole(T, e) \/ (s.at = "insert" /\ Current(q).entity = e)
          BY <1>1, <1>5, <1>s DEF SeenInv
        <4>. QED BY <4>1, <2>7, <3>2
      <3>. HIDE DEF Own
      <3>. QED BY <3>1, <3>2, <2>6, <2>8, <1>5, <1>s DEF SeenInv
    <2>10. HeadRead(q)'
      <3>1. PICK e : e = Current(q).entity
        OBVIOUS
      <3>2. Own(e)
        BY <2>8, <3>1
      <3>. HIDE DEF Own
      <3>3. /\ \A h : Headless(T, e, h) => Headless(U, e, h)
            /\ \A h : Marked(T, e, h) => Marked(U, e, h)
            /\ Unmarked(T, e) => Unmarked(U, e)
            /\ Rows(U, e) = Rows(T, e)
        BY <2>7, <3>2
      <3>4. HeadRead(q)
        BY <1>1, <1>10
      <3>. QED BY <3>1, <3>3, <3>4, <1>5, <2>8 DEF HeadRead
    <2>11. SettledInv(q)'
      <3>. SUFFICES ASSUME NEW j \in 1..Len(s.recs), Done(q, j)'
                    PROVE  Settled(q, j)'
        BY <1>s DEF SettledInv
      <3>1. Done(q, j)
        BY DEF Done
      <3>2. Settled(q, j)
        BY <3>1, <1>1, <1>10, <1>s DEF SettledInv
      <3>3. AgreeOn(T, U, s.recs[j].entity)
        BY <2>3
      <3>. QED BY <3>2, <3>3, <1>5, <1>s DEF Settled, AgreeOn
    <2>12. Progress(q)'
      <3>1. \A r \in Rec : OfBatch(q, r) /\ Known(q, r) => Known(q, r)'
        <4>. TAKE r \in Rec
        <4>. HAVE OfBatch(q, r) /\ Known(q, r)
        <4>1. C[r] = B[r]
          BY <2>1, <2>2 DEF AgreeOn
        <4>. QED BY <4>1, <1>2, <1>3 DEF Known, NewIds
      <3>2. \A r : OfBatch(q, r)' <=> OfBatch(q, r)
        BY DEF OfBatch
      <3>3. txn[q].demoted \subseteq Rec
        BY <1>1 DEF TxnType
      <3>. QED BY <3>1, <3>2, <3>3, <1>1 DEF Progress
    <2>. QED BY <1>6, <1>7, <2>9, <2>10, <2>11, <2>12 DEF TxnInv
  <1>. QED BY <1>9, <1>10

(* A commit: the table p saw is whole, and the others see their own.        *)
LEMMA CommitStep ==
    ASSUME BatchAssumption, LedgerInv, NEW p \in Procs, Commit(p)
    PROVE  LedgerInv'
  <1>1. TxnType(p) /\ Progress(p) /\ SeenInv(p) /\ record_ledger \in [Rec -> Row]
        /\ txn = [q \in Procs |-> txn[q]] /\ locks = [q \in Procs |-> locks[q]]
    BY DEF LedgerInv, TxnInv, LedgerType
  <1>2. txn[p].at = "mask" /\ End(p)
    BY DEF Commit
  <1>3. record_ledger' = Seen(p)
    BY CommitIsSeen
  <1>4. record_ledger' \in [Rec -> Row]
    BY <1>1, <1>3, SeenIs
  <1>5. WholeTable(record_ledger')
    BY <1>1, <1>2, <1>3 DEF SeenInv, WholeTable
  <1>6. \A q \in Procs \ {p} : txn'[q] = txn[q] /\ locks'[q] = locks[q]
    BY <1>1, <1>2 DEF End
  <1>7. \A q \in Procs \ {p} : TxnInv(q)'
    BY <1>2, <1>3, <1>4, <1>5, <1>6, CommitOthers
  <1>. QED BY <1>2, <1>4, <1>5, <1>7, EndKeeps

-----------------------------------------------------------------------------
(* The specification *)

(* The empty table is whole.                                                *)
LEMMA LedgerInitInv ==
    ASSUME BatchAssumption, LedgerInit
    PROVE  LedgerInv
  <1>1. /\ record_ledger = [r \in Rec |-> [stored |-> FALSE, supersedes |-> None, is_head |-> FALSE]]
        /\ txn = [p \in Procs |-> Idle] /\ locks = [p \in Procs |-> {}]
    BY DEF LedgerInit
  <1>2. record_ledger \in [Rec -> Row]
    BY <1>1 DEF Row
  <1>3. LedgerType
    BY <1>1, <1>2 DEF LedgerType
  <1>4. \A r \in Rec : ~record_ledger[r].stored /\ ~record_ledger[r].is_head
    BY <1>1
  <1>5. WholeTable(record_ledger)
    BY <1>4 DEF WholeTable, Grounded, Whole, Rows, Unmarked
  <1>6. ASSUME NEW p \in Procs PROVE TxnInv(p)
    <2>1. txn[p] = Idle /\ locks[p] = {}
      BY <1>1
    <2>2. /\ Idle.at = "idle" /\ Idle.new = {} /\ Idle.demoted = {} /\ Idle.head = None
          /\ Idle.keys = {} /\ Idle.recs = <<>> /\ Idle.mask = <<>>
      BY DEF Idle
    <2>3. Seen(p) = record_ledger
      BY <1>2, <2>1, <2>2, SeenTable DEF Seen
    <2>4. TxnType(p)
      BY <2>1, <2>2 DEF TxnType, Idle, At
    <2>5. Progress(p)
      BY <2>1, <2>2 DEF Progress
    <2>6. SeenInv(p)
      BY <1>5, <2>3 DEF SeenInv, WholeTable
    <2>7. SettledInv(p) /\ LocksOf(p)
      BY <2>1, <2>2 DEF SettledInv, LocksOf
    <2>. QED BY <2>1, <2>2, <2>4, <2>5, <2>6, <2>7 DEF TxnInv
  <1>7. \A p, q \in Procs : locks[p] \cap locks[q] = {}
    BY <1>1
  <1>. QED BY <1>3, <1>5, <1>6, <1>7 DEF LedgerInv

(* A step that changes nothing.                                             *)
LEMMA LedgerIdle ==
    ASSUME LedgerInv, UNCHANGED ledgerVars
    PROVE  LedgerInv'
  <1>1. record_ledger' = record_ledger /\ txn' = txn /\ locks' = locks
    BY DEF ledgerVars
  <1>2. \A p \in Procs : TxnInv(p)'
    <2>. TAKE p \in Procs
    <2>1. TxnInv(p) /\ txn'[p] = txn[p] /\ locks'[p] = locks[p]
      BY <1>1 DEF LedgerInv
    <2>. QED BY <1>1, <2>1, OthersSame
  <1>3. LedgerType' /\ WholeTable(record_ledger')
    BY <1>1 DEF LedgerInv, LedgerType, Row
  <1>. QED BY <1>1, <1>2, <1>3 DEF LedgerInv

(* The inductive invariant: the committed table is whole, so is the table   *)
(* every transaction of Prepare would leave if it committed now, what it    *)
(* read of its entity still holds, and its locks are those of its batch.    *)
THEOREM LedgerInductive == LedgerSpec => []LedgerInv
  <1>1. LedgerInit => LedgerInv
    BY BatchAssumption, LedgerInitInv
  <1>2. LedgerInv /\ [LedgerNext]_ledgerVars => LedgerInv'
    <2>. SUFFICES ASSUME LedgerInv, [LedgerNext]_ledgerVars PROVE LedgerInv'
      OBVIOUS
    <2>1. ASSUME NEW p \in Procs, NEW b \in Batches, Begin(p, b) PROVE LedgerInv'
      BY <2>1, BatchAssumption, BeginStep
    <2>2. ASSUME NEW p \in Procs, LockEntity(p) PROVE LedgerInv'
      BY <2>2, BatchAssumption, LockEntityStep
    <2>3. ASSUME NEW p \in Procs, ReadHead(p) PROVE LedgerInv'
      BY <2>3, BatchAssumption, ReadHeadStep
    <2>4. ASSUME NEW p \in Procs, PassOver(p) PROVE LedgerInv'
      BY <2>4, BatchAssumption, PassOverStep
    <2>5. ASSUME NEW p \in Procs, Admit(p) PROVE LedgerInv'
      BY <2>5, BatchAssumption, AdmitStep
    <2>6. ASSUME NEW p \in Procs, Refuse(p) \/ Rollback(p) PROVE LedgerInv'
      BY <2>6, UndoneStep DEF Refuse, Rollback
    <2>7. ASSUME NEW p \in Procs, Demote(p) PROVE LedgerInv'
      BY <2>7, BatchAssumption, DemoteStep
    <2>8. ASSUME NEW p \in Procs, Insert(p) PROVE LedgerInv'
      BY <2>8, BatchAssumption, InsertStep
    <2>9. ASSUME NEW p \in Procs, Mask(p) PROVE LedgerInv'
      BY <2>9, BatchAssumption, MaskStep
    <2>10. ASSUME NEW p \in Procs, Commit(p) PROVE LedgerInv'
      BY <2>10, BatchAssumption, CommitStep
    <2>11. CASE UNCHANGED ledgerVars
      BY <2>11, LedgerIdle
    <2>. QED
      BY <2>1, <2>2, <2>3, <2>4, <2>5, <2>6, <2>7, <2>8, <2>9, <2>10, <2>11 DEF LedgerNext
  <1>. QED BY <1>1, <1>2, PTL DEF LedgerSpec

(* The chain of every entity in record_ledger has one head, no fork, no     *)
(* orphan and no cycle, whatever transactions admit, roll back or commit.   *)
THEOREM ChainsWhole == LedgerSpec => []ChainIsWhole
  <1>1. LedgerInv => ChainIsWhole
    <2>. SUFFICES ASSUME WholeTable(record_ledger), NEW e \in Entities
                  PROVE  /\ ChainOf(e) # {} => \E h \in ChainOf(e) :
                              /\ \A r \in ChainOf(e) : record_ledger[r].is_head <=> r = h
                              /\ SupersededBy(h) = {}
                              /\ \A r \in ChainOf(e) \ {h} :
                                    \E s \in ChainOf(e) : SupersededBy(r) = {s}
                         /\ \A S \in SUBSET ChainOf(e) :
                              S # {} => \E r \in S : record_ledger[r].supersedes \notin S
      BY DEF LedgerInv, ChainIsWhole
    <2>1. ChainOf(e) = Rows(record_ledger, e)
          /\ \A r : SupersededBy(r) = Heirs(record_ledger, r)
      BY DEF ChainOf, Rows, SupersededBy, Heirs
    <2>2. CASE Rows(record_ledger, e) = {}
      BY <2>1, <2>2
    <2>3. CASE Rows(record_ledger, e) # {}
      <3>1. PICK h \in Rec : ChainTo(record_ledger, e, h) /\ Marked(record_ledger, e, h)
        BY <2>3 DEF WholeTable, Whole
      <3>2. \A r \in ChainOf(e) : record_ledger[r].is_head <=> r = h
        BY <3>1 DEF Marked, ChainOf
      <3>. QED BY <3>1, <3>2, <2>1 DEF ChainTo
    <2>. QED BY <2>2, <2>3
  <1>. QED BY <1>1, LedgerInductive, PTL

(* No record of an entity is newer than its head: an older delivery never   *)
(* takes the head over, in whatever order deliveries are prepared.          *)
THEOREM HeadsNewest == LedgerSpec => []HeadIsNewest
  <1>1. LedgerInv => HeadIsNewest
    <2>. SUFFICES ASSUME WholeTable(record_ledger), NEW e \in Entities,
                         NEW r \in ChainOf(e), NEW h \in ChainOf(e),
                         record_ledger[h].is_head, r # h
                  PROVE  Value(OrderOf[e], r.version) <= Value(OrderOf[e], h.version)
      BY DEF LedgerInv, HeadIsNewest
    <2>1. /\ r \in Rows(record_ledger, e) /\ h \in Rows(record_ledger, e)
          /\ r \in Rec /\ h \in Rec /\ r.entity = e /\ h.entity = e
      BY DEF ChainOf, Rows
    <2>2. PICK g \in Rec : ChainTo(record_ledger, e, g) /\ Marked(record_ledger, e, g)
      BY <2>1 DEF WholeTable, Whole
    <2>3. g = h
      BY <2>1, <2>2 DEF Marked
    <2>4. Val(r) <= Val(h)
      BY <2>1, <2>2, <2>3 DEF ChainTo
    <2>. QED BY <2>1, <2>4 DEF Val
  <1>. QED BY <1>1, LedgerInductive, PTL

(* A delivery that commits leaves each of its entities in the scope it      *)
(* reported, or with a newer record: a move back to an old scope is refused *)
(* and never passed over.                                                   *)
THEOREM ScopesCurrent == LedgerSpec => ScopeIsCurrent
  <1>. DEFINE Kept(p) ==
          \A i \in DOMAIN txn[p].recs :
              LET r == txn[p].recs[i]
                  e == r.entity
              IN  (\A j \in (i + 1)..Len(txn[p].recs) : txn[p].recs[j].entity # e)
                  => \E h \in Rec :
                        /\ h.entity = e /\ record_ledger'[h].is_head
                        /\ \/ h.scope = r.scope
                           \/ Value(OrderOf[e], r.version) < Value(OrderOf[e], h.version)
  <1>1. LedgerInv /\ [LedgerNext]_ledgerVars
            => [\A p \in Procs : Commit(p) => Kept(p)]_ledgerVars
    <2>. SUFFICES ASSUME LedgerInv, NEW p \in Procs, Commit(p) PROVE Kept(p)
      OBVIOUS
    <2>s. PICK s : s = txn[p]
      OBVIOUS
    <2>1. Progress(p) /\ SettledInv(p) /\ s.at = "mask"
      BY <2>s DEF LedgerInv, TxnInv, Commit
    <2>2. DOMAIN s.recs = 1..Len(s.recs) /\ s.i = Len(s.recs)
          /\ \A j \in 1..Len(s.recs) : s.recs[j] \in Rec
      BY <2>1, <2>s, BatchAssumption, CurrentIs DEF Progress
    <2>3. record_ledger' = Seen(p)
      BY CommitIsSeen
    <2>4. ASSUME NEW i \in 1..Len(s.recs),
                 \A j \in (i + 1)..Len(s.recs) : s.recs[j].entity # s.recs[i].entity
          PROVE  \E h \in Rec :
                    /\ h.entity = s.recs[i].entity /\ record_ledger'[h].is_head
                    /\ h.scope = s.recs[i].scope \/ Val(s.recs[i]) < Val(h)
      <3>1. Done(p, i)
        BY <2>1, <2>2, <2>4, <2>s DEF Done
      <3>2. Settled(p, i)
        BY <3>1, <2>1, <2>s DEF SettledInv
      <3>. QED BY <3>2, <2>3, <2>s DEF Settled
    <2>. QED BY <2>2, <2>4, <2>s DEF Val
  <1>. QED BY <1>1, LedgerInductive, PTL DEF LedgerSpec, ScopeIsCurrent

-----------------------------------------------------------------------------
(* Who waits for whom *)

(* Past the entity locks no transaction waits for a row of the ledger: the  *)
(* only lock it may wait for is a row of the redaction map.                 *)
LEMMA RowsAreFree ==
    ASSUME BatchAssumption, LedgerInv, NEW p \in Procs, NEW q \in Procs, p # q,
           txn[p].at \in {"demote", "insert"}
    PROVE  Wants(p) \cap locks[q] = {}
  <1>1. Progress(p) /\ Progress(q) /\ LocksOf(q)
    BY DEF LedgerInv, TxnInv
  <1>2. OfBatch(p, Current(p)) /\ Current(p) \in Rec
    BY <1>1, CurrentIs
  <1>3. \A l \in Wants(p) : \E r \in Rec : l = RowLock(r) /\ OfBatch(p, r)
    <2>1. CASE txn[p].at = "demote"
      <3>1. Wants(p) = {RowLock(r) : r \in HeadsSeen(p, Current(p).entity)}
        BY <2>1 DEF Wants
      <3>2. \A r \in HeadsSeen(p, Current(p).entity) : r \in Rec /\ r.entity = Current(p).entity
        BY DEF HeadsSeen
      <3>. QED BY <3>1, <3>2, <1>2 DEF OfBatch
    <2>2. CASE txn[p].at = "insert"
      <3>1. Wants(p) = {RowLock(Current(p))}
        BY <2>2 DEF Wants
      <3>. QED BY <3>1, <1>2
    <2>. QED BY <2>1, <2>2
  <1>4. ASSUME NEW l \in Wants(p), l \in locks[q]
        PROVE  FALSE
    <2>1. PICK r \in Rec : l = RowLock(r) /\ OfBatch(p, r)
      BY <1>3
    <2>2. OfBatch(q, r) /\ txn[q].at # "lock"
      BY <1>1, <1>4, <2>1 DEF LocksOf
    <2>3. txn[q].at # "idle"
      BY <1>1, <1>4 DEF Progress
    <2>. QED BY <2>1, <2>2, <2>3, Apart
  <1>. QED BY <1>4

(* Two transactions that wait for each other both wait in the masker.       *)
LEMMA WaitsWhere ==
    ASSUME BatchAssumption, LedgerInv, NEW p \in Procs, NEW q \in Procs,
           WaitsFor(p, q), WaitsFor(q, p)
    PROVE  txn[p].at = "mask" /\ txn[q].at = "mask"
  <1>1. ASSUME NEW a \in Procs, NEW b \in Procs, WaitsFor(a, b)
        PROVE  /\ a # b /\ txn[a].at \in {"lock", "mask"} /\ txn[b].at # "idle"
               /\ txn[a].at = "lock" => NextKey(a) \in Held(b)
               /\ txn[a].at = "mask" => txn[b].at # "lock"
    <2>1. Progress(a) /\ Progress(b) /\ LocksOf(b) /\ a # b /\ txn[a].at \in At
      BY <1>1 DEF LedgerInv, TxnInv, TxnType, WaitsFor
    <2>2. PICK l \in Wants(a) : l \in locks[b]
      BY <1>1 DEF WaitsFor
    <2>3. txn[b].at # "idle"
      BY <2>1, <2>2 DEF Progress
    <2>4. txn[a].at \notin {"demote", "insert"}
      BY <2>1, <2>2, RowsAreFree
    <2>5. txn[a].at \notin {"idle", "head", "known"}
      BY <2>2 DEF Wants
    <2>6. txn[a].at = "lock" => NextKey(a) \in Held(b)
      <3>. HAVE txn[a].at = "lock"
      <3>1. l = EntityLock(NextKey(a))
        BY <2>2 DEF Wants
      <3>. QED BY <3>1, <2>1, <2>2 DEF LocksOf
    <2>7. txn[a].at = "mask" => txn[b].at # "lock"
      <3>. SUFFICES ASSUME txn[a].at = "mask", txn[b].at = "lock" PROVE FALSE
        OBVIOUS
      <3>1. PICK k : l = EntityLock(k)
        BY <2>1, <2>2 DEF LocksOf
      <3>. QED BY <3>1, <2>1, <2>2, WantsIs
    <2>. QED BY <2>1, <2>3, <2>4, <2>5, <2>6, <2>7 DEF At
  <1>2. /\ p # q /\ txn[p].at \in {"lock", "mask"} /\ txn[q].at \in {"lock", "mask"}
        /\ txn[p].at = "lock" => NextKey(p) \in Held(q)
        /\ txn[q].at = "lock" => NextKey(q) \in Held(p)
        /\ txn[p].at = "mask" => txn[q].at # "lock"
        /\ txn[q].at = "mask" => txn[p].at # "lock"
    BY <1>1
  <1>3. ~(txn[p].at = "lock" /\ txn[q].at = "lock")
    <2>. SUFFICES ASSUME txn[p].at = "lock", txn[q].at = "lock" PROVE FALSE
      OBVIOUS
    <2>1. Progress(p) /\ Progress(q) /\ LocksOf(p) /\ LocksOf(q)
      BY DEF LedgerInv, TxnInv
    <2>2. /\ NextKey(p) \in txn[p].keys /\ NextKey(q) \in txn[q].keys
          /\ NextKey(p) \in Held(q) /\ NextKey(q) \in Held(p)
      BY <2>1, <1>2, NextKeyIs
    <2>3. NextKey(p) < NextKey(q) /\ NextKey(q) < NextKey(p)
      BY <2>1, <2>2 DEF LocksOf
    <2>4. NextKey(p) \in Nat /\ NextKey(q) \in Nat
      BY <2>1, <2>2, KeysAreNumbers DEF Progress
    <2>5. PICK a \in Nat, b \in Nat : a = NextKey(p) /\ b = NextKey(q)
      BY <2>4
    <2>. QED BY <2>3, <2>5
  <1>. QED BY <1>2, <1>3

(* Whatever the deliveries hold, transactions of Prepare can wait for each  *)
(* other nowhere but in UpsertRedactions: the order of the entity locks     *)
(* rules out every other cycle (ADR 12, decision 1).                        *)
THEOREM OnlyMapCycles ==
    LedgerSpec => [](\A p, q \in Procs : WaitsFor(p, q) /\ WaitsFor(q, p)
                        => txn[p].at = "mask" /\ txn[q].at = "mask")
  <1>1. LedgerInv => \A p, q \in Procs : WaitsFor(p, q) /\ WaitsFor(q, p)
                        => txn[p].at = "mask" /\ txn[q].at = "mask"
    BY BatchAssumption, WaitsWhere
  <1>. QED BY <1>1, LedgerInductive, PTL

-----------------------------------------------------------------------------
(* The rows of the redaction map *)

Ascending(rank, m) == \A k, l \in 1..Len(m) : k < l => rank[m[k]] <= rank[m[l]]

(* Every batch lists its values in one order, the same for all.             *)
OneOrder(rank) ==
    /\ rank \in [Secrets -> Nat]
    /\ \A s, t \in Secrets : rank[s] = rank[t] => s = t
    /\ \A b \in Batches : \A i, j \in 1..Len(b) :
          \A k \in 1..Len(SecretsOf[b[i]]), l \in 1..Len(SecretsOf[b[j]]) :
             i < j \/ (i = j /\ k < l)
                => rank[SecretsOf[b[i]][k]] <= rank[SecretsOf[b[j]][l]]

(* f lists values of the first k records, in order.                         *)
ListsFirst(rank, recs, f, k) ==
    /\ f \in Seq(Secrets) /\ Ascending(rank, f)
    /\ \A x \in 1..Len(f) : \E i \in 1..k : \E l \in 1..Len(SecretsOf[recs[i]]) :
          f[x] = SecretsOf[recs[i]][l]

(* One record more, listed or not.                                          *)
LEMMA ListsOneMore ==
    ASSUME BatchAssumption, NEW rank, OneOrder(rank), NEW recs \in Batches,
           NEW k \in 0..Len(recs), k + 1 \in 1..Len(recs), NEW f, ListsFirst(rank, recs, f, k)
    PROVE  /\ ListsFirst(rank, recs, f, k + 1)
           /\ ListsFirst(rank, recs, f \o SecretsOf[recs[k + 1]], k + 1)
  <1>1. recs \in Seq(Rec) /\ \A i \in 1..Len(recs) : SecretsOf[recs[i]] \in Seq(Secrets)
    BY DEF BatchAssumption
  <1>2. PICK c \in Seq(Secrets) : c = SecretsOf[recs[k + 1]]
    BY <1>1
  <1>3. PICK g \in Seq(Secrets) : g = f
    BY DEF ListsFirst
  <1>4. PICK n \in Nat, m \in Nat : n = Len(g) /\ m = Len(c)
    OBVIOUS
  <1>16. g \o c \in Seq(Secrets)
    OBVIOUS
  <1>5. PICK h \in Seq(Secrets) : h = g \o c
    BY <1>16
  <1>6. /\ Len(h) = n + m
        /\ \A x \in 1..n : h[x] = g[x]
        /\ \A x \in (n + 1)..(n + m) : x - n \in 1..m /\ h[x] = c[x - n]
    BY <1>4, <1>5
  <1>7. k \in Nat /\ Len(recs) \in Nat
    BY <1>1
  <1>8. ASSUME NEW x \in 1..n
        PROVE  \E i \in 1..k : \E l \in 1..Len(SecretsOf[recs[i]]) : g[x] = SecretsOf[recs[i]][l]
    BY <1>3, <1>4 DEF ListsFirst
  <1>9. \A x, y \in 1..m : x < y => rank[c[x]] <= rank[c[y]]
    BY <1>2, <1>4 DEF OneOrder
  <1>10. \A x \in 1..n, y \in 1..m : rank[g[x]] <= rank[c[y]]
    <2>. TAKE x \in 1..n, y \in 1..m
    <2>1. PICK i \in 1..k : \E l \in 1..Len(SecretsOf[recs[i]]) : g[x] = SecretsOf[recs[i]][l]
      BY <1>8
    <2>2. i \in 1..Len(recs) /\ i < k + 1
      BY <1>7
    <2>. QED BY <2>1, <2>2, <1>2, <1>4 DEF OneOrder
  <1>11. \A x, y \in 1..n : x < y => rank[g[x]] <= rank[g[y]]
    BY <1>3, <1>4 DEF ListsFirst, Ascending
  <1>12. Ascending(rank, h)
    <2>. SUFFICES ASSUME NEW x \in 1..(n + m), NEW y \in 1..(n + m), x < y
                  PROVE  rank[h[x]] <= rank[h[y]]
      BY <1>6 DEF Ascending
    <2>1. CASE y <= n
      <3>1. x \in 1..n /\ y \in 1..n
        BY <2>1
      <3>. QED BY <3>1, <1>6, <1>11
    <2>2. CASE x <= n /\ n < y
      <3>1. x \in 1..n /\ y \in (n + 1)..(n + m)
        BY <2>2
      <3>2. h[x] = g[x] /\ h[y] = c[y - n] /\ y - n \in 1..m
        BY <3>1, <1>6
      <3>. QED BY <3>1, <3>2, <1>10
    <2>3. CASE n < x
      <3>1. x \in (n + 1)..(n + m) /\ y \in (n + 1)..(n + m)
        BY <2>3
      <3>2. h[x] = c[x - n] /\ h[y] = c[y - n] /\ x - n \in 1..m /\ y - n \in 1..m
            /\ x - n < y - n
        BY <3>1, <1>6
      <3>. QED BY <3>2, <1>9
    <2>. QED BY <2>1, <2>2, <2>3
  <1>13. ASSUME NEW x \in 1..(n + m)
         PROVE  \E i \in 1..(k + 1) : \E l \in 1..Len(SecretsOf[recs[i]]) :
                   h[x] = SecretsOf[recs[i]][l]
    <2>1. CASE x <= n
      <3>1. x \in 1..n /\ h[x] = g[x]
        BY <2>1, <1>6
      <3>2. PICK i \in 1..k : \E l \in 1..Len(SecretsOf[recs[i]]) : g[x] = SecretsOf[recs[i]][l]
        BY <3>1, <1>8
      <3>3. i \in 1..(k + 1)
        BY <1>7
      <3>. QED BY <3>1, <3>2, <3>3
    <2>2. CASE n < x
      <3>1. x \in (n + 1)..(n + m)
        BY <2>2
      <3>2. x - n \in 1..Len(SecretsOf[recs[k + 1]]) /\ h[x] = SecretsOf[recs[k + 1]][x - n]
        BY <3>1, <1>2, <1>4, <1>6
      <3>3. k + 1 \in 1..(k + 1)
        BY <1>7
      <3>. QED BY <3>2, <3>3
    <2>3. x <= n \/ n < x
      OBVIOUS
    <2>. QED BY <2>1, <2>2, <2>3
  <1>14. ListsFirst(rank, recs, h, k + 1)
    BY <1>6, <1>12, <1>13 DEF ListsFirst
  <1>15. ListsFirst(rank, recs, f, k + 1)
    <2>1. 1..k \subseteq 1..(k + 1)
      BY <1>7
    <2>. QED BY <2>1 DEF ListsFirst
  <1>. QED BY <1>2, <1>3, <1>5, <1>14, <1>15

(* In one order per batch, the masker's list is ascending.                  *)
LEMMA MaskInOrder ==
    ASSUME BatchAssumption, NEW rank, OneOrder(rank), NEW t, t.recs \in Batches
    PROVE  Ascending(rank, MaskOf(t))
  <1>r. PICK recs \in Batches : recs = t.recs
    OBVIOUS
  <1>n. PICK n \in Nat : n = Len(recs)
    BY DEF BatchAssumption
  <1>. DEFINE f == CHOOSE g : UnfoldsMask(g, t, n)
  <1>1. UnfoldsMask(f, t, n)
    BY MaskExists
  <1>2. MaskOf(t) = f[n]
    BY <1>n, <1>r DEF MaskOf, UnfoldsMask
  <1>. HIDE DEF f
  <1>. DEFINE Bad == {k \in Nat : k <= n /\ ~ListsFirst(rank, recs, f[k], k)}
  <1>. SUFFICES ASSUME ~ListsFirst(rank, recs, f[n], n) PROVE FALSE
    BY <1>2 DEF ListsFirst
  <1>4. n \in Bad /\ Bad \in SUBSET Nat
    OBVIOUS
  <1>5. \E m \in Bad : \A k \in Bad : m <= k
    <2>. HIDE DEF Bad
    <2>. QED BY LeastNat, <1>4
  <1>6. PICK m \in Bad : \A k \in Bad : m <= k
    BY <1>5
  <1>7. ListsFirst(rank, recs, f[0], 0)
    <2>1. f[0] = <<>>
      BY <1>1 DEF UnfoldsMask
    <2>. QED BY <2>1 DEF ListsFirst, Ascending
  <1>8. m # 0
    BY <1>6, <1>7
  <1>9. PICK k \in Nat : k = m - 1
    BY <1>6, <1>8
  <1>10. m \in Nat /\ m = k + 1 /\ k \in 0..n /\ k + 1 \in 1..n /\ k \notin Bad
    BY <1>6, <1>9
  <1>11. ListsFirst(rank, recs, f[k], k)
    BY <1>10
  <1>12. f[m] = f[k] \/ f[m] = f[k] \o SecretsOf[recs[m]]
    <2>1. f[m] = IF Admitted(t, t.recs[m]) THEN f[m - 1] \o SecretsOf[t.recs[m]] ELSE f[m - 1]
      <3>1. m \in 0..n
        BY <1>10
      <3>. QED BY <3>1, <1>1, <1>8 DEF UnfoldsMask
    <2>. QED BY <2>1, <1>9, <1>r
  <1>13. /\ ListsFirst(rank, recs, f[k], k + 1)
         /\ ListsFirst(rank, recs, f[k] \o SecretsOf[recs[k + 1]], k + 1)
    BY <1>n, <1>10, <1>11, ListsOneMore
  <1>. QED BY <1>6, <1>10, <1>12, <1>13

(* A row of the map that p holds comes before those it still has to take.   *)
MapInv(rank, p) ==
    /\ Ascending(rank, txn[p].mask)
    /\ \A s \in Secrets : MapLock(s) \in locks[p] =>
          /\ txn[p].at = "mask"
          /\ \A k \in 1..Len(txn[p].mask) : rank[s] <= rank[txn[p].mask[k]]

(* A statement outside the masker takes no row of the map.                  *)
LEMMA MapUntouched ==
    ASSUME LedgerInv, NEW rank, NEW p \in Procs, MapInv(rank, p), NEW t, Ran(p, t),
           txn[p].at # "mask", Ascending(rank, t.mask)
    PROVE  MapInv(rank, p)'
  <1>1. txn'[p] = t /\ locks'[p] = locks[p] \cup Wants(p)
    BY RanIs
  <1>2. \A s \in Secrets : MapLock(s) \notin locks[p]
    BY DEF MapInv
  <1>3. \A s : MapLock(s) \notin Wants(p)
    BY DEF Wants, MapLock, EntityLock, RowLock
  <1>. QED BY <1>1, <1>2, <1>3 DEF MapInv

(* NextRecord hands the masker an ascending list.                           *)
LEMMA MapNext ==
    ASSUME BatchAssumption, NEW rank, OneOrder(rank), LedgerInv, NEW p \in Procs,
           MapInv(rank, p), txn[p].at \notin {"idle", "mask"}, NEW t, t.mask = txn[p].mask,
           t.recs = txn[p].recs, t = [at |-> t.at, recs |-> t.recs, i |-> t.i, keys |-> t.keys,
              head |-> t.head, new |-> t.new, demoted |-> t.demoted, mask |-> t.mask]
    PROVE  Ascending(rank, NextRecord(t).mask)
  <1>1. txn[p].recs \in Batches
    BY DEF LedgerInv, TxnInv, Progress
  <1>2. CASE More(t)
    <2>1. NextRecord(t) = [t EXCEPT !.at = "head", !.i = @ + 1, !.head = None]
      BY <1>2 DEF NextRecord
    <2>2. NextRecord(t).mask = t.mask
      BY <2>1
    <2>. QED BY <2>2 DEF MapInv
  <1>3. CASE ~More(t)
    <2>1. PICK m : m = MaskOf(t)
      OBVIOUS
    <2>2. NextRecord(t) = [t EXCEPT !.at = "mask", !.mask = m]
      BY <1>3, <2>1 DEF NextRecord
    <2>3. NextRecord(t).mask = m
      BY <2>2
    <2>4. Ascending(rank, m)
      BY <1>1, <2>1, MaskInOrder
    <2>. QED BY <2>3, <2>4
  <1>. QED BY <1>2, <1>3

(* The masker takes the first row of an ascending list.                     *)
LEMMA MapMask ==
    ASSUME NEW rank, OneOrder(rank), LedgerInv, NEW p \in Procs, MapInv(rank, p), Mask(p)
    PROVE  MapInv(rank, p)'
  <1>1. PICK m \in Seq(Secrets) : m = txn[p].mask
    BY DEF LedgerInv, TxnInv, TxnType
  <1>2. m # <<>> /\ txn[p].at = "mask" /\ Ran(p, [txn[p] EXCEPT !.mask = Tail(m)])
    BY <1>1 DEF Mask
  <1>10. Tail(m) \in Seq(Secrets)
    BY <1>2
  <1>3. PICK c \in Seq(Secrets) : c = Tail(m)
    BY <1>10
  <1>4. /\ txn'[p] = [txn[p] EXCEPT !.mask = c] /\ locks'[p] = locks[p] \cup Wants(p)
    BY <1>2, <1>3, RanIs
  <1>5. txn'[p].mask = c /\ txn'[p].at = "mask"
    <2>1. TxnType(p)
      BY DEF LedgerInv, TxnInv
    <2>. QED BY <1>2, <1>4, <2>1 DEF TxnType
  <1>6. Wants(p) = {MapLock(m[1])}
    BY <1>1, <1>2 DEF Wants
  <1>7. Len(c) = Len(m) - 1 /\ \A k \in 1..Len(c) : k + 1 \in 1..Len(m) /\ c[k] = m[k + 1]
    BY <1>2, <1>3
  <1>8. Ascending(rank, c)
    <2>. SUFFICES ASSUME NEW k \in 1..Len(c), NEW l \in 1..Len(c), k < l
                  PROVE  rank[c[k]] <= rank[c[l]]
      BY DEF Ascending
    <2>1. k + 1 \in 1..Len(m) /\ l + 1 \in 1..Len(m) /\ k + 1 < l + 1
      BY <1>7
    <2>2. rank[m[k + 1]] <= rank[m[l + 1]]
      BY <1>1, <2>1 DEF MapInv, Ascending
    <2>. QED BY <2>2, <1>7
  <1>9. ASSUME NEW s \in Secrets, MapLock(s) \in locks'[p], NEW k \in 1..Len(c)
        PROVE  rank[s] <= rank[c[k]]
    <2>1. k + 1 \in 1..Len(m) /\ 1 \in 1..Len(m) /\ 1 < k + 1 /\ c[k] = m[k + 1]
      BY <1>7
    <2>2. CASE MapLock(s) \in locks[p]
      BY <1>1, <2>1, <2>2 DEF MapInv
    <2>3. CASE s = m[1]
      BY <1>1, <2>1, <2>3 DEF MapInv, Ascending
    <2>4. MapLock(s) \in locks[p] \/ s = m[1]
      BY <1>4, <1>6, <1>9 DEF MapLock
    <2>. QED BY <2>2, <2>3, <2>4
  <1>. QED BY <1>5, <1>8, <1>9 DEF MapInv

(* Every step of a transaction keeps the rows of the map in order.          *)
LEMMA MapStep ==
    ASSUME BatchAssumption, NEW rank, OneOrder(rank), LedgerInv, NEW p \in Procs,
           \A q \in Procs : MapInv(rank, q),
           \/ \E b \in Batches : Begin(p, b)
           \/ LockEntity(p) \/ ReadHead(p) \/ PassOver(p) \/ Admit(p) \/ Refuse(p)
           \/ Demote(p) \/ Insert(p) \/ Mask(p) \/ Commit(p) \/ Rollback(p)
    PROVE  \A q \in Procs : MapInv(rank, q)'
  <1>t. PICK s : s = txn[p]
    OBVIOUS
  <1>0. /\ s = [at |-> s.at, recs |-> s.recs, i |-> s.i, keys |-> s.keys, head |-> s.head,
               new |-> s.new, demoted |-> s.demoted, mask |-> s.mask]
        /\ MapInv(rank, p) /\ Ascending(rank, s.mask)
        /\ txn = [q \in Procs |-> txn[q]] /\ locks = [q \in Procs |-> locks[q]]
    BY <1>t DEF LedgerInv, LedgerType, TxnInv, TxnType, MapInv
  <1>1. Ascending(rank, <<>>)
    BY DEF Ascending
  <1>2. ASSUME NEW t, Ran(p, t), s.at # "mask", Ascending(rank, t.mask)
        PROVE  MapInv(rank, p)'
    BY <1>0, <1>2, <1>t, MapUntouched
  <1>3. ASSUME End(p)
        PROVE  MapInv(rank, p)'
    <2>1. txn'[p] = Idle /\ locks'[p] = {}
      BY <1>0, <1>3 DEF End
    <2>. QED BY <1>1, <2>1 DEF MapInv, Idle
  <1>4. MapInv(rank, p)'
    <2>1. ASSUME NEW b \in Batches, Begin(p, b) PROVE MapInv(rank, p)'
      <3>1. s.at = "idle" /\ locks[p] = {}
        BY <2>1, <1>t DEF Begin, LedgerInv, TxnInv, Progress
      <3>2. txn'[p].mask = <<>> /\ locks'[p] = {}
        BY <2>1, <3>1, <1>0 DEF Begin, Idle
      <3>. QED BY <1>1, <3>2 DEF MapInv
    <2>2. CASE LockEntity(p)
      <3>1. PICK t : t = [s EXCEPT !.keys = s.keys \ {NextKey(p)},
                           !.at = IF s.keys \ {NextKey(p)} = {} THEN "head" ELSE "lock"]
        OBVIOUS
      <3>2. Ran(p, t) /\ s.at # "mask"
        BY <2>2, <3>1, <1>t DEF LockEntity
      <3>3. t.mask = s.mask
        BY <3>1, <1>0
      <3>. QED BY <3>2, <3>3, <1>0, <1>2
    <2>3. CASE ReadHead(p)
      <3>1. PICK h : Ran(p, [s EXCEPT !.at = "known", !.head = h]) /\ s.at # "mask"
        BY <2>3, <1>t DEF ReadHead
      <3>2. PICK t : t = [s EXCEPT !.at = "known", !.head = h]
        OBVIOUS
      <3>3. t.mask = s.mask
        BY <3>2, <1>0
      <3>. QED BY <3>1, <3>2, <3>3, <1>0, <1>2
    <2>4. CASE PassOver(p)
      <3>1. Ran(p, NextRecord(s)) /\ s.at = "known"
        BY <2>4, <1>t DEF PassOver
      <3>2. Ascending(rank, NextRecord(s).mask)
        BY <3>1, <1>0, <1>t, MapNext
      <3>3. PICK t : t = NextRecord(s)
        OBVIOUS
      <3>. QED BY <3>1, <3>2, <3>3, <1>2
    <2>5. CASE Admit(p)
      <3>1. PICK at : Ran(p, [s EXCEPT !.at = at]) /\ s.at # "mask"
        BY <2>5, <1>t DEF Admit
      <3>2. PICK t : t = [s EXCEPT !.at = at]
        OBVIOUS
      <3>3. t.mask = s.mask
        BY <3>2, <1>0
      <3>. QED BY <3>1, <3>2, <3>3, <1>0, <1>2
    <2>6. CASE Refuse(p) \/ Commit(p) \/ Rollback(p)
      BY <2>6, <1>3 DEF Refuse, Commit, Rollback
    <2>7. CASE Demote(p)
      <3>1. PICK D : Ran(p, [s EXCEPT !.at = "insert", !.demoted = @ \cup D]) /\ s.at # "mask"
        BY <2>7, <1>t DEF Demote
      <3>2. PICK t : t = [s EXCEPT !.at = "insert", !.demoted = @ \cup D]
        OBVIOUS
      <3>3. t.mask = s.mask
        BY <3>2, <1>0
      <3>. QED BY <3>1, <3>2, <3>3, <1>0, <1>2
    <2>8. CASE Insert(p)
      <3>1. PICK n : Ran(p, NextRecord([s EXCEPT !.new = @ \cup {n}])) /\ s.at = "insert"
        BY <2>8, <1>t DEF Insert
      <3>2. PICK t : t = [s EXCEPT !.new = @ \cup {n}]
        OBVIOUS
      <3>3. /\ t.mask = s.mask /\ t.recs = s.recs
            /\ t = [at |-> t.at, recs |-> t.recs, i |-> t.i, keys |-> t.keys, head |-> t.head,
                    new |-> t.new, demoted |-> t.demoted, mask |-> t.mask]
        BY <3>2, <1>0
      <3>4. Ascending(rank, NextRecord(t).mask)
        BY <3>1, <3>3, <1>0, <1>t, MapNext
      <3>5. PICK u : u = NextRecord(t)
        OBVIOUS
      <3>. QED BY <3>1, <3>2, <3>4, <3>5, <1>2
    <2>9. CASE Mask(p)
      BY <2>9, <1>0, MapMask
    <2>. QED BY <2>1, <2>2, <2>3, <2>4, <2>5, <2>6, <2>7, <2>8, <2>9
  <1>5. \A q \in Procs \ {p} : txn'[q] = txn[q] /\ locks'[q] = locks[q]
    <2>1. (\E t : txn' = [txn EXCEPT ![p] = t]) /\ (\E l : locks' = [locks EXCEPT ![p] = l])
      <3>1. ASSUME NEW t, Ran(p, t)
            PROVE  (\E u : txn' = [txn EXCEPT ![p] = u]) /\ (\E l : locks' = [locks EXCEPT ![p] = l])
        BY <3>1 DEF Ran
      <3>2. ASSUME End(p)
            PROVE  (\E u : txn' = [txn EXCEPT ![p] = u]) /\ (\E l : locks' = [locks EXCEPT ![p] = l])
        BY <3>2 DEF End
      <3>3. ASSUME NEW b \in Batches, Begin(p, b)
            PROVE  (\E u : txn' = [txn EXCEPT ![p] = u]) /\ (\E l : locks' = [locks EXCEPT ![p] = l])
        <4>1. locks' = [locks EXCEPT ![p] = locks[p]]
          BY <3>3, <1>0 DEF Begin
        <4>. QED BY <3>3, <4>1 DEF Begin
      <3>. QED BY <3>1, <3>2, <3>3
             DEF LockEntity, ReadHead, PassOver, Admit, Refuse, Demote, Insert, Mask, Commit, Rollback
    <2>. QED BY <1>0, <2>1
  <1>6. ASSUME NEW q \in Procs, q # p
        PROVE  MapInv(rank, q)'
    BY <1>5, <1>6 DEF MapInv
  <1>. QED BY <1>4, <1>6

(* If the deliveries hold the values in one order, transactions never wait  *)
(* for each other.  UpsertRedactions takes the rows of the map in the order *)
(* the values appear, and with two orders it can (run ledger_mask).         *)
THEOREM NoWaitCycles ==
    ASSUME NEW CONSTANT rank, OneOrder(rank)
    PROVE  LedgerSpec => []NoWaitCycle
  <1>. DEFINE Inv == LedgerInv /\ \A p \in Procs : MapInv(rank, p)
  <1>1. LedgerInit => \A p \in Procs : MapInv(rank, p)
    BY DEF LedgerInit, MapInv, Idle, Ascending
  <1>2. LedgerInv /\ (\A p \in Procs : MapInv(rank, p)) /\ [LedgerNext]_ledgerVars
            => (\A p \in Procs : MapInv(rank, p))'
    <2>. SUFFICES ASSUME LedgerInv, \A p \in Procs : MapInv(rank, p), [LedgerNext]_ledgerVars
                  PROVE  \A p \in Procs : MapInv(rank, p)'
      OBVIOUS
    <2>1. CASE LedgerNext
      BY <2>1, BatchAssumption, MapStep DEF LedgerNext
    <2>2. CASE UNCHANGED ledgerVars
      BY <2>2 DEF ledgerVars, MapInv
    <2>. QED BY <2>1, <2>2
  <1>3. LedgerInv /\ (\A p \in Procs : MapInv(rank, p)) => NoWaitCycle
    <2>. SUFFICES ASSUME LedgerInv, \A p \in Procs : MapInv(rank, p),
                         NEW p \in Procs, NEW q \in Procs, WaitsFor(p, q), WaitsFor(q, p)
                  PROVE  FALSE
      BY DEF NoWaitCycle
    <2>1. txn[p].at = "mask" /\ txn[q].at = "mask"
      BY BatchAssumption, WaitsWhere
    <2>2. ASSUME NEW a \in Procs, NEW b \in Procs, WaitsFor(a, b), txn[a].at = "mask"
          PROVE  \E s \in Secrets :
                    /\ MapLock(s) \in locks[b] /\ 1 \in 1..Len(txn[a].mask) /\ s = txn[a].mask[1]
      <3>1. PICK l \in Wants(a) : l \in locks[b]
        BY <2>2 DEF WaitsFor
      <3>2. PICK m \in Seq(Secrets) : m = txn[a].mask
        BY DEF LedgerInv, TxnInv, TxnType
      <3>3. m # <<>> /\ l = MapLock(Head(m))
        BY <2>2, <3>1, <3>2 DEF Wants
      <3>4. Head(m) \in Secrets /\ Head(m) = m[1] /\ 1 \in 1..Len(m)
        BY <3>3
      <3>. QED BY <3>1, <3>2, <3>3, <3>4
    <2>3. PICK s \in Secrets : MapLock(s) \in locks[q] /\ 1 \in 1..Len(txn[p].mask) /\ s = txn[p].mask[1]
      BY <2>1, <2>2
    <2>4. PICK t \in Secrets : MapLock(t) \in locks[p] /\ 1 \in 1..Len(txn[q].mask) /\ t = txn[q].mask[1]
      BY <2>1, <2>2
    <2>5. rank[s] <= rank[t] /\ rank[t] <= rank[s]
      BY <2>3, <2>4 DEF MapInv
    <2>6. rank[s] \in Nat /\ rank[t] \in Nat
      BY DEF OneOrder
    <2>7. s = t
      BY <2>5, <2>6 DEF OneOrder
    <2>8. locks[p] \cap locks[q] = {}
      BY DEF LedgerInv, WaitsFor
    <2>. QED BY <2>3, <2>4, <2>7, <2>8
  <1>. QED BY <1>1, <1>2, <1>3, LedgerInductive, PTL DEF LedgerSpec

=============================================================================
