---------------------------- MODULE SinksProofs -----------------------------
(***************************************************************************)
(* What is proved of the sinks, for every batch, size and number of        *)
(* workers and whatever goes wrong on the way.                             *)
(***************************************************************************)
EXTENDS Sinks, FiniteSetTheorems, SequenceTheorems, NaturalsInduction, WellFoundedInduction, TLAPS

-----------------------------------------------------------------------------
(* Recursion *)

(* A set of naturals has a least element.                                   *)
LEMMA LeastNat ==
    ASSUME NEW S \in SUBSET Nat, S # {}
    PROVE  \E m \in S : \A n \in S : m <= n
  <1>1. PICK m \in S : \A n \in S : ~(<<n, m>> \in OpToRel(<, Nat))
    BY WFMin, NatLessThanWellFounded, Zenon
  <1>2. \A n \in S : ~(n < m)
    BY <1>1, Zenon DEF OpToRel
  <1>. QED BY <1>2

(* A set that holds 0 and one more than each of its members below n holds   *)
(* all the naturals up to n.                                                *)
LEMMA UpTo ==
    ASSUME NEW n \in Nat, NEW Good, 0 \in Good,
           \A i \in 1..n : i - 1 \in Good => i \in Good
    PROVE  \A i \in 0..n : i \in Good
  <1>. DEFINE Bad == (0..n) \ Good
  <1>. SUFFICES ASSUME Bad # {} PROVE FALSE
    OBVIOUS
  <1>0. Bad \in SUBSET Nat
    OBVIOUS
  <1>9. \E m \in Bad : \A k \in Bad : m <= k
    <2>. HIDE DEF Bad
    <2>. QED BY LeastNat, <1>0
  <1>1. PICK m \in Bad : \A k \in Bad : m <= k
    BY <1>9
  <1>2. m \in 1..n /\ m - 1 \in 0..n /\ m - 1 \notin Bad
    BY <1>1
  <1>. QED BY <1>1, <1>2

(* f runs the steps F over the states St, from b.                           *)
Runs(f, F, n, b, St) ==
    /\ f \in [0..n -> St]
    /\ f[0] = b
    /\ \A i \in 1..n : f[i] = F[i][f[i - 1]]

(* Every run is there: what a recursive definition needs to have a value.   *)
LEMMA RunExists ==
    ASSUME NEW n \in Nat, NEW St, NEW b \in St, NEW F \in [1..n -> [St -> St]]
    PROVE  \E f : Runs(f, F, n, b, St)
  <1>. DEFINE Good == {k \in 0..n : \E f : Runs(f, F, k, b, St)}
  <1>1. 0 \in Good
    <2>1. Runs([i \in 0..0 |-> b], F, 0, b, St)
      BY DEF Runs
    <2>. QED BY <2>1
  <1>2. ASSUME NEW i \in 1..n, i - 1 \in Good
        PROVE  i \in Good
    <2>1. PICK f : Runs(f, F, i - 1, b, St)
      BY <1>2
    <2>. DEFINE g == [k \in 0..i |-> IF k = i THEN F[i][f[i - 1]] ELSE f[k]]
    <2>2. i - 1 \in 0..(i - 1) /\ f[i - 1] \in St
      BY <2>1 DEF Runs
    <2>3. F[i][f[i - 1]] \in St
      BY <2>2
    <2>4. g \in [0..i -> St]
      BY <2>3, <2>1 DEF Runs
    <2>5. g[0] = b
      BY <2>1 DEF Runs
    <2>6. ASSUME NEW k \in 1..i
          PROVE  g[k] = F[k][g[k - 1]]
      <3>1. CASE k = i
        BY <3>1
      <3>2. CASE k # i
        <4>1. k \in 1..(i - 1) /\ g[k] = f[k] /\ g[k - 1] = f[k - 1]
          BY <3>2
        <4>. QED BY <4>1, <2>1 DEF Runs
      <3>. QED BY <3>1, <3>2
    <2>. HIDE DEF g
    <2>7. Runs(g, F, i, b, St)
      BY <2>4, <2>5, <2>6 DEF Runs
    <2>. QED BY <2>7
  <1>3. \A i \in 0..n : i \in Good
    <2>. HIDE DEF Good
    <2>. QED BY <1>1, <1>2, UpTo
  <1>. QED BY <1>3

-----------------------------------------------------------------------------
(* The walk along a chain of held documents *)

(* The walk of leadsBack, step by step.                                     *)
Steps(at, h, supersedes) ==
    /\ at \in [0..Cardinality(DOMAIN h) -> {NoId, supersedes} \cup {SupersedesOf[h[i]] : i \in DOMAIN h}]
    /\ at[0] = supersedes
    /\ \A n \in 1..Cardinality(DOMAIN h) :
          at[n] = IF at[n - 1] \in DOMAIN h THEN SupersedesOf[h[at[n - 1]]] ELSE NoId

LEMMA WalkSteps ==
    ASSUME NEW h, IsFiniteSet(DOMAIN h), NEW supersedes
    PROVE  Steps(Walk(h, supersedes), h, supersedes)
  <1>1. PICK c \in Nat : c = Cardinality(DOMAIN h)
    BY FS_CardinalityType
  <1>. DEFINE St == {NoId, supersedes} \cup {SupersedesOf[h[i]] : i \in DOMAIN h}
              F == [i \in 1..c |-> [s \in St |->
                      IF s \in DOMAIN h THEN SupersedesOf[h[s]] ELSE NoId]]
              Unfolds(f) == f = [n \in 0..c |->
                      IF n = 0 THEN supersedes
                      ELSE IF f[n - 1] \in DOMAIN h THEN SupersedesOf[h[f[n - 1]]] ELSE NoId]
  <1>2. F \in [1..c -> [St -> St]] /\ supersedes \in St
    OBVIOUS
  <1>3. PICK f : Runs(f, F, c, supersedes, St)
    <2>. HIDE DEF F, St
    <2>. QED BY <1>2, RunExists
  <1>4. \A n \in 1..c : f[n - 1] \in St /\ f[n] = F[n][f[n - 1]]
    <2>. HIDE DEF F, St
    <2>. QED BY <1>3 DEF Runs
  <1>5. \A n \in 0..c : f[n] = IF n = 0 THEN supersedes
              ELSE IF f[n - 1] \in DOMAIN h THEN SupersedesOf[h[f[n - 1]]] ELSE NoId
    <2>1. f[0] = supersedes
      BY <1>3 DEF Runs
    <2>2. \A n \in 1..c : f[n] = IF f[n - 1] \in DOMAIN h THEN SupersedesOf[h[f[n - 1]]] ELSE NoId
      BY <1>4
    <2>. HIDE DEF F, St
    <2>. QED BY <2>1, <2>2
  <1>6. f \in [0..c -> St]
    <2>. HIDE DEF F, St
    <2>. QED BY <1>3 DEF Runs
  <1>7. Unfolds(f)
    <2>. HIDE DEF F, St
    <2>. QED BY <1>5, <1>6
  <1>. DEFINE at == CHOOSE g : Unfolds(g)
  <1>8. Unfolds(at)
    <2>. HIDE DEF Unfolds
    <2>. QED BY <1>7
  <1>9. at = Walk(h, supersedes)
    BY <1>1 DEF Walk
  <1>. HIDE DEF at
  <1>10. /\ DOMAIN at = 0..c /\ at[0] = supersedes
         /\ \A n \in 1..c : at[n] = IF at[n - 1] \in DOMAIN h THEN SupersedesOf[h[at[n - 1]]] ELSE NoId
         /\ at = [n \in 0..c |-> at[n]]
    <2>1. at[0] = supersedes
      BY <1>8
    <2>2. ASSUME NEW n \in 1..c
          PROVE  at[n] = IF at[n - 1] \in DOMAIN h THEN SupersedesOf[h[at[n - 1]]] ELSE NoId
      <3>1. n \in 0..c /\ n # 0
        OBVIOUS
      <3>. QED BY <3>1, <1>8
    <2>. QED BY <1>8, <2>1, <2>2
  <1>11. \A n \in 0..c : at[n] \in St
    <2>1. ASSUME NEW n \in 0..c
          PROVE  at[n] \in St
      <3>1. CASE n = 0
        BY <3>1, <1>10
      <3>2. CASE n # 0
        <4>1. n \in 1..c
          BY <3>2
        <4>. QED BY <4>1, <1>10
      <3>. QED BY <3>1, <3>2
    <2>. QED BY <2>1
  <1>. QED BY <1>1, <1>9, <1>10, <1>11 DEF Steps

(* The walk from what a new document supersedes never leaves a set of held  *)
(* ids and the new one.                                                     *)
Trapped(h, id, supersedes) ==
    \E S \in SUBSET (DOMAIN h \cup {id}) :
        supersedes \in S /\ \A i \in S \ {id} : SupersedesOf[h[i]] \in S

(* What the walk passed, when it came back to it.                           *)
LEMMA LeadsBackTraps ==
    ASSUME NEW h, IsFiniteSet(DOMAIN h), NoId \notin DOMAIN h,
           NEW id, NEW supersedes, LeadsBack(h, id, supersedes)
    PROVE  Trapped(h, id, supersedes)
  <1>1. PICK at : at = Walk(h, supersedes)
    OBVIOUS
  <1>2. PICK c \in Nat : c = Cardinality(DOMAIN h)
    BY FS_CardinalityType
  <1>3. /\ DOMAIN at = 0..c /\ at[0] = supersedes
        /\ \A n \in 1..c : at[n] = IF at[n - 1] \in DOMAIN h THEN SupersedesOf[h[at[n - 1]]] ELSE NoId
    BY <1>1, <1>2, WalkSteps DEF Steps
  <1>4. PICK n \in 0..c : at[n] # NoId /\ (at[n] = id \/ \E m \in 0..(n - 1) : at[m] = at[n])
    BY <1>1, <1>3 DEF LeadsBack
  <1>5. \A j \in 0..n : at[j] # NoId
    <2>. DEFINE Good == {k \in 0..n : at[n - k] # NoId}
    <2>1. 0 \in Good
      BY <1>4
    <2>2. \A k \in 1..n : k - 1 \in Good => k \in Good
      <3>. TAKE k \in 1..n
      <3>. HAVE k - 1 \in Good
      <3>1. n - k + 1 \in 1..c /\ n - (k - 1) = n - k + 1 /\ n - k + 1 - 1 = n - k
        OBVIOUS
      <3>2. at[n - k + 1] # NoId
        BY <3>1
      <3>3. at[n - k] \in DOMAIN h
        BY <3>1, <3>2, <1>3
      <3>. QED BY <3>3
    <2>3. \A k \in 0..n : k \in Good
      <3>. HIDE DEF Good
      <3>. QED BY <2>1, <2>2, UpTo
    <2>4. \A j \in 0..n : n - j \in 0..n /\ n - (n - j) = j
      OBVIOUS
    <2>. QED BY <2>3, <2>4
  <1>6. \A j \in 0..n : j < n => at[j] \in DOMAIN h /\ at[j + 1] = SupersedesOf[h[at[j]]]
    <2>. TAKE j \in 0..n
    <2>. HAVE j < n
    <2>1. j + 1 \in 1..c /\ j + 1 \in 0..n /\ j + 1 - 1 = j
      OBVIOUS
    <2>. QED BY <2>1, <1>5, <1>3
  <1>. DEFINE S == {at[j] : j \in 0..n}
  <1>7. at[n] = id \/ \E m \in 0..n : m < n /\ at[m] = at[n]
    BY <1>4
  <1>8. S \in SUBSET (DOMAIN h \cup {id}) /\ supersedes \in S
    <2>1. ASSUME NEW j \in 0..n
          PROVE  at[j] \in DOMAIN h \cup {id}
      <3>1. CASE j < n
        BY <3>1, <1>6
      <3>2. CASE j = n
        <4>1. CASE at[n] = id
          BY <3>2, <4>1
        <4>2. CASE \E m \in 0..n : m < n /\ at[m] = at[n]
          BY <3>2, <4>2, <1>6
        <4>. QED BY <1>7, <4>1, <4>2
      <3>. QED BY <3>1, <3>2
    <2>2. 0 \in 0..n /\ at[0] = supersedes
      BY <1>3
    <2>. QED BY <2>1, <2>2
  <1>9. ASSUME NEW i \in S \ {id}
        PROVE  SupersedesOf[h[i]] \in S
    <2>1. PICK j \in 0..n : at[j] = i /\ j < n
      BY <1>7
    <2>. QED BY <2>1, <1>6
  <1>. QED BY <1>8, <1>9 DEF Trapped

(* A walk that cannot leave a finite set comes back.                        *)
LEMMA TrapLeadsBack ==
    ASSUME NEW h, IsFiniteSet(DOMAIN h), NoId \notin DOMAIN h,
           NEW id, id # NoId, NEW supersedes, Trapped(h, id, supersedes)
    PROVE  LeadsBack(h, id, supersedes)
  <1>. SUFFICES ASSUME ~ LeadsBack(h, id, supersedes) PROVE FALSE
    OBVIOUS
  <1>1. PICK at : at = Walk(h, supersedes)
    OBVIOUS
  <1>2. PICK c \in Nat : c = Cardinality(DOMAIN h)
    BY FS_CardinalityType
  <1>3. /\ DOMAIN at = 0..c /\ at[0] = supersedes
        /\ \A n \in 1..c : at[n] = IF at[n - 1] \in DOMAIN h THEN SupersedesOf[h[at[n - 1]]] ELSE NoId
        /\ at = [n \in 0..c |-> at[n]]
    BY <1>1, <1>2, WalkSteps DEF Steps
  <1>4. \A n \in 0..c : at[n] # NoId => at[n] # id /\ \A m \in 0..(n - 1) : at[m] # at[n]
    BY <1>1, <1>3 DEF LeadsBack
  <1>5. PICK S \in SUBSET (DOMAIN h \cup {id}) :
            supersedes \in S /\ \A i \in S \ {id} : SupersedesOf[h[i]] \in S
    BY DEF Trapped
  <1>6. \A n \in 0..c : at[n] \in S \ {id}
    <2>. DEFINE Good == {n \in 0..c : at[n] \in S \ {id}}
    <2>1. 0 \in Good
      <3>1. at[0] \in S /\ at[0] # NoId
        BY <1>3, <1>5
      <3>. QED BY <3>1, <1>4
    <2>2. \A n \in 1..c : n - 1 \in Good => n \in Good
      <3>. TAKE n \in 1..c
      <3>. HAVE n - 1 \in Good
      <3>1. at[n - 1] \in S \ {id} /\ at[n - 1] \in DOMAIN h
        BY <1>5
      <3>2. at[n] = SupersedesOf[h[at[n - 1]]]
        BY <3>1, <1>3
      <3>3. at[n] \in S
        BY <3>1, <3>2, <1>5
      <3>4. at[n] # NoId
        BY <3>3, <1>5
      <3>. QED BY <3>3, <3>4, <1>4
    <2>. HIDE DEF Good
    <2>3. \A n \in 0..c : n \in Good
      BY <2>1, <2>2, UpTo
    <2>. QED BY <2>3 DEF Good
  <1>7. at \in [0..c -> DOMAIN h]
    BY <1>3, <1>5, <1>6
  <1>8. IsFiniteSet(0..c) /\ Cardinality(0..c) = c + 1
    BY FS_Interval
  <1>9. PICK x, y \in 0..c : x # y /\ at[x] = at[y]
    BY <1>2, <1>7, <1>8, FS_PigeonHole
  <1>10. at[x] # NoId /\ at[y] # NoId
    BY <1>7
  <1>11. CASE x < y
    BY <1>11, <1>9, <1>10, <1>4
  <1>12. CASE y < x
    BY <1>12, <1>9, <1>10, <1>4
  <1>. QED BY <1>9, <1>11, <1>12

-----------------------------------------------------------------------------
(* The strict receiver *)

(* No chain of what is held comes back to a record it has passed.           *)
Acyclic(h) == \A S \in SUBSET DOMAIN h : S # {} => \E i \in S : SupersedesOf[h[i]] \notin S

(* What a receiver may hold: sound documents, each under its own id.        *)
StubOK(h) ==
    /\ IsFiniteSet(DOMAIN h) /\ h \in [DOMAIN h -> Records]
    /\ \A i \in DOMAIN h : IdOf[h[i]] = i /\ h[i] \notin Malformed /\ SizeOf[h[i]] <= MaxDocument
    /\ Acyclic(h)

(* g holds what h holds.                                                    *)
Extends(g, h) == DOMAIN h \subseteq DOMAIN g /\ \A i \in DOMAIN h : g[i] = h[i]

LEMMA NoIdIsNotHeld ==
    ASSUME NEW h, StubOK(h)
    PROVE  NoId \notin DOMAIN h
  BY StubAssumption DEF StubOK

(* What is held is accepted again, and nothing changes.                     *)
LEMMA HeldIsAccepted ==
    ASSUME NEW h, StubOK(h), NEW r \in Range(h)
    PROVE  Accepts(h, r) /\ Stored(h, r) = h /\ r \in Records
  <1>1. PICK i \in DOMAIN h : h[i] = r
    BY DEF Range
  <1>2. IdOf[r] = i /\ r \notin Malformed /\ ~(SizeOf[r] > MaxDocument) /\ r \in Records
    BY <1>1, StubAssumption DEF StubOK
  <1>3. Verdict(h, r) = "held"
    BY <1>1, <1>2 DEF Verdict
  <1>. QED BY <1>2, <1>3 DEF Accepts, Stored

(* What is held stays, a new document is added if it is accepted, and the   *)
(* chains still end: a cycle through the new document would be a set the    *)
(* walk from what it supersedes cannot leave.                               *)
LEMMA StoredIsSound ==
    ASSUME NEW h, StubOK(h), NEW r \in Records
    PROVE  /\ StubOK(Stored(h, r)) /\ Extends(Stored(h, r), h)
           /\ Accepts(h, r) => Range(Stored(h, r)) = Range(h) \cup {r}
           /\ ~ Accepts(h, r) => Stored(h, r) = h
  <1>1. CASE Verdict(h, r) # "new"
    <2>1. Stored(h, r) = h
      BY <1>1 DEF Stored
    <2>2. Accepts(h, r) => r \in Range(h)
      BY <1>1 DEF Accepts, Verdict, Range
    <2>. QED BY <2>1, <2>2 DEF Extends
  <1>2. CASE Verdict(h, r) = "new"
    <2>1. PICK g : g = Stored(h, r)
      OBVIOUS
    <2>2. PICK k : k = IdOf[r]
      OBVIOUS
    <2>3. /\ DOMAIN g = DOMAIN h \cup {k} /\ g[k] = r
          /\ g = [id \in DOMAIN h \cup {k} |-> IF id = k THEN r ELSE h[id]]
      BY <2>1, <2>2, <1>2 DEF Stored
    <2>4. /\ k \notin DOMAIN h /\ k # NoId
          /\ ~ (SizeOf[r] > MaxDocument) /\ r \notin Malformed
          /\ ~ LeadsBack(h, k, SupersedesOf[r])
      BY <2>2, <1>2, StubAssumption DEF Verdict
    <2>5. \A i \in DOMAIN h : g[i] = h[i]
      BY <2>3, <2>4
    <2>6. IsFiniteSet(DOMAIN g)
      BY <2>3, FS_AddElement DEF StubOK
    <2>7. g \in [DOMAIN g -> Records]
      BY <2>3 DEF StubOK
    <2>8. \A i \in DOMAIN g : IdOf[g[i]] = i /\ g[i] \notin Malformed /\ SizeOf[g[i]] <= MaxDocument
      BY <2>2, <2>3, <2>4, <2>5, StubAssumption DEF StubOK
    <2>9. Acyclic(g)
      <3>. SUFFICES ASSUME NEW S \in SUBSET DOMAIN g, S # {},
                           \A i \in S : SupersedesOf[g[i]] \in S
                    PROVE  FALSE
        BY DEF Acyclic
      <3>1. CASE k \notin S
        <4>1. S \in SUBSET DOMAIN h /\ \A i \in S : SupersedesOf[h[i]] \in S
          BY <3>1, <2>3, <2>5
        <4>. QED BY <4>1 DEF StubOK, Acyclic
      <3>2. CASE k \in S
        <4>1. SupersedesOf[r] \in S
          BY <3>2, <2>3
        <4>2. \A i \in S \ {k} : SupersedesOf[h[i]] \in S
          BY <2>3, <2>5
        <4>3. Trapped(h, k, SupersedesOf[r])
          BY <4>1, <4>2, <2>3 DEF Trapped
        <4>. QED BY <4>3, <2>4, NoIdIsNotHeld, TrapLeadsBack DEF StubOK
      <3>. QED BY <3>1, <3>2
    <2>10. StubOK(g)
      BY <2>6, <2>7, <2>8, <2>9 DEF StubOK
    <2>11. Range(g) = Range(h) \cup {r}
      BY <2>3, <2>5 DEF Range
    <2>12. Accepts(h, r)
      BY <1>2 DEF Accepts
    <2>. QED BY <2>1, <2>3, <2>5, <2>10, <2>11, <2>12 DEF Extends
  <1>. QED BY <1>1, <1>2

(* What a receiver refuses it goes on refusing, whatever else it takes.     *)
LEMMA RefusedForGood ==
    ASSUME NEW h, StubOK(h), NEW g, StubOK(g), Extends(g, h),
           NEW r \in Records, ~ Accepts(h, r)
    PROVE  ~ Accepts(g, r)
  <1>1. PICK k : k = IdOf[r]
    OBVIOUS
  <1>2. CASE SizeOf[r] > MaxDocument \/ r \in Malformed
    BY <1>2 DEF Accepts, Verdict
  <1>3. CASE ~ (SizeOf[r] > MaxDocument) /\ r \notin Malformed /\ k \in DOMAIN h
    <2>1. h[k] # r
      BY <1>1, <1>3 DEF Accepts, Verdict
    <2>2. k \in DOMAIN g /\ g[k] # r
      BY <2>1, <1>3 DEF Extends
    <2>. QED BY <2>2, <1>1, <1>3 DEF Accepts, Verdict
  <1>4. CASE ~ (SizeOf[r] > MaxDocument) /\ r \notin Malformed /\ k \notin DOMAIN h
    <2>1. LeadsBack(h, k, SupersedesOf[r])
      BY <1>1, <1>4 DEF Accepts, Verdict
    <2>2. PICK S \in SUBSET (DOMAIN h \cup {k}) :
              SupersedesOf[r] \in S /\ \A i \in S \ {k} : SupersedesOf[h[i]] \in S
      BY <2>1, LeadsBackTraps, NoIdIsNotHeld DEF Trapped, StubOK
    <2>3. /\ S \in SUBSET (DOMAIN g \cup {k}) /\ \A i \in S \ {k} : SupersedesOf[g[i]] \in S
      BY <2>2 DEF Extends
    <2>4. CASE k \notin DOMAIN g
      <3>1. Trapped(g, k, SupersedesOf[r])
        BY <2>2, <2>3 DEF Trapped
      <3>2. k # NoId
        BY <1>1, StubAssumption
      <3>3. LeadsBack(g, k, SupersedesOf[r])
        BY <3>1, <3>2, TrapLeadsBack, NoIdIsNotHeld DEF StubOK
      <3>. QED BY <3>3, <2>4, <1>1, <1>4 DEF Accepts, Verdict
    <2>5. CASE k \in DOMAIN g
      <3>1. g[k] # r
        <4>. SUFFICES ASSUME g[k] = r PROVE FALSE
          OBVIOUS
        <4>1. S \in SUBSET DOMAIN g /\ \A i \in S : SupersedesOf[g[i]] \in S
          BY <2>2, <2>3, <2>5
        <4>. QED BY <4>1, <2>2 DEF StubOK, Acyclic
      <3>. QED BY <3>1, <2>5, <1>1, <1>4 DEF Accepts, Verdict
    <2>. QED BY <2>4, <2>5
  <1>. QED BY <1>2, <1>3, <1>4

-----------------------------------------------------------------------------
(* A request taken whole *)

(* What the receiver holds after each record of a request.                  *)
Grows(held, h, chunk) ==
    /\ held[0] = h
    /\ \A n \in 1..Len(chunk) : held[n] = Stored(held[n - 1], chunk[n])
    /\ \A n \in 0..Len(chunk) : StubOK(held[n])

LEMMA AllOfGrows ==
    ASSUME NEW h, StubOK(h), NEW chunk \in Seq(Records)
    PROVE  Grows(AllOf(h, chunk), h, chunk)
  <1>1. PICK c \in Nat : c = Len(chunk)
    OBVIOUS
  <1>. DEFINE Ids == {IdOf[r] : r \in Records}
              St == {g \in UNION {[D -> Records] : D \in SUBSET Ids} : StubOK(g)}
              F == [i \in 1..c |-> [g \in St |-> Stored(g, chunk[i])]]
              Unfolds(f) == f = [n \in 0..c |-> IF n = 0 THEN h ELSE Stored(f[n - 1], chunk[n])]
  <1>2. ASSUME NEW g, StubOK(g)
        PROVE  g \in St
    <2>1. PICK D : D = DOMAIN g
      OBVIOUS
    <2>2. g \in [D -> Records]
      BY <1>2, <2>1 DEF StubOK
    <2>3. D \in SUBSET Ids
      <3>1. \A i \in D : g[i] \in Records /\ IdOf[g[i]] = i
        BY <1>2, <2>1, <2>2 DEF StubOK
      <3>. QED BY <3>1
    <2>4. [D -> Records] \in {[E -> Records] : E \in SUBSET Ids}
      <3>. HIDE DEF Ids
      <3>. QED BY <2>3, Zenon
    <2>5. g \in UNION {[E -> Records] : E \in SUBSET Ids}
      <3>. HIDE DEF Ids
      <3>. QED BY <2>2, <2>4, Zenon
    <2>. QED BY <1>2, <2>5
  <1>3. h \in St
    BY <1>2
  <1>4. F \in [1..c -> [St -> St]]
    <2>1. ASSUME NEW i \in 1..c, NEW g \in St
          PROVE  Stored(g, chunk[i]) \in St
      <3>1. StubOK(g) /\ chunk[i] \in Records
        BY <1>1
      <3>2. StubOK(Stored(g, chunk[i]))
        BY <3>1, StoredIsSound
      <3>. HIDE DEF St
      <3>. QED BY <3>2, <1>2
    <2>. HIDE DEF St
    <2>. QED BY <2>1
  <1>5. PICK f : Runs(f, F, c, h, St)
    <2>. HIDE DEF F, St
    <2>. QED BY <1>3, <1>4, RunExists
  <1>6. f \in [0..c -> St] /\ f[0] = h /\ \A i \in 1..c : f[i] = F[i][f[i - 1]]
    <2>. HIDE DEF F, St
    <2>. QED BY <1>5 DEF Runs
  <1>7. \A i \in 1..c : f[i] = Stored(f[i - 1], chunk[i])
    <2>. TAKE i \in 1..c
    <2>1. f[i - 1] \in St
      <3>. HIDE DEF F, St
      <3>. QED BY <1>6
    <2>2. F[i][f[i - 1]] = Stored(f[i - 1], chunk[i])
      <3>. HIDE DEF St
      <3>. QED BY <2>1
    <2>. HIDE DEF F, St
    <2>. QED BY <2>2, <1>6
  <1>8. Unfolds(f)
    <2>. HIDE DEF F, St
    <2>1. \A n \in 0..c : f[n] = IF n = 0 THEN h ELSE Stored(f[n - 1], chunk[n])
      BY <1>6, <1>7
    <2>. QED BY <2>1, <1>6
  <1>. DEFINE b == CHOOSE g : Unfolds(g)
  <1>9. Unfolds(b)
    <2>. HIDE DEF Unfolds
    <2>. QED BY <1>8
  <1>10. b = AllOf(h, chunk)
    BY <1>1 DEF AllOf
  <1>. HIDE DEF b
  <1>11. b[0] = h
    BY <1>9
  <1>12. ASSUME NEW n \in 1..c
         PROVE  b[n] = Stored(b[n - 1], chunk[n])
    <2>1. n \in 0..c /\ n # 0
      OBVIOUS
    <2>. QED BY <2>1, <1>9
  <1>13. \A n \in 0..c : StubOK(b[n])
    <2>. DEFINE Good == {n \in 0..c : StubOK(b[n])}
    <2>1. 0 \in Good
      BY <1>11
    <2>2. \A n \in 1..c : n - 1 \in Good => n \in Good
      <3>. TAKE n \in 1..c
      <3>. HAVE n - 1 \in Good
      <3>1. chunk[n] \in Records
        BY <1>1
      <3>. QED BY <3>1, <1>12, StoredIsSound
    <2>. HIDE DEF Good
    <2>3. \A n \in 0..c : n \in Good
      BY <2>1, <2>2, UpTo
    <2>. QED BY <2>3 DEF Good
  <1>. QED BY <1>1, <1>10, <1>11, <1>12, <1>13 DEF Grows

(* A request of which nothing is refused is held from then on, and what was *)
(* held before still is.                                                    *)
LEMMA TakenIsHeld ==
    ASSUME NEW h, StubOK(h), NEW chunk \in Seq(Records), TakesAll(h, chunk)
    PROVE  /\ StubOK(AllOf(h, chunk)[Len(chunk)])
           /\ Extends(AllOf(h, chunk)[Len(chunk)], h)
           /\ Range(AllOf(h, chunk)[Len(chunk)]) = Range(h) \cup Range(chunk)
  <1>1. PICK c \in Nat : c = Len(chunk)
    OBVIOUS
  <1>2. PICK b : b = AllOf(h, chunk)
    OBVIOUS
  <1>3. /\ b[0] = h /\ \A n \in 1..c : b[n] = Stored(b[n - 1], chunk[n])
        /\ \A n \in 0..c : StubOK(b[n])
    <2>1. Grows(b, h, chunk)
      BY <1>2, AllOfGrows
    <2>. QED BY <1>1, <2>1 DEF Grows
  <1>4. \A n \in 1..c : Accepts(b[n - 1], chunk[n])
    BY <1>1, <1>2 DEF TakesAll
  <1>. DEFINE Good == {n \in 0..c : Extends(b[n], h) /\ Range(b[n]) = Range(h) \cup {chunk[i] : i \in 1..n}}
  <1>5. 0 \in Good
    BY <1>3 DEF Extends
  <1>6. \A n \in 1..c : n - 1 \in Good => n \in Good
    <2>. TAKE n \in 1..c
    <2>. HAVE n - 1 \in Good
    <2>1. StubOK(b[n - 1]) /\ chunk[n] \in Records /\ n - 1 \in 0..c
      BY <1>1, <1>3
    <2>2. /\ Extends(b[n], b[n - 1]) /\ Range(b[n]) = Range(b[n - 1]) \cup {chunk[n]}
      BY <2>1, <1>3, <1>4, StoredIsSound
    <2>3. Extends(b[n], h)
      BY <2>2 DEF Extends
    <2>4. {chunk[i] : i \in 1..n} = {chunk[i] : i \in 1..(n - 1)} \cup {chunk[n]}
      OBVIOUS
    <2>. QED BY <2>2, <2>3, <2>4
  <1>7. c \in Good
    <2>. HIDE DEF Good
    <2>1. c \in 0..c
      OBVIOUS
    <2>. QED BY <2>1, <1>5, <1>6, UpTo
  <1>8. Range(chunk) = {chunk[i] : i \in 1..c}
    BY <1>1 DEF Range
  <1>. QED BY <1>1, <1>2, <1>3, <1>7, <1>8

(* A receiver that holds every record of a request takes it again.          *)
LEMMA HeldIsTaken ==
    ASSUME NEW h, StubOK(h), NEW chunk \in Seq(Records), Range(chunk) \subseteq Range(h)
    PROVE  TakesAll(h, chunk)
  <1>1. PICK c \in Nat : c = Len(chunk)
    OBVIOUS
  <1>2. PICK b : b = AllOf(h, chunk)
    OBVIOUS
  <1>3. b[0] = h /\ \A n \in 1..c : b[n] = Stored(b[n - 1], chunk[n])
    <2>1. Grows(b, h, chunk)
      BY <1>2, AllOfGrows
    <2>. QED BY <1>1, <2>1 DEF Grows
  <1>4. \A n \in 1..c : chunk[n] \in Range(h)
    <2>. TAKE n \in 1..c
    <2>1. n \in DOMAIN chunk
      BY <1>1
    <2>. QED BY <2>1 DEF Range
  <1>. DEFINE Good == {n \in 0..c : b[n] = h}
  <1>5. 0 \in Good
    BY <1>3
  <1>6. \A n \in 1..c : n - 1 \in Good => n \in Good
    <2>. TAKE n \in 1..c
    <2>. HAVE n - 1 \in Good
    <2>. QED BY <1>3, <1>4, HeldIsAccepted
  <1>7. \A n \in 0..c : n \in Good
    <2>. HIDE DEF Good
    <2>. QED BY <1>5, <1>6, UpTo
  <1>8. \A n \in 1..c : b[n - 1] = h
    BY <1>7
  <1>. QED BY <1>1, <1>2, <1>4, <1>8, HeldIsAccepted DEF TakesAll

(* A request that is refused whole goes on being refused.                   *)
LEMMA RefusedWholeForGood ==
    ASSUME NEW h, StubOK(h), NEW g, StubOK(g), Extends(g, h),
           NEW chunk \in Seq(Records), TakesAll(g, chunk)
    PROVE  TakesAll(h, chunk)
  <1>1. PICK c \in Nat : c = Len(chunk)
    OBVIOUS
  <1>2. PICK a : a = AllOf(g, chunk)
    OBVIOUS
  <1>3. PICK b : b = AllOf(h, chunk)
    OBVIOUS
  <1>4. /\ a[0] = g /\ \A n \in 1..c : a[n] = Stored(a[n - 1], chunk[n])
        /\ \A n \in 0..c : StubOK(a[n])
    <2>1. Grows(a, g, chunk)
      BY <1>2, AllOfGrows
    <2>. QED BY <1>1, <2>1 DEF Grows
  <1>5. /\ b[0] = h /\ \A n \in 1..c : b[n] = Stored(b[n - 1], chunk[n])
        /\ \A n \in 0..c : StubOK(b[n])
    <2>1. Grows(b, h, chunk)
      BY <1>3, AllOfGrows
    <2>. QED BY <1>1, <2>1 DEF Grows
  <1>6. \A n \in 1..c : Accepts(a[n - 1], chunk[n]) /\ chunk[n] \in Records
    BY <1>1, <1>2 DEF TakesAll
  <1>. DEFINE Good == {n \in 0..c : Extends(a[n], b[n])}
  <1>7. 0 \in Good
    BY <1>4, <1>5
  <1>8. \A n \in 1..c : n - 1 \in Good => n \in Good /\ Accepts(b[n - 1], chunk[n])
    <2>. TAKE n \in 1..c
    <2>. HAVE n - 1 \in Good
    <2>1. /\ StubOK(a[n - 1]) /\ StubOK(b[n - 1]) /\ Extends(a[n - 1], b[n - 1])
          /\ chunk[n] \in Records /\ Accepts(a[n - 1], chunk[n])
      BY <1>4, <1>5, <1>6
    <2>2. Accepts(b[n - 1], chunk[n])
      BY <2>1, RefusedForGood
    <2>3. /\ Range(a[n]) = Range(a[n - 1]) \cup {chunk[n]} /\ Extends(a[n], a[n - 1]) /\ StubOK(a[n])
          /\ Range(b[n]) = Range(b[n - 1]) \cup {chunk[n]} /\ StubOK(b[n])
      BY <2>1, <2>2, <1>4, <1>5, StoredIsSound
    <2>4. ASSUME NEW i \in DOMAIN b[n]
          PROVE  i \in DOMAIN a[n] /\ a[n][i] = b[n][i]
      <3>1. PICK r : r = b[n][i] /\ IdOf[r] = i
        BY <2>3 DEF StubOK
      <3>2. r \in Range(a[n])
        <4>1. r \in Range(b[n - 1]) \/ r = chunk[n]
          BY <3>1, <2>3 DEF Range
        <4>2. Range(b[n - 1]) \subseteq Range(a[n - 1])
          BY <2>1 DEF Extends, Range
        <4>. QED BY <4>1, <4>2, <2>3
      <3>3. PICK j \in DOMAIN a[n] : a[n][j] = r
        BY <3>2 DEF Range
      <3>4. j = i
        BY <3>1, <3>3, <2>3 DEF StubOK
      <3>. QED BY <3>1, <3>3, <3>4
    <2>. QED BY <2>2, <2>4 DEF Extends
  <1>9. \A n \in 0..c : n \in Good
    <2>. HIDE DEF Good
    <2>. QED BY <1>7, <1>8, UpTo
  <1>10. \A n \in 1..c : Accepts(b[n - 1], chunk[n])
    <2>. TAKE n \in 1..c
    <2>1. n - 1 \in 0..c
      OBVIOUS
    <2>. HIDE DEF Good
    <2>. QED BY <2>1, <1>8, <1>9
  <1>. QED BY <1>1, <1>3, <1>10 DEF TakesAll

-----------------------------------------------------------------------------
(* The size of a request *)

LEMMA SizesAreNaturals ==
    /\ Framing \in Nat /\ MaxBytes \in Nat
    /\ \A r \in Records : SizeOf[r] \in Nat
  BY SinksAssumption, StubAssumption

(* f[n] is the length of the first n documents of a request, with the frame *)
(* and the commas.                                                          *)
Adds(f, chunk) ==
    /\ f \in [0..Len(chunk) -> Nat]
    /\ f[0] = Framing
    /\ \A n \in 1..Len(chunk) : f[n] = f[n - 1] + SizeOf[chunk[n]] + (IF n = 1 THEN 0 ELSE 1)

LEMMA BodySizeAdds ==
    ASSUME NEW chunk \in Seq(Records)
    PROVE  \E f : Adds(f, chunk) /\ BodySize(chunk) = f[Len(chunk)]
  <1>1. PICK c \in Nat : c = Len(chunk)
    OBVIOUS
  <1>. DEFINE F == [i \in 1..c |-> [s \in Nat |-> s + SizeOf[chunk[i]] + (IF i = 1 THEN 0 ELSE 1)]]
              Unfolds(f) == f = [n \in 0..c |-> IF n = 0 THEN Framing
                                   ELSE f[n - 1] + SizeOf[chunk[n]] + (IF n = 1 THEN 0 ELSE 1)]
  <1>2. \A i \in 1..c : SizeOf[chunk[i]] \in Nat
    BY <1>1, SizesAreNaturals
  <1>3. F \in [1..c -> [Nat -> Nat]]
    BY <1>2
  <1>4. PICK f : Runs(f, F, c, Framing, Nat)
    <2>. HIDE DEF F
    <2>. QED BY <1>3, SizesAreNaturals, RunExists
  <1>5. f \in [0..c -> Nat] /\ f[0] = Framing /\ \A i \in 1..c : f[i] = F[i][f[i - 1]]
    <2>. HIDE DEF F
    <2>. QED BY <1>4 DEF Runs
  <1>6. \A i \in 1..c : f[i] = f[i - 1] + SizeOf[chunk[i]] + (IF i = 1 THEN 0 ELSE 1)
    <2>. TAKE i \in 1..c
    <2>1. f[i - 1] \in Nat
      <3>. HIDE DEF F
      <3>. QED BY <1>5
    <2>2. F[i][f[i - 1]] = f[i - 1] + SizeOf[chunk[i]] + (IF i = 1 THEN 0 ELSE 1)
      BY <2>1
    <2>. HIDE DEF F
    <2>. QED BY <2>2, <1>5
  <1>7. Unfolds(f)
    <2>. HIDE DEF F
    <2>1. \A n \in 0..c : f[n] = IF n = 0 THEN Framing
                                 ELSE f[n - 1] + SizeOf[chunk[n]] + (IF n = 1 THEN 0 ELSE 1)
      <3>. TAKE n \in 0..c
      <3>1. n = 0 \/ n \in 1..c
        OBVIOUS
      <3>. QED BY <3>1, <1>5, <1>6
    <2>. QED BY <2>1, <1>5
  <1>. DEFINE b == CHOOSE g : Unfolds(g)
  <1>8. Unfolds(b)
    <2>. HIDE DEF Unfolds
    <2>. QED BY <1>7
  <1>9. b[c] = BodySize(chunk)
    BY <1>1 DEF BodySize
  <1>. HIDE DEF b
  <1>10. b[0] = Framing /\ b = [n \in 0..c |-> b[n]]
    BY <1>8
  <1>11. ASSUME NEW n \in 1..c
         PROVE  b[n] = b[n - 1] + SizeOf[chunk[n]] + (IF n = 1 THEN 0 ELSE 1)
    <2>1. n \in 0..c /\ n # 0
      OBVIOUS
    <2>. QED BY <2>1, <1>8
  <1>12. \A n \in 0..c : b[n] \in Nat
    <2>. DEFINE Good == {n \in 0..c : b[n] \in Nat}
    <2>1. 0 \in Good
      BY <1>10, SizesAreNaturals
    <2>2. \A n \in 1..c : n - 1 \in Good => n \in Good
      BY <1>2, <1>11
    <2>. HIDE DEF Good
    <2>3. \A n \in 0..c : n \in Good
      BY <2>1, <2>2, UpTo
    <2>. QED BY <2>3 DEF Good
  <1>13. b \in [0..c -> Nat]
    BY <1>10, <1>12
  <1>. QED BY <1>1, <1>9, <1>10, <1>11, <1>13 DEF Adds

LEMMA SizeOfNothing == BodySize(<<>>) = Framing
  <1>1. <<>> \in Seq(Records) /\ Len(<<>>) = 0
    OBVIOUS
  <1>2. PICK f : Adds(f, <<>>) /\ BodySize(<<>>) = f[Len(<<>>)]
    BY <1>1, BodySizeAdds
  <1>. QED BY <1>1, <1>2 DEF Adds

(* A document adds its cost: itself, and a comma behind another.            *)
LEMMA SizeOfAppend ==
    ASSUME NEW chunk \in Seq(Records), NEW r \in Records
    PROVE  BodySize(Append(chunk, r)) = BodySize(chunk) + Cost(r, chunk)
  <1>1. PICK c \in Nat : c = Len(chunk)
    OBVIOUS
  <1>2. PICK d \in Seq(Records) : d = Append(chunk, r)
    <2>1. Append(chunk, r) \in Seq(Records)
      OBVIOUS
    <2>. QED BY <2>1
  <1>3. Len(d) = c + 1 /\ d[c + 1] = r /\ \A i \in 1..c : d[i] = chunk[i]
    BY <1>1, <1>2
  <1>4. PICK f : Adds(f, chunk) /\ BodySize(chunk) = f[c]
    BY <1>1, BodySizeAdds
  <1>5. PICK g : Adds(g, d) /\ BodySize(d) = g[c + 1]
    BY <1>3, BodySizeAdds
  <1>6. f[0] = Framing /\ \A n \in 1..c : f[n] = f[n - 1] + SizeOf[chunk[n]] + (IF n = 1 THEN 0 ELSE 1)
    BY <1>1, <1>4 DEF Adds
  <1>7. g[0] = Framing /\ \A n \in 1..(c + 1) : g[n] = g[n - 1] + SizeOf[d[n]] + (IF n = 1 THEN 0 ELSE 1)
    BY <1>3, <1>5 DEF Adds
  <1>. DEFINE Good == {n \in 0..c : f[n] = g[n]}
  <1>8. 0 \in Good
    BY <1>6, <1>7
  <1>9. \A n \in 1..c : n - 1 \in Good => n \in Good
    <2>. TAKE n \in 1..c
    <2>. HAVE n - 1 \in Good
    <2>1. n \in 1..(c + 1) /\ d[n] = chunk[n]
      BY <1>3
    <2>. QED BY <2>1, <1>6, <1>7
  <1>10. c \in Good
    <2>1. c \in 0..c
      OBVIOUS
    <2>. HIDE DEF Good
    <2>. QED BY <2>1, <1>8, <1>9, UpTo
  <1>11. g[c + 1] = g[c] + SizeOf[r] + (IF c + 1 = 1 THEN 0 ELSE 1)
    <2>1. c + 1 \in 1..(c + 1) /\ c + 1 - 1 = c
      OBVIOUS
    <2>. QED BY <2>1, <1>3, <1>7
  <1>12. c + 1 = 1 <=> chunk = <<>>
    BY <1>1
  <1>13. f[c] \in Nat /\ SizeOf[r] \in Nat
    BY <1>1, <1>4, SizesAreNaturals DEF Adds
  <1>. QED BY <1>2, <1>4, <1>5, <1>10, <1>11, <1>12, <1>13 DEF Cost

LEMMA SizeIsNatural ==
    ASSUME NEW chunk \in Seq(Records)
    PROVE  BodySize(chunk) \in Nat
  <1>1. PICK f : Adds(f, chunk) /\ BodySize(chunk) = f[Len(chunk)]
    BY BodySizeAdds
  <1>2. Len(chunk) \in 0..Len(chunk)
    OBVIOUS
  <1>. QED BY <1>1, <1>2 DEF Adds

-----------------------------------------------------------------------------
(* What is sent of a batch *)

LEMMA RangeOfAppend ==
    ASSUME NEW S, NEW s \in Seq(S), NEW x \in S
    PROVE  Append(s, x) \in Seq(S) /\ Append(s, x) # <<>> /\ Range(Append(s, x)) = Range(s) \cup {x}
  <1>1. PICK c \in Nat : c = Len(s)
    OBVIOUS
  <1>2. Append(s, x) \in Seq(S)
    OBVIOUS
  <1>3. PICK d \in Seq(S) : d = Append(s, x)
    BY <1>2
  <1>4. DOMAIN s = 1..c /\ DOMAIN d = 1..(c + 1) /\ d[c + 1] = x /\ \A i \in 1..c : d[i] = s[i]
    BY <1>1, <1>3
  <1>5. Range(d) = Range(s) \cup {x}
    BY <1>4 DEF Range
  <1>6. d # <<>>
    BY <1>4
  <1>. QED BY <1>3, <1>5, <1>6

(* The documents Lawang does not refuse, in a sequence.                     *)
LEMMA SendableIsTheRest ==
    ASSUME NEW sink, NEW batch \in Seq(Records)
    PROVE  /\ Sendable(sink, batch) \in Seq(Records)
           /\ Range(Sendable(sink, batch)) = {r \in Range(batch) : ~ Unsendable(sink, r)}
  <1>1. PICK c \in Nat : c = Len(batch)
    OBVIOUS
  <1>. DEFINE St == Seq(Records)
              F == [i \in 1..c |-> [s \in St |-> IF Unsendable(sink, batch[i]) THEN s ELSE Append(s, batch[i])]]
              Unfolds(f) == f = [n \in 0..c |-> IF n = 0 THEN <<>>
                                   ELSE IF Unsendable(sink, batch[n]) THEN f[n - 1]
                                   ELSE Append(f[n - 1], batch[n])]
  <1>2. F \in [1..c -> [St -> St]] /\ <<>> \in St
    <2>1. \A i \in 1..c : batch[i] \in Records
      BY <1>1
    <2>2. \A i \in 1..c, s \in St : Append(s, batch[i]) \in St
      BY <2>1
    <2>3. \A i \in 1..c, s \in St : (IF Unsendable(sink, batch[i]) THEN s ELSE Append(s, batch[i])) \in St
      BY <2>2
    <2>4. <<>> \in St
      OBVIOUS
    <2>. HIDE DEF St
    <2>. QED BY <2>3, <2>4
  <1>3. PICK f : Runs(f, F, c, <<>>, St)
    <2>. HIDE DEF F, St
    <2>. QED BY <1>2, RunExists
  <1>4. f \in [0..c -> St] /\ f[0] = <<>> /\ \A i \in 1..c : f[i] = F[i][f[i - 1]]
    <2>. HIDE DEF F, St
    <2>. QED BY <1>3 DEF Runs
  <1>5. \A i \in 1..c : f[i] = IF Unsendable(sink, batch[i]) THEN f[i - 1] ELSE Append(f[i - 1], batch[i])
    <2>. TAKE i \in 1..c
    <2>1. f[i - 1] \in St
      <3>. HIDE DEF F, St
      <3>. QED BY <1>4
    <2>2. F[i][f[i - 1]] = IF Unsendable(sink, batch[i]) THEN f[i - 1] ELSE Append(f[i - 1], batch[i])
      <3>. HIDE DEF St
      <3>. QED BY <2>1
    <2>. HIDE DEF F, St
    <2>. QED BY <2>2, <1>4
  <1>6. Unfolds(f)
    <2>1. \A n \in 0..c : f[n] = IF n = 0 THEN <<>>
                                 ELSE IF Unsendable(sink, batch[n]) THEN f[n - 1]
                                 ELSE Append(f[n - 1], batch[n])
      <3>. TAKE n \in 0..c
      <3>1. n = 0 \/ n \in 1..c
        OBVIOUS
      <3>. HIDE DEF F, St
      <3>. QED BY <3>1, <1>4, <1>5
    <2>. HIDE DEF F, St
    <2>. QED BY <2>1, <1>4
  <1>. DEFINE b == CHOOSE g : Unfolds(g)
  <1>7. Unfolds(b)
    <2>. HIDE DEF Unfolds
    <2>. QED BY <1>6
  <1>8. b[c] = Sendable(sink, batch)
    BY <1>1 DEF Sendable
  <1>. HIDE DEF b
  <1>9. b[0] = <<>>
    BY <1>7
  <1>10. ASSUME NEW n \in 1..c
         PROVE  b[n] = IF Unsendable(sink, batch[n]) THEN b[n - 1] ELSE Append(b[n - 1], batch[n])
    <2>1. n \in 0..c /\ n # 0
      OBVIOUS
    <2>. QED BY <2>1, <1>7
  <1>. DEFINE Rest(n) == {r \in {batch[i] : i \in 1..n} : ~ Unsendable(sink, r)}
              Good == {n \in 0..c : b[n] \in Seq(Records) /\ Range(b[n]) = Rest(n)}
  <1>11. 0 \in Good
    <2>1. <<>> \in Seq(Records) /\ DOMAIN <<>> = {} /\ 1..0 = {}
      OBVIOUS
    <2>2. Range(<<>>) = {}
      BY <2>1 DEF Range
    <2>3. Rest(0) = {}
      BY <2>1
    <2>4. b[0] \in Seq(Records) /\ Range(b[0]) = Rest(0)
      <3>. HIDE DEF Rest
      <3>. QED BY <2>1, <2>2, <2>3, <1>9
    <2>5. 0 \in 0..c
      OBVIOUS
    <2>. HIDE DEF Rest
    <2>. QED BY <2>4, <2>5
  <1>12. \A n \in 1..c : n - 1 \in Good => n \in Good
    <2>. TAKE n \in 1..c
    <2>. HAVE n - 1 \in Good
    <2>1. b[n - 1] \in Seq(Records) /\ Range(b[n - 1]) = Rest(n - 1) /\ batch[n] \in Records
      BY <1>1
    <2>2. {batch[i] : i \in 1..n} = {batch[i] : i \in 1..(n - 1)} \cup {batch[n]}
      OBVIOUS
    <2>3. CASE Unsendable(sink, batch[n])
      BY <2>1, <2>2, <2>3, <1>10
    <2>4. CASE ~ Unsendable(sink, batch[n])
      <3>1. b[n] = Append(b[n - 1], batch[n])
        BY <2>4, <1>10
      <3>2. b[n] \in Seq(Records)
        BY <3>1, <2>1
      <3>3. Range(b[n]) = Range(b[n - 1]) \cup {batch[n]}
        BY <3>1, <2>1, RangeOfAppend
      <3>4. Rest(n) = Rest(n - 1) \cup {batch[n]}
        BY <2>2, <2>4
      <3>. QED BY <2>1, <3>2, <3>3, <3>4
    <2>. QED BY <2>3, <2>4
  <1>13. c \in Good
    <2>1. c \in 0..c
      OBVIOUS
    <2>. HIDE DEF Good
    <2>. QED BY <2>1, <1>11, <1>12, UpTo
  <1>14. Range(batch) = {batch[i] : i \in 1..c}
    BY <1>1 DEF Range
  <1>. QED BY <1>8, <1>13, <1>14

-----------------------------------------------------------------------------
(* The requests of a batch *)

(* The documents of some requests.                                          *)
Docs(S) == UNION {Range(d) : d \in S}

LEMMA DocsWithOne ==
    ASSUME NEW S, NEW x
    PROVE  Docs(S \cup {x}) = Docs(S) \cup Range(x)
  <1>1. \A e : e \in Docs(S \cup {x}) <=> \E d \in S \cup {x} : e \in Range(d)
    BY DEF Docs
  <1>2. \A e : e \in Docs(S) <=> \E d \in S : e \in Range(d)
    BY DEF Docs
  <1>. QED BY <1>1, <1>2

LEMMA DocsOfOne ==
    ASSUME NEW S, NEW d \in S
    PROVE  Range(d) \subseteq Docs(S)
  BY DEF Docs

LEMMA DocsOfNone == Docs({}) = {}
  BY DEF Docs

(* What the loop of Deliver has made of the documents in seen: the chunk it *)
(* fills, with the size it has counted, and the requests flushed before.    *)
Built(b, seen) ==
    /\ b \in [chunk : Seq(Records), size : Nat, sent : Seq(Seq(Records))]
    /\ b.size = BodySize(b.chunk)
    /\ b.chunk # <<>> => b.size <= MaxBytes
    /\ \A d \in Range(b.sent) : d # <<>> /\ BodySize(d) <= MaxBytes
    /\ Range(b.chunk) \cup Docs(Range(b.sent)) = seen

LEMMA RangeOfNothing == <<>> \in Seq(Records) /\ <<>> \in Seq(Seq(Records)) /\ Range(<<>>) = {}
  <1>1. DOMAIN <<>> = {}
    OBVIOUS
  <1>. QED BY <1>1 DEF Range

LEMMA NothingBuilt == Built(NewChunk, {})
  BY RangeOfNothing, DocsOfNone, SizeOfNothing, SizesAreNaturals DEF Built, NewChunk

(* What is flushed at the end are the requests of all the documents.        *)
LEMMA FlushedIsSent ==
    ASSUME NEW b, NEW seen, Built(b, seen)
    PROVE  /\ Flushed(b) \in Seq(Seq(Records))
           /\ \A d \in Range(Flushed(b)) : d \in Seq(Records) /\ d # <<>> /\ BodySize(d) <= MaxBytes
           /\ Docs(Range(Flushed(b))) = seen
  <1>1. /\ b.chunk \in Seq(Records) /\ b.sent \in Seq(Seq(Records))
        /\ b.chunk # <<>> => BodySize(b.chunk) <= MaxBytes
        /\ \A d \in Range(b.sent) : d # <<>> /\ BodySize(d) <= MaxBytes
        /\ Range(b.chunk) \cup Docs(Range(b.sent)) = seen
    BY DEF Built
  <1>2. \A d \in Range(b.sent) : d \in Seq(Records)
    <2>1. PICK s \in Seq(Seq(Records)) : s = b.sent
      BY <1>1
    <2>2. \A i \in DOMAIN s : s[i] \in Seq(Records)
      BY <2>1
    <2>. QED BY <2>1, <2>2 DEF Range
  <1>3. CASE b.chunk = <<>>
    <2>1. Flushed(b) = b.sent
      BY <1>3 DEF Flushed
    <2>2. Range(b.chunk) = {}
      BY <1>3, RangeOfNothing
    <2>. QED BY <2>1, <2>2, <1>1, <1>2
  <1>4. CASE b.chunk # <<>>
    <2>1. Flushed(b) = Append(b.sent, b.chunk)
      BY <1>4 DEF Flushed
    <2>2. Flushed(b) \in Seq(Seq(Records)) /\ Range(Flushed(b)) = Range(b.sent) \cup {b.chunk}
      BY <2>1, <1>1, RangeOfAppend
    <2>3. Docs(Range(Flushed(b))) = seen
      <3>1. Docs(Range(b.sent) \cup {b.chunk}) = Docs(Range(b.sent)) \cup Range(b.chunk)
        BY DocsWithOne
      <3>. QED BY <3>1, <2>2, <1>1
    <2>. QED BY <2>2, <2>3, <1>1, <1>2, <1>4
  <1>. QED BY <1>3, <1>4

(* A document that fits a request alone is in a request that fits.          *)
LEMMA OneMoreDocument ==
    ASSUME NEW b, NEW seen, Built(b, seen), NEW r \in Records, Framing + SizeOf[r] <= MaxBytes
    PROVE  Built(AddDoc(b, r), seen \cup {r})
  <1>1. /\ b.chunk \in Seq(Records) /\ b.size \in Nat /\ b.sent \in Seq(Seq(Records))
        /\ b.size = BodySize(b.chunk)
        /\ \A d \in Range(b.sent) : d # <<>> /\ BodySize(d) <= MaxBytes
        /\ Range(b.chunk) \cup Docs(Range(b.sent)) = seen
    BY DEF Built
  <1>2. SizeOf[r] \in Nat /\ Framing \in Nat /\ MaxBytes \in Nat
    BY SizesAreNaturals
  <1>3. Cost(r, b.chunk) \in Nat
    BY <1>2 DEF Cost
  <1>4. CASE b.size + Cost(r, b.chunk) > MaxBytes
    <2>1. AddDoc(b, r) = [chunk |-> <<r>>, size |-> Framing + SizeOf[r], sent |-> Flushed(b)]
      BY <1>4 DEF AddDoc
    <2>2. <<r>> = Append(<<>>, r)
      OBVIOUS
    <2>3. <<r>> \in Seq(Records) /\ Range(<<r>>) = {r}
      <3>1. PICK e \in Seq(Records) : e = <<>>
        BY RangeOfNothing
      <3>2. Append(e, r) \in Seq(Records) /\ Range(Append(e, r)) = Range(e) \cup {r}
        BY RangeOfAppend
      <3>3. Range(e) = {}
        BY <3>1, RangeOfNothing
      <3>4. Append(e, r) = <<r>>
        BY <3>1
      <3>. QED BY <3>2, <3>3, <3>4
    <2>4. BodySize(<<r>>) = Framing + SizeOf[r]
      BY <2>2, SizeOfAppend, SizeOfNothing, RangeOfNothing DEF Cost
    <2>5. /\ Flushed(b) \in Seq(Seq(Records))
          /\ \A d \in Range(Flushed(b)) : d # <<>> /\ BodySize(d) <= MaxBytes
          /\ Docs(Range(Flushed(b))) = seen
      BY FlushedIsSent
    <2>6. Framing + SizeOf[r] \in Nat
      BY <1>2
    <2>7. PICK d : d = AddDoc(b, r)
      OBVIOUS
    <2>8. /\ d \in [chunk : Seq(Records), size : Nat, sent : Seq(Seq(Records))]
          /\ d.chunk = <<r>> /\ d.size = Framing + SizeOf[r] /\ d.sent = Flushed(b)
      BY <2>1, <2>3, <2>5, <2>6, <2>7
    <2>9. Range(d.chunk) \cup Docs(Range(d.sent)) = seen \cup {r}
      BY <2>3, <2>5, <2>8
    <2>10. Built(d, seen \cup {r})
      BY <2>4, <2>5, <2>8, <2>9 DEF Built
    <2>. QED BY <2>7, <2>10
  <1>5. CASE ~ (b.size + Cost(r, b.chunk) > MaxBytes)
    <2>1. AddDoc(b, r) = [chunk |-> Append(b.chunk, r), size |-> b.size + Cost(r, b.chunk), sent |-> b.sent]
      BY <1>5 DEF AddDoc
    <2>2. Append(b.chunk, r) \in Seq(Records) /\ Range(Append(b.chunk, r)) = Range(b.chunk) \cup {r}
      BY <1>1, RangeOfAppend
    <2>3. BodySize(Append(b.chunk, r)) = b.size + Cost(r, b.chunk)
      BY <1>1, SizeOfAppend
    <2>4. b.size + Cost(r, b.chunk) \in Nat /\ b.size + Cost(r, b.chunk) <= MaxBytes
      BY <1>1, <1>2, <1>3, <1>5
    <2>5. Range(Append(b.chunk, r)) \cup Docs(Range(b.sent)) = seen \cup {r}
      BY <2>2, <1>1
    <2>. QED BY <2>1, <2>2, <2>3, <2>4, <2>5, <1>1 DEF Built
  <1>. QED BY <1>4, <1>5

(* Deliver sends each document, in requests that fit.                       *)
LEMMA ChunksFit ==
    ASSUME NEW docs \in Seq(Records), \A r \in Range(docs) : Framing + SizeOf[r] <= MaxBytes
    PROVE  /\ Chunks(docs) \in Seq(Seq(Records))
           /\ \A d \in Range(Chunks(docs)) : d \in Seq(Records) /\ d # <<>> /\ BodySize(d) <= MaxBytes
           /\ Docs(Range(Chunks(docs))) = Range(docs)
  <1>1. PICK c \in Nat : c = Len(docs)
    OBVIOUS
  <1>2. \A i \in 1..c : docs[i] \in Records /\ Framing + SizeOf[docs[i]] <= MaxBytes
    BY <1>1 DEF Range
  <1>. DEFINE St == {b \in [chunk : Seq(Records), size : Nat, sent : Seq(Seq(Records))] :
                        \E seen : Built(b, seen)}
              F == [i \in 1..c |-> [b \in St |-> AddDoc(b, docs[i])]]
              Unfolds(f) == f = [n \in 0..c |-> IF n = 0 THEN NewChunk ELSE AddDoc(f[n - 1], docs[n])]
  <1>3. ASSUME NEW b, NEW seen, Built(b, seen)
        PROVE  b \in St
    BY <1>3 DEF Built
  <1>4. F \in [1..c -> [St -> St]] /\ NewChunk \in St
    <2>1. ASSUME NEW i \in 1..c, NEW b \in St
          PROVE  AddDoc(b, docs[i]) \in St
      <3>1. PICK seen : Built(b, seen)
        OBVIOUS
      <3>2. Built(AddDoc(b, docs[i]), seen \cup {docs[i]})
        BY <3>1, <1>2, OneMoreDocument
      <3>. HIDE DEF St
      <3>. QED BY <3>2, <1>3
    <2>. HIDE DEF St
    <2>2. NewChunk \in St
      BY <1>3, NothingBuilt
    <2>. QED BY <2>1, <2>2
  <1>5. PICK f : Runs(f, F, c, NewChunk, St)
    <2>. HIDE DEF F, St
    <2>. QED BY <1>4, RunExists
  <1>6. f \in [0..c -> St] /\ f[0] = NewChunk /\ \A i \in 1..c : f[i] = F[i][f[i - 1]]
    <2>. HIDE DEF F, St
    <2>. QED BY <1>5 DEF Runs
  <1>7. \A i \in 1..c : f[i] = AddDoc(f[i - 1], docs[i])
    <2>. TAKE i \in 1..c
    <2>1. f[i - 1] \in St
      <3>. HIDE DEF F, St
      <3>. QED BY <1>6
    <2>2. F[i][f[i - 1]] = AddDoc(f[i - 1], docs[i])
      <3>. HIDE DEF St
      <3>. QED BY <2>1
    <2>. HIDE DEF F, St
    <2>. QED BY <2>2, <1>6
  <1>8. Unfolds(f)
    <2>. HIDE DEF F, St
    <2>1. \A n \in 0..c : f[n] = IF n = 0 THEN NewChunk ELSE AddDoc(f[n - 1], docs[n])
      <3>. TAKE n \in 0..c
      <3>1. n = 0 \/ n \in 1..c
        OBVIOUS
      <3>. QED BY <3>1, <1>6, <1>7
    <2>. QED BY <2>1, <1>6
  <1>. DEFINE b == CHOOSE g : Unfolds(g)
  <1>9. Unfolds(b)
    <2>. HIDE DEF Unfolds
    <2>. QED BY <1>8
  <1>10. Chunks(docs) = Flushed(b[c])
    BY <1>1 DEF Chunks
  <1>. HIDE DEF b
  <1>11. b[0] = NewChunk
    BY <1>9
  <1>12. ASSUME NEW n \in 1..c
         PROVE  b[n] = AddDoc(b[n - 1], docs[n])
    <2>1. n \in 0..c /\ n # 0
      OBVIOUS
    <2>. QED BY <2>1, <1>9
  <1>. DEFINE Good == {n \in 0..c : Built(b[n], {docs[i] : i \in 1..n})}
  <1>13. 0 \in Good
    <2>1. {docs[i] : i \in 1..0} = {}
      OBVIOUS
    <2>2. Built(b[0], {})
      BY <1>11, NothingBuilt
    <2>3. Built(b[0], {docs[i] : i \in 1..0})
      BY <2>1, <2>2, Zenon
    <2>. QED BY <2>3
  <1>14. \A n \in 1..c : n - 1 \in Good => n \in Good
    <2>. TAKE n \in 1..c
    <2>. HAVE n - 1 \in Good
    <2>1. {docs[i] : i \in 1..n} = {docs[i] : i \in 1..(n - 1)} \cup {docs[n]}
      OBVIOUS
    <2>2. Built(b[n], {docs[i] : i \in 1..(n - 1)} \cup {docs[n]})
      BY <1>2, <1>12, OneMoreDocument
    <2>3. Built(b[n], {docs[i] : i \in 1..n})
      BY <2>1, <2>2, Zenon
    <2>. QED BY <2>3
  <1>15. c \in Good
    <2>1. c \in 0..c
      OBVIOUS
    <2>. HIDE DEF Good
    <2>. QED BY <2>1, <1>13, <1>14, UpTo
  <1>16. Range(docs) = {docs[i] : i \in 1..c}
    BY <1>1 DEF Range
  <1>. QED BY <1>10, <1>15, <1>16, FlushedIsSent

LEMMA HeadAndTail ==
    ASSUME NEW S, NEW s \in Seq(S), s # <<>>
    PROVE  Head(s) \in S /\ Tail(s) \in Seq(S) /\ Range(s) = Range(Tail(s)) \cup {Head(s)}
  <1>1. PICK c \in Nat : c = Len(s)
    OBVIOUS
  <1>2. Tail(s) \in Seq(S)
    OBVIOUS
  <1>3. PICK t \in Seq(S) : t = Tail(s)
    BY <1>2
  <1>4. c \in 1..c /\ DOMAIN s = 1..c /\ Head(s) = s[1]
    BY <1>1
  <1>5. DOMAIN t = 1..(c - 1) /\ \A i \in 1..(c - 1) : t[i] = s[i + 1]
    BY <1>1, <1>3, <1>4
  <1>6. Range(s) = Range(t) \cup {Head(s)}
    <2>1. ASSUME NEW x \in Range(s)
          PROVE  x \in Range(t) \cup {Head(s)}
      <3>1. PICK i \in 1..c : s[i] = x
        BY <1>4 DEF Range
      <3>2. CASE i = 1
        BY <3>1, <3>2, <1>4
      <3>3. CASE i # 1
        <4>1. i - 1 \in 1..(c - 1) /\ i - 1 + 1 = i
          BY <3>3
        <4>2. t[i - 1] = x /\ i - 1 \in DOMAIN t
          BY <4>1, <3>1, <1>5
        <4>. QED BY <4>2 DEF Range
      <3>. QED BY <3>2, <3>3
    <2>2. ASSUME NEW x \in Range(t)
          PROVE  x \in Range(s)
      <3>1. PICK i \in 1..(c - 1) : t[i] = x
        BY <1>5 DEF Range
      <3>2. i + 1 \in 1..c /\ s[i + 1] = x
        BY <3>1, <1>5
      <3>. QED BY <3>2, <1>4 DEF Range
    <2>3. Head(s) \in Range(s)
      <3>1. 1 \in 1..c
        BY <1>4
      <3>. QED BY <3>1, <1>4 DEF Range
    <2>. QED BY <2>1, <2>2, <2>3
  <1>7. Head(s) \in S
    OBVIOUS
  <1>. QED BY <1>3, <1>6, <1>7

LEMMA RangeOfDocs ==
    ASSUME NEW S, NEW s \in Seq(S)
    PROVE  /\ Range(s) \subseteq S /\ IsFiniteSet(Range(s))
           /\ s # <<>> => Range(s) # {}
  <1>1. PICK c \in Nat : c = Len(s)
    OBVIOUS
  <1>2. DOMAIN s = 1..c /\ \A i \in 1..c : s[i] \in S
    BY <1>1
  <1>3. Range(s) \subseteq S
    BY <1>2 DEF Range
  <1>4. ASSUME s # <<>>
        PROVE  Range(s) # {}
    <2>1. 1 \in 1..c
      BY <1>1, <1>4
    <2>. QED BY <2>1, <1>2 DEF Range
  <1>5. IsFiniteSet(1..c)
    BY FS_Interval
  <1>6. s \in Surjection(1..c, Range(s))
    <2>1. s \in [1..c -> Range(s)]
      BY <1>1, <1>2 DEF Range
    <2>2. \A t \in Range(s) : \E i \in 1..c : s[i] = t
      BY <1>2 DEF Range
    <2>. QED BY <2>1, <2>2 DEF Surjection
  <1>7. IsFiniteSet(Range(s))
    BY <1>5, <1>6, FS_Surjection
  <1>. QED BY <1>3, <1>4, <1>7

(* What a receiver names of what it refused, in the order of its answer.    *)
LEMMA RangeOfAnswer ==
    ASSUME NEW S, IsFiniteSet(S)
    PROVE  Range(SetToSeq(S)) = S /\ IsInjective(SetToSeq(S))
  <1>1. PICK n \in Nat : n = Cardinality(S)
    BY FS_CardinalityType
  <1>2. ExistsBijection(1..n, S)
    BY <1>1, FS_CardinalityType
  <1>3. PICK f : f \in Bijection(1..n, S)
    BY <1>2 DEF ExistsBijection
  <1>4. f \in [1..n -> S] /\ IsInjective(f)
    BY <1>3 DEF Bijection, Injection, IsInjective
  <1>5. SetToSeq(S) \in [1..n -> S] /\ IsInjective(SetToSeq(S))
    BY <1>1, <1>4 DEF SetToSeq
  <1>6. IsFiniteSet(1..n) /\ Cardinality(1..n) = n
    BY FS_Interval
  <1>7. SetToSeq(S) \in Injection(1..n, S)
    BY <1>5 DEF Injection, IsInjective
  <1>8. SetToSeq(S) \in Surjection(1..n, S)
    BY <1>1, <1>6, <1>7, FS_Injection
  <1>9. Range(SetToSeq(S)) = S
    BY <1>5, <1>8 DEF Surjection, Range
  <1>. QED BY <1>5, <1>9

-----------------------------------------------------------------------------
(* What a batch and a request are *)

(* Two documents of it with one id are one document.                        *)
OneEach(S) == \A r, s \in S : IdOf[r] = IdOf[s] => r = s

BatchIs(b) ==
    /\ b \in Seq(Records) /\ Range(b) \subseteq Records /\ Range(b) # {}
    /\ OneEach(Range(b))

LEMMA EveryBatch ==
    ASSUME NEW b \in Batches
    PROVE  BatchIs(b)
  <1>1. /\ b \in Seq(Records) /\ b # <<>>
        /\ \A i, j \in DOMAIN b : IdOf[b[i]] = IdOf[b[j]] => i = j
    BY SinksAssumption
  <1>2. OneEach(Range(b))
    <2>1. ASSUME NEW r \in Range(b), NEW s \in Range(b), IdOf[r] = IdOf[s]
          PROVE  r = s
      <3>1. PICK i \in DOMAIN b : b[i] = r
        BY DEF Range
      <3>2. PICK j \in DOMAIN b : b[j] = s
        BY DEF Range
      <3>. QED BY <1>1, <2>1, <3>1, <3>2
    <2>. QED BY <2>1 DEF OneEach
  <1>3. Range(b) \subseteq Records /\ Range(b) # {}
    BY <1>1, RangeOfDocs
  <1>. QED BY <1>1, <1>2, <1>3 DEF BatchIs

RequestIs(c) ==
    /\ c \in Seq(Records) /\ Range(c) \subseteq Records /\ Range(c) # {} /\ IsFiniteSet(Range(c))
    /\ c # <<>> /\ BodySize(c) <= MaxBytes
    /\ (\A r \in Range(c) : ~ Unsendable("http", r)) /\ OneEach(Range(c))

(* The requests of a batch carry all of it that Lawang does not refuse.     *)
LEMMA ChunksOfBatch ==
    ASSUME NEW b \in Batches, NEW cs, cs = Chunks(Sendable("http", b))
    PROVE  /\ cs \in Seq(Requests)
           /\ \A c \in Range(cs) : RequestIs(c)
           /\ Docs(Range(cs)) = {r \in Range(b) : ~ Unsendable("http", r)}
  <1>1. BatchIs(b)
    BY EveryBatch
  <1>2. PICK docs : docs = Sendable("http", b)
    OBVIOUS
  <1>3. docs \in Seq(Records) /\ Range(docs) = {r \in Range(b) : ~ Unsendable("http", r)}
    BY <1>1, <1>2, SendableIsTheRest DEF BatchIs
  <1>4. \A r \in Range(docs) : Framing + SizeOf[r] <= MaxBytes
    <2>. TAKE r \in Range(docs)
    <2>1. ~ Unsendable("http", r) /\ r \in Records
      BY <1>1, <1>3 DEF BatchIs
    <2>. QED BY <2>1, SizesAreNaturals DEF Unsendable
  <1>5. /\ cs \in Seq(Seq(Records))
        /\ \A d \in Range(cs) : d \in Seq(Records) /\ d # <<>> /\ BodySize(d) <= MaxBytes
        /\ Docs(Range(cs)) = Range(docs)
    BY <1>2, <1>3, <1>4, ChunksFit
  <1>6. \A c \in Range(cs) : c \in Requests
    BY <1>2, Zenon DEF Requests
  <1>7. cs \in Seq(Requests)
    <2>1. PICK n \in Nat : n = Len(cs)
      BY <1>5
    <2>2. cs = [i \in 1..n |-> cs[i]]
      BY <1>5, <2>1
    <2>3. \A i \in 1..n : cs[i] \in Requests
      BY <1>6, <2>2 DEF Range
    <2>4. cs \in [1..n -> Requests]
      BY <2>2, <2>3
    <2>. QED BY <2>4, SeqDef
  <1>8. ASSUME NEW c \in Range(cs)
        PROVE  RequestIs(c)
    <2>1. c \in Seq(Records) /\ c # <<>> /\ BodySize(c) <= MaxBytes
      BY <1>5
    <2>2. Range(c) \subseteq Range(docs)
      BY <1>5, DocsOfOne
    <2>3. Range(c) \subseteq Range(b) /\ \A r \in Range(c) : ~ Unsendable("http", r)
      BY <2>2, <1>3
    <2>4. OneEach(Range(c))
      BY <2>3, <1>1 DEF OneEach, BatchIs
    <2>5. Range(c) \subseteq Records /\ Range(c) # {} /\ IsFiniteSet(Range(c))
      BY <2>1, RangeOfDocs
    <2>. QED BY <2>1, <2>3, <2>4, <2>5 DEF RequestIs
  <1>. QED BY <1>3, <1>5, <1>7, <1>8

LEMMA EveryRequest ==
    ASSUME NEW c \in Requests
    PROVE  RequestIs(c)
  <1>1. PICK b \in Batches : c \in Range(Chunks(Sendable("http", b)))
    BY Zenon DEF Requests
  <1>. QED BY <1>1, ChunksOfBatch

-----------------------------------------------------------------------------
(* What holds in every state *)

(* What a call has still to send, to hand over or to write.                 *)
Left(c) ==
    IF c.at \in {"send", "wait"} THEN Docs(Range(c.todo)) ELSE Range(c.todo)

(* Each record of the batch is refused, held or still to come.              *)
Covered(c, held) ==
    /\ Range(c.batch) \subseteq c.rejected \cup held \cup Left(c)
    /\ Left(c) \subseteq Range(c.batch)

(* A call of Deliver that has begun with a batch it was given.              *)
Begun(c, g) ==
    /\ c = [at |-> c.at, batch |-> c.batch, todo |-> c.todo, rejected |-> c.rejected]
    /\ c.batch \in Batches /\ Range(c.batch) \subseteq g
    /\ c.rejected \subseteq Range(c.batch)

Preparing(c, k) ==
    /\ \/ c.at = "token" /\ k = "http"
       \/ c.at = "marshal" /\ k \in {"http", "jsonl"}
    /\ c.rejected = {}

Sending(c, k, held) ==
    /\ c.at \in {"send", "wait"} /\ k = "http"
    /\ c.todo \in Seq(Requests) /\ (c.at = "wait" => c.todo # <<>>)
    /\ Covered(c, held)

Feeding(c, k, held) ==
    /\ c.at = "stub" /\ k = "stub"
    /\ c.todo \in Seq(Records) /\ Covered(c, held)

Writing(c, k, held) ==
    /\ c.at = "write" /\ k = "jsonl"
    /\ c.todo \in Seq(Records) /\ Covered(c, held)
    /\ \A r \in Range(c.todo) : ~ Unsendable(k, r)

Failed(c, k) == c.at = "failed" /\ k = "jsonl"

CallOK(c, k, g, held) ==
    \/ c = NoCall
    \/ /\ Begun(c, g)
       /\ Preparing(c, k) \/ Sending(c, k, held) \/ Feeding(c, k, held)
             \/ Writing(c, k, held) \/ Failed(c, k)

(* A request, of which the receiver has looked at the first records.        *)
RequestOK(q, g, h) ==
    /\ q = [to |-> q.to, chunk |-> q.chunk, done |-> q.done, refused |-> q.refused]
    /\ q.to \in Workers \cup {Nobody}
    /\ q.chunk \in Requests /\ Range(q.chunk) \subseteq g
    /\ q.done \in 0..Len(q.chunk)
    /\ q.refused \subseteq Range(q.chunk)
    /\ \A i \in 1..q.done : q.chunk[i] \in q.refused \cup Range(h)

(* The call that waits for the answer of a request.                         *)
Awaits(c, q) == c.at = "wait" /\ Head(c.todo) = q.chunk

(* The documents behind a truncated line, and a truncated line, each took a *)
(* failed write.                                                            *)
FileOK(f, n) ==
    /\ f = [lines |-> f.lines, spoiled |-> f.spoiled, torn |-> f.torn]
    /\ f.torn \in BOOLEAN
    /\ IsFiniteSet(f.spoiled)
    /\ Cardinality(f.spoiled) + (IF f.torn THEN 1 ELSE 0) <= n

Configured ==
    /\ kind \in {"http", "stub", "jsonl"} /\ style \in {"list", "whole"}
    /\ kind # "http" => style = "list"
    /\ faults \in Nat

CallsOK ==
    /\ call = [w \in Workers |-> call[w]]
    /\ \A w \in Workers : CallOK(call[w], kind, given, Held)

WireOK ==
    /\ \A q \in wire : RequestOK(q, given, stub) /\ (q.to # Nobody => Awaits(call[q.to], q))
    /\ \A p, q \in wire : p.to = q.to /\ p.to # Nobody => p = q
    /\ wire # {} => kind = "http"

HeldOK ==
    /\ StubOK(stub) /\ FileOK(file, faults)
    /\ kind = "jsonl" => stub = << >>
    /\ kind # "jsonl" => file = EmptyFile
    /\ Held \subseteq given /\ (\A r \in Held : ~ Unsendable(kind, r))
    /\ delivered \subseteq Held

SinkInv == Configured /\ CallsOK /\ WireOK /\ HeldOK

(* What was refused is refused for good, by Lawang or by the receiver.      *)
ForGood(r) ==
    \/ Unsendable(kind, r)
    \/ style = "list" /\ kind # "jsonl" /\ ~ Accepts(stub, r)
    \/ style = "whole" /\ \E c \in Requests : r \in Range(c) /\ ~ TakesAll(stub, c)

(* A request that is answered with a 422 was refused whole, and one of which*)
(* a record is held was taken whole.                                        *)
RefusedInv ==
    /\ given \subseteq Records
    /\ refused \subseteq given /\ (\A r \in refused : ForGood(r))
    /\ \A w \in Workers : call[w].rejected \subseteq refused
    /\ \A q \in wire : q.refused \subseteq refused
    /\ style = "whole" => \A q \in wire : q.refused # {} => q.refused = Range(q.chunk)
    /\ style = "whole" =>
          \A c \in Requests : Range(c) \cap Range(stub) # {} => Range(c) \subseteq Range(stub)

LEMMA Places ==
    ASSUME NEW c, NEW k, NEW g, NEW held, CallOK(c, k, g, held)
    PROVE  /\ c.at \in {"idle", "token", "marshal", "send", "wait", "stub", "write", "failed"}
           /\ c.at = "idle" => c = NoCall
           /\ c.at # "idle" => Begun(c, g)
           /\ c.at \in {"token", "marshal"} => Preparing(c, k)
           /\ c.at \in {"send", "wait"} => Sending(c, k, held)
           /\ c.at = "stub" => Feeding(c, k, held)
           /\ c.at = "write" => Writing(c, k, held)
           /\ c.at = "failed" => Failed(c, k)
  <1>1. CASE c = NoCall
    BY <1>1 DEF NoCall
  <1>2. CASE c # NoCall
    BY <1>2 DEF CallOK, Preparing, Sending, Feeding, Writing, Failed
  <1>. QED BY <1>1, <1>2

(* A call loses nothing when more is given and more is held.                *)
LEMMA CallKeeps ==
    ASSUME NEW c, NEW k, NEW g, NEW g2, NEW held, NEW held2,
           g \subseteq g2, held \subseteq held2, CallOK(c, k, g, held)
    PROVE  CallOK(c, k, g2, held2)
  <1>1. Begun(c, g) => Begun(c, g2)
    BY DEF Begun
  <1>2. Covered(c, held) => Covered(c, held2)
    BY DEF Covered
  <1>. QED BY <1>1, <1>2 DEF CallOK, Sending, Feeding, Writing

LEMMA RequestKeeps ==
    ASSUME NEW q, NEW g, NEW g2, NEW h, NEW h2,
           g \subseteq g2, Range(h) \subseteq Range(h2), RequestOK(q, g, h)
    PROVE  RequestOK(q, g2, h2)
  BY DEF RequestOK

LEMMA IdleIsOK ==
    ASSUME NEW k, NEW g, NEW held
    PROVE  CallOK(NoCall, k, g, held)
  BY DEF CallOK

(* One call moves, and it does not wait for an answer.                      *)
LEMMA CallMoves ==
    ASSUME CallsOK, WireOK, NEW w \in Workers, call[w].at # "wait", NEW c,
           call' = [v \in Workers |-> IF v = w THEN c ELSE call[v]],
           wire' = wire, kind' = kind, given \subseteq given', Held \subseteq Held',
           Range(stub) \subseteq Range(stub'),
           CallOK(c, kind, given', Held')
    PROVE  CallsOK' /\ WireOK'
  <1>1. ASSUME NEW v \in Workers
        PROVE  CallOK(call'[v], kind, given', Held')
    <2>1. CASE v = w
      BY <2>1
    <2>2. CASE v # w
      <3>1. call'[v] = call[v] /\ CallOK(call[v], kind, given, Held)
        BY <2>2 DEF CallsOK
      <3>. QED BY <3>1, CallKeeps
    <2>. QED BY <2>1, <2>2
  <1>2. CallsOK'
    BY <1>1 DEF CallsOK
  <1>3. ASSUME NEW q \in wire
        PROVE  RequestOK(q, given', stub') /\ (q.to # Nobody => Awaits(call'[q.to], q))
    <2>1. RequestOK(q, given, stub) /\ (q.to # Nobody => Awaits(call[q.to], q))
      BY DEF WireOK
    <2>2. RequestOK(q, given', stub')
      BY <2>1, RequestKeeps
    <2>3. ASSUME q.to # Nobody
          PROVE  Awaits(call'[q.to], q)
      <3>1. q.to \in Workers /\ q.to # w
        BY <2>1, <2>3 DEF RequestOK, Awaits
      <3>2. call'[q.to] = call[q.to]
        BY <3>1
      <3>. QED BY <2>1, <2>3, <3>2
    <2>. QED BY <2>2, <2>3
  <1>4. WireOK'
    BY <1>3 DEF WireOK
  <1>. QED BY <1>2, <1>4

(* A request is gone, and whoever waited for it has heard of it.            *)
LEMMA RequestEnds ==
    ASSUME CallsOK, WireOK, NEW q \in wire, NEW c, wire' = wire \ {q},
           \/ q.to = Nobody /\ call' = call
           \/ q.to # Nobody /\ call' = [v \in Workers |-> IF v = q.to THEN c ELSE call[v]],
           UNCHANGED <<kind, stub, file, given>>,
           CallOK(c, kind, given, Held)
    PROVE  CallsOK' /\ WireOK'
  <1>1. Held' = Held
    BY DEF Held
  <1>2. \A v \in Workers : CallOK(call'[v], kind, given, Held)
    BY DEF CallsOK
  <1>3. call' = [v \in Workers |-> call'[v]]
    BY DEF CallsOK
  <1>4. CallsOK'
    BY <1>1, <1>2, <1>3 DEF CallsOK
  <1>5. ASSUME NEW p \in wire'
        PROVE  RequestOK(p, given, stub) /\ (p.to # Nobody => Awaits(call'[p.to], p))
    <2>1. p \in wire /\ p # q /\ RequestOK(p, given, stub) /\ (p.to # Nobody => Awaits(call[p.to], p))
      BY DEF WireOK
    <2>2. ASSUME p.to # Nobody
          PROVE  call'[p.to] = call[p.to]
      <3>1. p.to # q.to /\ p.to \in Workers
        BY <2>1, <2>2 DEF WireOK, RequestOK
      <3>. QED BY <3>1
    <2>. QED BY <2>1, <2>2
  <1>6. WireOK'
    BY <1>5 DEF WireOK
  <1>. QED BY <1>4, <1>6

LEMMA HeldStays ==
    ASSUME HeldOK, Configured, UNCHANGED <<kind, stub, file>>, given \subseteq given',
           faults' \in Nat, faults <= faults', delivered' \subseteq Held
    PROVE  HeldOK'
  <1>1. Held' = Held
    BY DEF Held
  <1>2. FileOK(file, faults')
    <2>1. PICK n \in Nat : n = Cardinality(file.spoiled)
      BY FS_CardinalityType DEF HeldOK, FileOK
    <2>. QED BY <2>1 DEF HeldOK, FileOK, Configured
  <1>. QED BY <1>1, <1>2 DEF HeldOK

(* A fault that only its call hears of.                                     *)
LEMMA FaultKeeps ==
    ASSUME SinkInv, NEW w \in Workers, call[w].at # "wait", ReturnFault(w),
           UNCHANGED <<kind, style, stub, wire, file, given>>,
           faults' \in Nat, faults <= faults'
    PROVE  SinkInv'
  <1>1. call' = [v \in Workers |-> IF v = w THEN NoCall ELSE call[v]] /\ delivered' = delivered
    BY DEF ReturnFault, SinkInv, CallsOK
  <1>2. Held' = Held
    BY DEF Held
  <1>3. CallsOK' /\ WireOK'
    <2>1. CallOK(NoCall, kind, given', Held')
      BY IdleIsOK
    <2>. QED BY <1>1, <1>2, <2>1, CallMoves DEF SinkInv
  <1>4. HeldOK'
    BY <1>1, HeldStays DEF SinkInv, HeldOK
  <1>. QED BY <1>3, <1>4 DEF SinkInv, Configured

LEMMA BrokenCounts ==
    ASSUME Configured, Broken
    PROVE  faults' \in Nat /\ faults <= faults' /\ faults' = faults + 1
  BY DEF Configured, Broken

LEMMA DeliverKeeps ==
    ASSUME SinkInv, NEW w \in Workers, NEW batch \in Batches, Deliver(w, batch)
    PROVE  SinkInv'
  <1>. DEFINE at == CASE kind = "http" -> "token" [] kind = "stub" -> "stub" [] OTHER -> "marshal"
              c == [at |-> at, batch |-> batch, todo |-> batch, rejected |-> {}]
  <1>1. /\ call' = [v \in Workers |-> IF v = w THEN c ELSE call[v]]
        /\ call[w].at = "idle" /\ given' = given \cup Range(batch)
        /\ UNCHANGED <<kind, style, stub, wire, file, delivered, faults>>
    BY DEF Deliver, At, SinkInv, CallsOK
  <1>2. Held' = Held
    BY <1>1 DEF Held
  <1>3. /\ kind = "http" => at = "token"
        /\ kind = "stub" => at = "stub"
        /\ kind = "jsonl" => at = "marshal"
    OBVIOUS
  <1>4. CallOK(c, kind, given', Held')
    <2>1. BatchIs(batch)
      BY EveryBatch
    <2>2. Begun(c, given')
      BY <1>1 DEF Begun
    <2>3. CASE kind = "stub"
      <3>1. Left(c) = Range(batch)
        BY <1>3, <2>3 DEF Left
      <3>2. Feeding(c, kind, Held')
        BY <1>3, <2>1, <2>3, <3>1 DEF Feeding, Covered, BatchIs
      <3>. QED BY <2>2, <3>2 DEF CallOK
    <2>4. CASE kind \in {"http", "jsonl"}
      <3>1. Preparing(c, kind)
        BY <1>3, <2>4 DEF Preparing
      <3>. HIDE DEF c
      <3>. QED BY <2>2, <3>1 DEF CallOK
    <2>. QED BY <2>3, <2>4 DEF SinkInv, Configured
  <1>5. CallsOK' /\ WireOK'
    <2>. HIDE DEF c
    <2>. QED BY <1>1, <1>2, <1>4, CallMoves DEF SinkInv
  <1>6. HeldOK'
    BY <1>1, HeldStays DEF SinkInv, HeldOK, Configured
  <1>. QED BY <1>1, <1>5, <1>6 DEF SinkInv, Configured

LEMMA TokenKeeps ==
    ASSUME SinkInv, NEW w \in Workers, Token(w)
    PROVE  SinkInv'
  <1>. DEFINE c == [at |-> "marshal", batch |-> call[w].batch, todo |-> call[w].todo, rejected |-> {}]
  <1>1. CallOK(call[w], kind, given, Held) /\ call[w].at = "token"
    BY DEF SinkInv, CallsOK, Token, At
  <1>2. Begun(call[w], given) /\ Preparing(call[w], kind)
    BY <1>1, Places
  <1>3. /\ call' = [v \in Workers |-> IF v = w THEN c ELSE call[v]]
        /\ UNCHANGED <<kind, style, stub, wire, file, given, delivered, faults>>
    <2>1. [call[w] EXCEPT !.at = "marshal"] = c
      BY <1>2 DEF Begun, Preparing
    <2>. QED BY <2>1 DEF Token, history, counts, SinkInv, CallsOK
  <1>4. CallOK(c, kind, given, Held)
    <2>1. Begun(c, given) /\ Preparing(c, kind)
      BY <1>1, <1>2 DEF Begun, Preparing
    <2>. QED BY <2>1 DEF CallOK
  <1>5. Held' = Held
    BY <1>3 DEF Held
  <1>6. CallsOK' /\ WireOK'
    <2>. HIDE DEF c
    <2>. QED BY <1>1, <1>3, <1>4, <1>5, CallMoves DEF SinkInv
  <1>7. HeldOK'
    BY <1>3, HeldStays DEF SinkInv, HeldOK, Configured
  <1>. QED BY <1>3, <1>6, <1>7 DEF SinkInv, Configured

LEMMA MarshalKeeps ==
    ASSUME SinkInv, NEW w \in Workers, Marshal(w)
    PROVE  SinkInv'
  <1>. DEFINE mine == {r \in Range(call[w].batch) : Unsendable(kind, r)}
              docs == Sendable(kind, call[w].batch)
              todo == IF kind = "http" THEN Chunks(docs) ELSE docs
              at == IF kind = "http" THEN "send" ELSE "write"
              c == [at |-> at, batch |-> call[w].batch, todo |-> todo, rejected |-> mine]
  <1>1. CallOK(call[w], kind, given, Held) /\ call[w].at = "marshal"
    BY DEF SinkInv, CallsOK, Marshal, At
  <1>2. Begun(call[w], given) /\ Preparing(call[w], kind)
    BY <1>1, Places
  <1>3. /\ call' = [v \in Workers |-> IF v = w THEN c ELSE call[v]]
        /\ UNCHANGED <<kind, style, stub, wire, file, given, delivered, faults>>
    <2>1. [call[w] EXCEPT !.rejected = mine, !.todo = todo, !.at = at] = c
      <3>1. PICK b, t, n, x : call[w] = [at |-> x, batch |-> b, todo |-> t, rejected |-> n]
        BY <1>2 DEF Begun
      <3>. HIDE DEF mine, todo, at
      <3>2. PICK d : d = [call[w] EXCEPT !.rejected = mine]
        OBVIOUS
      <3>3. d = [at |-> x, batch |-> b, todo |-> t, rejected |-> mine]
        BY <3>1, <3>2
      <3>4. PICK e : e = [d EXCEPT !.todo = todo]
        OBVIOUS
      <3>5. e = [at |-> x, batch |-> b, todo |-> todo, rejected |-> mine]
        BY <3>3, <3>4
      <3>6. [e EXCEPT !.at = at] = [at |-> at, batch |-> b, todo |-> todo, rejected |-> mine]
        BY <3>5
      <3>7. call[w].batch = b
        BY <3>1
      <3>. QED BY <3>2, <3>4, <3>6, <3>7
    <2>2. call' = [call EXCEPT ![w] = [call[w] EXCEPT !.rejected = mine, !.todo = todo, !.at = at]]
      <3>1. call' = [call EXCEPT ![w].rejected = mine, ![w].todo = todo, ![w].at = at]
        BY Zenon DEF Marshal
      <3>. HIDE DEF mine, todo, at
      <3>. QED BY <3>1 DEF SinkInv, CallsOK
    <2>3. UNCHANGED <<kind, style, stub, wire, file, given, delivered, faults>>
      BY DEF Marshal, counts
    <2>. HIDE DEF c, mine, todo, at
    <2>. QED BY <2>1, <2>2, <2>3 DEF SinkInv, CallsOK
  <1>4. call[w].batch \in Batches /\ BatchIs(call[w].batch)
    BY <1>2, EveryBatch DEF Begun
  <1>5. CallOK(c, kind, given, Held)
    <2>1. Begun(c, given)
      BY <1>2 DEF Begun
    <2>2. CASE kind = "http"
      <3>1. /\ todo \in Seq(Requests)
            /\ Docs(Range(todo)) = {r \in Range(call[w].batch) : ~ Unsendable(kind, r)}
        BY <2>2, <1>4, ChunksOfBatch
      <3>2. Left(c) = {r \in Range(call[w].batch) : ~ Unsendable(kind, r)}
        <4>. HIDE DEF todo
        <4>. QED BY <2>2, <3>1 DEF Left
      <3>3. Sending(c, kind, Held)
        <4>. HIDE DEF todo
        <4>. QED BY <2>2, <3>1, <3>2 DEF Sending, Covered
      <3>. HIDE DEF c
      <3>. QED BY <2>1, <3>3 DEF CallOK
    <2>3. CASE kind = "jsonl"
      <3>1. todo \in Seq(Records) /\ Range(todo) = {r \in Range(call[w].batch) : ~ Unsendable(kind, r)}
        BY <2>3, <1>4, SendableIsTheRest DEF BatchIs
      <3>2. Left(c) = {r \in Range(call[w].batch) : ~ Unsendable(kind, r)}
        <4>. HIDE DEF todo
        <4>. QED BY <2>3, <3>1 DEF Left
      <3>3. Writing(c, kind, Held)
        <4>. HIDE DEF todo
        <4>. QED BY <2>3, <3>1, <3>2 DEF Writing, Covered
      <3>. HIDE DEF c
      <3>. QED BY <2>1, <3>3 DEF CallOK
    <2>. QED BY <2>2, <2>3, <1>2 DEF Preparing
  <1>6. Held' = Held
    BY <1>3 DEF Held
  <1>7. CallsOK' /\ WireOK'
    <2>. HIDE DEF c
    <2>. QED BY <1>1, <1>3, <1>5, <1>6, CallMoves DEF SinkInv
  <1>8. HeldOK'
    <2>. HIDE DEF c
    <2>. QED BY <1>3, HeldStays DEF SinkInv, HeldOK, Configured
  <1>. QED BY <1>3, <1>7, <1>8 DEF SinkInv, Configured

(* A result reports what is held and what was refused.                      *)
LEMMA ResultIsHeld ==
    ASSUME NEW c, NEW k, NEW g, NEW held, CallOK(c, k, g, held),
           c.at \in {"send", "stub", "write"}, c.todo = <<>>
    PROVE  Range(c.batch) \ c.rejected \subseteq held
  <1>1. Covered(c, held)
    BY Places DEF Sending, Feeding, Writing
  <1>2. Left(c) = {}
    BY RangeOfNothing, DocsOfNone DEF Left
  <1>. QED BY <1>1, <1>2 DEF Covered

LEMMA AllDoneKeeps ==
    ASSUME SinkInv, NEW w \in Workers, AllDone(w)
    PROVE  SinkInv'
  <1>1. /\ call' = [v \in Workers |-> IF v = w THEN NoCall ELSE call[v]]
        /\ UNCHANGED <<kind, style, stub, wire, file, given, faults>>
        /\ delivered' = delivered \cup (Range(call[w].batch) \ call[w].rejected)
        /\ call[w].at \in {"send", "stub", "write"} /\ call[w].todo = <<>>
        /\ CallOK(call[w], kind, given, Held)
    BY DEF AllDone, ReturnResult, counts, SinkInv, CallsOK
  <1>2. Held' = Held /\ CallOK(NoCall, kind, given', Held')
    BY <1>1, IdleIsOK DEF Held
  <1>3. CallsOK' /\ WireOK'
    BY <1>1, <1>2, CallMoves DEF SinkInv
  <1>4. Range(call[w].batch) \ call[w].rejected \subseteq Held
    BY <1>1, ResultIsHeld
  <1>5. HeldOK'
    BY <1>1, <1>4, HeldStays DEF SinkInv, HeldOK, Configured
  <1>. QED BY <1>1, <1>3, <1>5 DEF SinkInv, Configured

LEMMA FaultsKeep ==
    ASSUME SinkInv, NEW w \in Workers, NoCredential(w) \/ Crash(w) \/ WriteFault(w)
    PROVE  SinkInv'
  <1>1. faults' \in Nat /\ faults <= faults'
    BY BrokenCounts DEF NoCredential, Crash, WriteFault, counts, SinkInv, Configured
  <1>2. /\ call[w].at # "wait" /\ ReturnFault(w)
        /\ UNCHANGED <<kind, style, stub, wire, file, given>>
    BY DEF NoCredential, Crash, WriteFault, At
  <1>. QED BY <1>1, <1>2, FaultKeeps

(* What the receiver holds grows, and the rest of what is held stays.       *)
LEMMA StubGrows ==
    ASSUME HeldOK, NEW S, UNCHANGED <<kind, file, faults, given, delivered>>,
           StubOK(stub'), Range(stub') = Range(stub) \cup S,
           S \subseteq given, \A r \in S : ~ Unsendable(kind, r), kind # "jsonl"
    PROVE  HeldOK' /\ Held' = Held \cup S
  BY DEF HeldOK, Held

LEMMA StubRecordKeeps ==
    ASSUME SinkInv, NEW w \in Workers, StubRecord(w)
    PROVE  SinkInv'
  <1>. DEFINE no == Unsendable(kind, Head(call[w].todo)) \/ ~ Accepts(stub, Head(call[w].todo))
              left == Tail(call[w].todo)
              rejected == IF no THEN call[w].rejected \cup {Head(call[w].todo)} ELSE call[w].rejected
              c == [at |-> "stub", batch |-> call[w].batch, todo |-> left, rejected |-> rejected]
  <1>1. CallOK(call[w], kind, given, Held) /\ call[w].at = "stub" /\ call[w].todo # <<>>
    BY DEF SinkInv, CallsOK, StubRecord, At
  <1>2. Begun(call[w], given) /\ Feeding(call[w], kind, Held)
    BY <1>1, Places
  <1>3. PICK r : r = Head(call[w].todo)
    OBVIOUS
  <1>4. /\ r \in Records /\ left \in Seq(Records)
        /\ Range(call[w].todo) = Range(left) \cup {r}
    BY <1>1, <1>2, <1>3, HeadAndTail DEF Feeding
  <1>5. /\ Range(call[w].todo) \subseteq Range(call[w].batch)
        /\ Range(call[w].batch) \subseteq call[w].rejected \cup Held \cup Range(call[w].todo)
    BY <1>2 DEF Feeding, Covered, Left
  <1>6. /\ call' = [v \in Workers |-> IF v = w THEN c ELSE call[v]]
        /\ UNCHANGED <<kind, style, wire, file, given, delivered, faults>>
        /\ stub' = IF Unsendable(kind, r) THEN stub ELSE Stored(stub, r)
    <2>1. PICK b, t, n, x : call[w] = [at |-> x, batch |-> b, todo |-> t, rejected |-> n]
      BY <1>2 DEF Begun
    <2>2. x = "stub" /\ t = call[w].todo /\ n = call[w].rejected /\ b = call[w].batch
      BY <2>1, <1>1
    <2>3. [call[w] EXCEPT !.todo = left, !.rejected = rejected] = c
      <3>. HIDE DEF left, rejected
      <3>1. PICK d : d = [call[w] EXCEPT !.todo = left]
        OBVIOUS
      <3>2. d = [at |-> x, batch |-> b, todo |-> left, rejected |-> n]
        BY <3>1, <2>1
      <3>3. [d EXCEPT !.rejected = rejected] = [at |-> x, batch |-> b, todo |-> left, rejected |-> rejected]
        BY <3>2
      <3>. QED BY <3>1, <3>3, <2>2
    <2>4. call' = [call EXCEPT ![w] = [call[w] EXCEPT !.todo = left, !.rejected = rejected]]
      BY DEF StubRecord, SinkInv, CallsOK
    <2>5. /\ UNCHANGED <<kind, style, wire, file, given, delivered, faults>>
          /\ stub' = IF Unsendable(kind, r) THEN stub ELSE Stored(stub, r)
      BY <1>3 DEF StubRecord, counts
    <2>. HIDE DEF c, left, rejected
    <2>. QED BY <2>3, <2>4, <2>5 DEF SinkInv, CallsOK
  <1>7. \E S \in SUBSET {r} :
            /\ StubOK(stub') /\ Range(stub') = Range(stub) \cup S
            /\ \A s \in S : ~ Unsendable(kind, s)
            /\ no \/ r \in S
    <2>1. StubOK(stub)
      BY DEF SinkInv, HeldOK
    <2>2. CASE no
      <3>1. stub' = stub
        BY <2>1, <2>2, <1>3, <1>4, <1>6, StoredIsSound
      <3>. HIDE DEF no
      <3>2. StubOK(stub') /\ Range(stub') = Range(stub) \cup {}
        BY <2>1, <3>1
      <3>3. {} \in SUBSET {r} /\ \A s \in {} : ~ Unsendable(kind, s)
        OBVIOUS
      <3>. QED BY <2>2, <3>2, <3>3
    <2>3. CASE ~ no
      <3>1. StubOK(stub') /\ Range(stub') = Range(stub) \cup {r} /\ ~ Unsendable(kind, r)
        BY <2>1, <2>3, <1>3, <1>4, <1>6, StoredIsSound
      <3>. QED BY <3>1
    <2>. QED BY <2>2, <2>3
  <1>8. PICK S \in SUBSET {r} :
            /\ StubOK(stub') /\ Range(stub') = Range(stub) \cup S
            /\ \A s \in S : ~ Unsendable(kind, s)
            /\ no \/ r \in S
    BY <1>7
  <1>9. HeldOK' /\ Held' = Held \cup S
    <2>1. S \subseteq given
      BY <1>2, <1>4, <1>5 DEF Begun
    <2>2. kind # "jsonl"
      BY <1>2 DEF Feeding
    <2>. HIDE DEF c, no
    <2>. QED BY <1>6, <1>8, <2>1, <2>2, StubGrows DEF SinkInv
  <1>10. CallOK(c, kind, given', Held')
    <2>1. r \in rejected \cup S /\ call[w].rejected \subseteq rejected /\ rejected \subseteq Range(call[w].batch)
      BY <1>2, <1>3, <1>4, <1>5, <1>8 DEF Begun
    <2>2. Left(c) = Range(left)
      BY DEF Left
    <2>3. Begun(c, given')
      <3>. HIDE DEF rejected, left
      <3>. QED BY <1>2, <1>6, <2>1 DEF Begun
    <2>4. Feeding(c, kind, Held')
      <3>. HIDE DEF rejected, left
      <3>. QED BY <1>2, <1>4, <1>5, <1>9, <2>1, <2>2 DEF Feeding, Covered
    <2>. HIDE DEF c
    <2>. QED BY <2>3, <2>4 DEF CallOK
  <1>11. CallsOK' /\ WireOK'
    <2>1. call[w].at # "wait" /\ Range(stub) \subseteq Range(stub') /\ Held \subseteq Held'
      BY <1>1, <1>8, <1>9
    <2>. HIDE DEF c
    <2>. QED BY <1>6, <1>10, <2>1, CallMoves DEF SinkInv
  <1>. HIDE DEF c
  <1>. QED BY <1>6, <1>9, <1>11 DEF SinkInv, Configured

-----------------------------------------------------------------------------
(* The file *)

(* What a write leaves in the file: its first documents, of which the first *)
(* may have no line of its own.                                             *)
LEMMA WrittenHolds ==
    ASSUME NEW docs \in Seq(Records), NEW n \in 0..Len(docs), NEW torn,
           NEW f, f = Written(docs, n, torn)
    PROVE  /\ f = [lines |-> f.lines, spoiled |-> f.spoiled, torn |-> f.torn]
           /\ f.torn = torn
           /\ f.lines \cup f.spoiled = file.lines \cup file.spoiled \cup {docs[i] : i \in 1..n}
           /\ \/ f.spoiled = file.spoiled
              \/ file.torn /\ n > 0 /\ f.spoiled = file.spoiled \cup {docs[1]}
  <1>. DEFINE first == IF file.torn /\ n > 0 THEN {docs[1]} ELSE {}
              whole == {docs[i] : i \in 1..n}
  <1>1. f = [lines |-> file.lines \cup (whole \ first), spoiled |-> file.spoiled \cup first, torn |-> torn]
    BY DEF Written
  <1>2. first \subseteq whole
    OBVIOUS
  <1>3. first = {} \/ (file.torn /\ n > 0 /\ first = {docs[1]})
    OBVIOUS
  <1>. HIDE DEF first, whole
  <1>4. f.lines \cup f.spoiled = file.lines \cup file.spoiled \cup whole
    BY <1>1, <1>2
  <1>. QED BY <1>1, <1>3, <1>4 DEF whole

(* A truncated line costs one document its line, and took a failed write.   *)
LEMMA WrittenOK ==
    ASSUME NEW docs \in Seq(Records), NEW n \in 0..Len(docs), NEW torn \in BOOLEAN,
           NEW m \in Nat, FileOK(file, m),
           NEW k \in Nat, k = IF torn THEN m + 1 ELSE m,
           NEW f, f = Written(docs, n, torn)
    PROVE  FileOK(f, k)
  <1>1. /\ f = [lines |-> f.lines, spoiled |-> f.spoiled, torn |-> f.torn]
        /\ f.torn = torn
        /\ \/ f.spoiled = file.spoiled
           \/ file.torn /\ n > 0 /\ f.spoiled = file.spoiled \cup {docs[1]}
    BY WrittenHolds
  <1>2. PICK p \in Nat : p = Cardinality(file.spoiled)
    BY FS_CardinalityType DEF FileOK
  <1>3. file.torn \in BOOLEAN /\ p + (IF file.torn THEN 1 ELSE 0) <= m /\ IsFiniteSet(file.spoiled)
    BY <1>2 DEF FileOK
  <1>4. CASE f.spoiled = file.spoiled
    BY <1>1, <1>2, <1>3, <1>4 DEF FileOK
  <1>5. CASE file.torn /\ f.spoiled = file.spoiled \cup {docs[1]}
    <2>1. /\ IsFiniteSet(f.spoiled)
          /\ Cardinality(f.spoiled) = p \/ Cardinality(f.spoiled) = p + 1
      <3>1. PICK S, d : S = file.spoiled /\ f.spoiled = S \cup {d}
        BY <1>5
      <3>2. IsFiniteSet(S) /\ Cardinality(S) = p
        BY <1>2, <1>3, <3>1
      <3>3. IsFiniteSet(S \cup {d}) /\ (Cardinality(S \cup {d}) = p \/ Cardinality(S \cup {d}) = p + 1)
        BY <3>2, FS_AddElement
      <3>. QED BY <3>1, <3>3
    <2>. QED BY <1>1, <1>3, <1>5, <2>1 DEF FileOK
  <1>. QED BY <1>1, <1>4, <1>5

(* What is held in the file grows by what is written.                       *)
LEMMA FileGrows ==
    ASSUME HeldOK, NEW docs \in Seq(Records), NEW n \in 0..Len(docs), NEW torn,
           file' = Written(docs, n, torn), FileOK(file', faults'),
           UNCHANGED <<kind, stub, given, delivered>>, kind = "jsonl",
           Range(docs) \subseteq given, \A r \in Range(docs) : ~ Unsendable(kind, r)
    PROVE  HeldOK' /\ Held' = Held \cup {docs[i] : i \in 1..n}
  <1>1. file'.lines \cup file'.spoiled = file.lines \cup file.spoiled \cup {docs[i] : i \in 1..n}
    BY WrittenHolds
  <1>2. Held' = Held \cup {docs[i] : i \in 1..n}
    BY <1>1 DEF Held
  <1>3. {docs[i] : i \in 1..n} \subseteq Range(docs)
    BY DEF Range
  <1>. QED BY <1>2, <1>3 DEF HeldOK

LEMMA WriteFileKeeps ==
    ASSUME SinkInv, NEW w \in Workers, WriteFile(w)
    PROVE  SinkInv'
  <1>. DEFINE c == [at |-> "write", batch |-> call[w].batch, todo |-> <<>>, rejected |-> call[w].rejected]
  <1>1. CallOK(call[w], kind, given, Held) /\ call[w].at = "write"
    BY DEF SinkInv, CallsOK, WriteFile, At
  <1>2. Begun(call[w], given) /\ Writing(call[w], kind, Held)
    BY <1>1, Places
  <1>3. PICK docs \in Seq(Records) : docs = call[w].todo
    BY <1>2 DEF Writing
  <1>4. /\ call' = [v \in Workers |-> IF v = w THEN c ELSE call[v]]
        /\ UNCHANGED <<kind, style, stub, wire, given, delivered, faults>>
        /\ file' = Written(docs, Len(docs), FALSE)
    <2>1. PICK b, t, n, x : call[w] = [at |-> x, batch |-> b, todo |-> t, rejected |-> n]
      BY <1>2 DEF Begun
    <2>2. [call[w] EXCEPT !.todo = <<>>] = c
      BY <2>1, <1>1
    <2>3. call' = [call EXCEPT ![w] = [call[w] EXCEPT !.todo = <<>>]]
      BY DEF WriteFile, SinkInv, CallsOK
    <2>4. /\ UNCHANGED <<kind, style, stub, wire, given, delivered, faults>>
          /\ file' = Written(docs, Len(docs), FALSE)
      BY <1>3 DEF WriteFile, counts, history
    <2>. HIDE DEF c
    <2>. QED BY <2>2, <2>3, <2>4 DEF SinkInv, CallsOK
  <1>5. HeldOK' /\ Held' = Held \cup Range(docs)
    <2>1. Len(docs) \in 0..Len(docs)
      OBVIOUS
    <2>2. FileOK(file, faults) /\ faults \in Nat /\ faults' = faults
      BY <1>4 DEF SinkInv, HeldOK, Configured
    <2>3. FileOK(file', faults')
      BY <1>4, <2>1, <2>2, WrittenOK
    <2>4. Range(docs) \subseteq given /\ \A r \in Range(docs) : ~ Unsendable(kind, r)
      BY <1>2, <1>3 DEF Begun, Writing, Covered, Left
    <2>5. Range(docs) = {docs[i] : i \in 1..Len(docs)}
      BY DEF Range
    <2>6. kind = "jsonl"
      BY <1>2 DEF Writing
    <2>. QED BY <1>4, <2>1, <2>3, <2>4, <2>5, <2>6, FileGrows DEF SinkInv
  <1>6. CallOK(c, kind, given', Held')
    <2>1. Begun(c, given')
      BY <1>2, <1>4 DEF Begun
    <2>2. Range(c.batch) \subseteq c.rejected \cup Held'
      BY <1>2, <1>3, <1>5 DEF Writing, Covered, Left
    <2>3. Left(c) = {} /\ Range(c.todo) = {} /\ c.todo \in Seq(Records)
      BY RangeOfNothing DEF Left
    <2>4. Writing(c, kind, Held')
      <3>1. c.at = "write"
        OBVIOUS
      <3>. HIDE DEF c
      <3>. QED BY <1>2, <2>2, <2>3, <3>1 DEF Writing, Covered
    <2>. HIDE DEF c
    <2>. QED BY <2>1, <2>4 DEF CallOK
  <1>. HIDE DEF c
  <1>7. CallsOK' /\ WireOK'
    <2>1. call[w].at # "wait" /\ Held \subseteq Held'
      BY <1>1, <1>5
    <2>. QED BY <1>4, <1>6, <2>1, CallMoves DEF SinkInv
  <1>. QED BY <1>4, <1>5, <1>7 DEF SinkInv, Configured

LEMMA WriteFailsKeeps ==
    ASSUME SinkInv, NEW w \in Workers, WriteFails(w)
    PROVE  SinkInv'
  <1>. DEFINE c == [at |-> "failed", batch |-> call[w].batch, todo |-> call[w].todo, rejected |-> call[w].rejected]
  <1>1. CallOK(call[w], kind, given, Held) /\ call[w].at = "write"
    BY DEF SinkInv, CallsOK, WriteFails, At
  <1>2. Begun(call[w], given) /\ Writing(call[w], kind, Held)
    BY <1>1, Places
  <1>3. PICK docs \in Seq(Records) : docs = call[w].todo
    BY <1>2 DEF Writing
  <1>4. faults \in Nat /\ faults' = faults + 1
    BY BrokenCounts DEF WriteFails, SinkInv, Configured
  <1>5. /\ call' = [v \in Workers |-> IF v = w THEN c ELSE call[v]]
        /\ UNCHANGED <<kind, style, stub, wire, given, delivered>>
    <2>1. PICK b, t, n, x : call[w] = [at |-> x, batch |-> b, todo |-> t, rejected |-> n]
      BY <1>2 DEF Begun
    <2>2. [call[w] EXCEPT !.at = "failed"] = c
      BY <2>1, <1>1
    <2>3. call' = [call EXCEPT ![w] = [call[w] EXCEPT !.at = "failed"]]
      BY DEF WriteFails, SinkInv, CallsOK
    <2>4. UNCHANGED <<kind, style, stub, wire, given, delivered>>
      BY DEF WriteFails, history
    <2>. HIDE DEF c
    <2>. QED BY <2>2, <2>3, <2>4 DEF SinkInv, CallsOK
  <1>6. HeldOK' /\ Held \subseteq Held'
    <2>1. CASE UNCHANGED file
      <3>1. Held' = Held
        BY <1>5, <2>1 DEF Held
      <3>. QED BY <1>4, <1>5, <2>1, <3>1, HeldStays DEF SinkInv, HeldOK, Configured
    <2>2. CASE \E n \in 0..Len(docs), torn \in BOOLEAN : file' = Written(docs, n, torn)
      <3>1. PICK n \in 0..Len(docs), torn \in BOOLEAN : file' = Written(docs, n, torn)
        BY <2>2
      <3>2. FileOK(file, faults)
        BY DEF SinkInv, HeldOK
      <3>3. FileOK(file', faults')
        <4>1. CASE torn = TRUE
          <5>1. FileOK(Written(docs, n, TRUE), faults + 1)
            <6>1. PICK k \in Nat : k = faults + 1 /\ k = IF TRUE THEN faults + 1 ELSE faults
              BY <1>4
            <6>. QED BY <1>4, <3>2, <6>1, WrittenOK
          <5>. QED BY <4>1, <1>4, <3>1, <5>1
        <4>2. CASE torn = FALSE
          <5>1. FileOK(file', faults)
            BY <4>2, <1>4, <3>1, <3>2, WrittenOK
          <5>2. PICK p \in Nat : p = Cardinality(file'.spoiled)
            BY <5>1, FS_CardinalityType DEF FileOK
          <5>. QED BY <1>4, <5>1, <5>2 DEF FileOK
        <4>. QED BY <4>1, <4>2
      <3>4. Range(docs) \subseteq given /\ \A r \in Range(docs) : ~ Unsendable(kind, r)
        BY <1>2, <1>3 DEF Begun, Writing, Covered, Left
      <3>5. kind = "jsonl"
        BY <1>2 DEF Writing
      <3>. QED BY <1>5, <3>1, <3>3, <3>4, <3>5, FileGrows DEF SinkInv
    <2>. QED BY <1>3, <2>1, <2>2 DEF WriteFails
  <1>7. CallOK(c, kind, given', Held')
    <2>1. Begun(c, given') /\ Failed(c, kind)
      BY <1>2, <1>5 DEF Begun, Failed, Writing
    <2>. HIDE DEF c
    <2>. QED BY <2>1 DEF CallOK
  <1>. HIDE DEF c
  <1>8. CallsOK' /\ WireOK'
    BY <1>1, <1>5, <1>6, <1>7, CallMoves DEF SinkInv
  <1>. QED BY <1>4, <1>5, <1>6, <1>8 DEF SinkInv, Configured

-----------------------------------------------------------------------------
(* Requests and their answers *)

LEMMA SendKeeps ==
    ASSUME SinkInv, NEW w \in Workers, Send(w)
    PROVE  SinkInv'
  <1>. DEFINE c == [at |-> "wait", batch |-> call[w].batch, todo |-> call[w].todo, rejected |-> call[w].rejected]
              q == [to |-> w, chunk |-> Head(call[w].todo), done |-> 0, refused |-> {}]
  <1>1. CallOK(call[w], kind, given, Held) /\ call[w].at = "send" /\ call[w].todo # <<>>
    BY DEF SinkInv, CallsOK, Send, At
  <1>2. Begun(call[w], given) /\ Sending(call[w], kind, Held)
    BY <1>1, Places
  <1>3. PICK d : d = Head(call[w].todo)
    OBVIOUS
  <1>4. d \in Requests /\ Range(d) \subseteq Range(call[w].batch)
    <2>1. d \in Requests /\ Range(call[w].todo) = Range(Tail(call[w].todo)) \cup {d}
      BY <1>1, <1>2, <1>3, HeadAndTail DEF Sending
    <2>2. Docs(Range(call[w].todo)) \subseteq Range(call[w].batch)
      BY <1>1, <1>2 DEF Sending, Covered, Left
    <2>3. d \in Range(call[w].todo)
      BY <2>1
    <2>. QED BY <2>1, <2>2, <2>3, DocsOfOne
  <1>5. /\ call' = [v \in Workers |-> IF v = w THEN c ELSE call[v]]
        /\ wire' = wire \cup {q}
        /\ UNCHANGED <<kind, style, stub, file, given, delivered, faults>>
    <2>1. PICK b, t, n, x : call[w] = [at |-> x, batch |-> b, todo |-> t, rejected |-> n]
      BY <1>2 DEF Begun
    <2>2. [call[w] EXCEPT !.at = "wait"] = c
      BY <2>1, <1>1
    <2>3. call' = [call EXCEPT ![w] = [call[w] EXCEPT !.at = "wait"]]
      BY DEF Send, SinkInv, CallsOK
    <2>4. wire' = wire \cup {q} /\ UNCHANGED <<kind, style, stub, file, given, delivered, faults>>
      BY DEF Send, history, counts
    <2>. HIDE DEF c, q
    <2>. QED BY <2>2, <2>3, <2>4 DEF SinkInv, CallsOK
  <1>6. Held' = Held
    BY <1>5 DEF Held
  <1>7. CallOK(c, kind, given, Held)
    <2>1. Begun(c, given)
      BY <1>2 DEF Begun
    <2>2. Left(c) = Left(call[w])
      BY <1>1 DEF Left
    <2>3. Sending(c, kind, Held)
      BY <1>1, <1>2, <2>2 DEF Sending, Covered
    <2>. HIDE DEF c
    <2>. QED BY <2>1, <2>3 DEF CallOK
  <1>8. CallsOK'
    <2>1. \A v \in Workers : CallOK(call'[v], kind, given, Held)
      <3>. HIDE DEF c
      <3>. QED BY <1>5, <1>7 DEF SinkInv, CallsOK
    <2>. HIDE DEF c
    <2>. QED BY <1>5, <1>6, <2>1 DEF CallsOK
  <1>9. RequestOK(q, given, stub)
    <2>1. RequestIs(d)
      BY <1>4, EveryRequest
    <2>2. Len(d) \in Nat /\ 0 \in 0..Len(d)
      BY <2>1 DEF RequestIs
    <2>. QED BY <1>2, <1>3, <1>4, <2>2 DEF RequestOK, Begun
  <1>10. Awaits(c, q)
    BY DEF Awaits
  <1>11. q.to = w /\ w # Nobody
    BY SinksAssumption
  <1>. HIDE DEF c, q
  <1>12. ASSUME NEW p \in wire, p.to # Nobody
         PROVE  p.to # w /\ call'[p.to] = call[p.to] /\ p.to \in Workers
    <2>1. RequestOK(p, given, stub) /\ Awaits(call[p.to], p)
      BY <1>12 DEF SinkInv, WireOK
    <2>2. p.to # w /\ p.to \in Workers
      BY <2>1, <1>1, <1>12 DEF RequestOK, Awaits
    <2>. QED BY <1>5, <2>2
  <1>13. WireOK'
    <2>1. \A p \in wire' : RequestOK(p, given, stub) /\ (p.to # Nobody => Awaits(call'[p.to], p))
      <3>1. ASSUME NEW p \in wire
            PROVE  RequestOK(p, given, stub) /\ (p.to # Nobody => Awaits(call'[p.to], p))
        BY <1>12 DEF SinkInv, WireOK
      <3>2. Awaits(call'[q.to], q)
        BY <1>5, <1>10, <1>11
      <3>. QED BY <1>5, <1>9, <3>1, <3>2
    <2>2. \A p, r \in wire' : p.to = r.to /\ p.to # Nobody => p = r
      BY <1>5, <1>11, <1>12 DEF SinkInv, WireOK
    <2>3. kind = "http"
      BY <1>2 DEF Sending
    <2>. QED BY <1>5, <2>1, <2>2, <2>3 DEF WireOK
  <1>14. HeldOK'
    BY <1>5, HeldStays DEF SinkInv, HeldOK, Configured
  <1>. QED BY <1>5, <1>8, <1>13, <1>14 DEF SinkInv, Configured

(* Nobody waits for the request any more, and it is still under way.        *)
LEMMA GiveUpKeeps ==
    ASSUME SinkInv, NEW w \in Workers, GiveUp(w)
    PROVE  SinkInv'
  <1>1. /\ call' = [v \in Workers |-> IF v = w THEN NoCall ELSE call[v]]
        /\ wire' = {IF q.to = w THEN [q EXCEPT !.to = Nobody] ELSE q : q \in wire}
        /\ UNCHANGED <<kind, style, stub, file, given, delivered>>
        /\ faults' \in Nat /\ faults <= faults'
    BY BrokenCounts DEF GiveUp, ReturnFault, SinkInv, CallsOK, Configured
  <1>2. Held' = Held
    BY <1>1 DEF Held
  <1>3. CallsOK'
    <2>1. \A v \in Workers : CallOK(call'[v], kind, given, Held)
      BY <1>1, IdleIsOK DEF SinkInv, CallsOK
    <2>. QED BY <1>1, <1>2, <2>1 DEF CallsOK
  <1>4. ASSUME NEW p \in wire'
        PROVE  /\ RequestOK(p, given, stub)
               /\ p.to # Nobody => p \in wire /\ p.to # w /\ Awaits(call'[p.to], p)
    <2>1. PICK q \in wire : p = IF q.to = w THEN [q EXCEPT !.to = Nobody] ELSE q
      BY <1>1
    <2>2. RequestOK(q, given, stub) /\ (q.to # Nobody => Awaits(call[q.to], q))
      BY DEF SinkInv, WireOK
    <2>3. CASE q.to = w
      <3>1. PICK t, c, d, x : q = [to |-> t, chunk |-> c, done |-> d, refused |-> x]
        BY <2>2 DEF RequestOK
      <3>2. p = [to |-> Nobody, chunk |-> c, done |-> d, refused |-> x]
        BY <2>1, <2>3, <3>1
      <3>. QED BY <2>2, <3>1, <3>2 DEF RequestOK
    <2>4. CASE q.to # w
      <3>1. p = q
        BY <2>1, <2>4
      <3>2. p.to # Nobody => p.to \in Workers
        BY <2>2, <3>1 DEF RequestOK
      <3>. QED BY <1>1, <2>2, <2>4, <3>1, <3>2
    <2>. QED BY <2>3, <2>4
  <1>5. WireOK'
    <2>1. wire' # {} => kind = "http"
      BY <1>1 DEF SinkInv, WireOK
    <2>2. \A p, q \in wire' : p.to = q.to /\ p.to # Nobody => p = q
      BY <1>4 DEF SinkInv, WireOK
    <2>. QED BY <1>1, <1>4, <2>1, <2>2 DEF WireOK
  <1>6. HeldOK'
    BY <1>1, HeldStays DEF SinkInv, HeldOK
  <1>. QED BY <1>1, <1>3, <1>5, <1>6 DEF SinkInv, Configured

(* The receiver has looked at more of a request.                            *)
LEMMA RequestMoves ==
    ASSUME CallsOK, WireOK, NEW q \in wire, NEW p, p.to = q.to, p.chunk = q.chunk,
           RequestOK(p, given, stub'), wire' = (wire \ {q}) \cup {p},
           UNCHANGED <<kind, call, given>>, Range(stub) \subseteq Range(stub'), Held \subseteq Held'
    PROVE  CallsOK' /\ WireOK'
  <1>1. \A v \in Workers : CallOK(call[v], kind, given, Held')
    BY CallKeeps DEF CallsOK
  <1>2. CallsOK'
    BY <1>1 DEF CallsOK
  <1>3. ASSUME NEW r \in wire
        PROVE  RequestOK(r, given, stub') /\ (r.to # Nobody => Awaits(call[r.to], r))
    BY RequestKeeps DEF WireOK
  <1>4. p.to # Nobody => Awaits(call[p.to], p)
    BY <1>3 DEF Awaits
  <1>5. \A r, s \in wire' : r.to = s.to /\ r.to # Nobody => r = s
    BY DEF WireOK
  <1>6. kind = "http"
    BY DEF WireOK
  <1>. QED BY <1>2, <1>3, <1>4, <1>5, <1>6 DEF WireOK

(* What a receiver that goes record by record makes of the next one.        *)
LEMMA ReceiveRecordIs ==
    ASSUME SinkInv, NEW q \in wire, ReceiveRecord(q)
    PROVE  \E r, p :
              /\ r \in Range(q.chunk)
              /\ r = q.chunk[q.done + 1] /\ r \in Records /\ r \in given
              /\ ~ Unsendable(kind, r) /\ style = "list" /\ kind = "http"
              /\ stub' = Stored(stub, r)
              /\ refused' = IF Accepts(stub, r) THEN refused ELSE refused \cup {r}
              /\ wire' = (wire \ {q}) \cup {p}
              /\ p = [to |-> q.to, chunk |-> q.chunk, done |-> q.done + 1,
                      refused |-> IF Accepts(stub, r) THEN q.refused ELSE q.refused \cup {r}]
              /\ q.done + 1 \in 1..Len(q.chunk)
  <1>1. RequestOK(q, given, stub) /\ kind = "http"
    BY DEF SinkInv, WireOK
  <1>2. RequestIs(q.chunk)
    BY <1>1, EveryRequest DEF RequestOK
  <1>3. PICK r : r = q.chunk[q.done + 1]
    OBVIOUS
  <1>4. q.done \in Nat /\ Len(q.chunk) \in Nat /\ q.done < Len(q.chunk)
    BY <1>1, <1>2 DEF RequestOK, RequestIs, ReceiveRecord
  <1>5. q.done + 1 \in 1..Len(q.chunk) /\ DOMAIN q.chunk = 1..Len(q.chunk)
    BY <1>2, <1>4 DEF RequestIs
  <1>6. r \in Range(q.chunk)
    BY <1>3, <1>5 DEF Range
  <1>7. r \in Records /\ r \in given /\ ~ Unsendable(kind, r)
    BY <1>1, <1>2, <1>6 DEF RequestOK, RequestIs
  <1>8. PICK p : p = [to |-> q.to, chunk |-> q.chunk, done |-> q.done + 1,
                      refused |-> IF Accepts(stub, r) THEN q.refused ELSE q.refused \cup {r}]
    OBVIOUS
  <1>9. p = [q EXCEPT !.done = q.done + 1, !.refused = IF Accepts(stub, r) THEN q.refused ELSE q.refused \cup {r}]
    <2>1. PICK x : x = IF Accepts(stub, r) THEN q.refused ELSE q.refused \cup {r}
      OBVIOUS
    <2>2. PICK t, c, d, y : q = [to |-> t, chunk |-> c, done |-> d, refused |-> y]
      BY <1>1 DEF RequestOK
    <2>3. PICK e : e = [q EXCEPT !.done = q.done + 1]
      OBVIOUS
    <2>4. e = [to |-> t, chunk |-> c, done |-> q.done + 1, refused |-> y]
      BY <2>2, <2>3
    <2>5. [e EXCEPT !.refused = x] = [to |-> t, chunk |-> c, done |-> q.done + 1, refused |-> x]
      BY <2>4
    <2>6. q.to = t /\ q.chunk = c
      BY <2>2
    <2>7. p = [e EXCEPT !.refused = x]
      BY <1>8, <2>1, <2>5, <2>6
    <2>. QED BY <2>1, <2>3, <2>7
  <1>10. wire' = (wire \ {q}) \cup {p}
    <2>1. wire' = (wire \ {q}) \cup {[q EXCEPT !.done = q.done + 1,
                        !.refused = IF Accepts(stub, r) THEN q.refused ELSE q.refused \cup {r}]}
      BY <1>3 DEF ReceiveRecord
    <2>. QED BY <1>9, <2>1
  <1>11. stub' = Stored(stub, r) /\ style = "list" /\ refused' = IF Accepts(stub, r) THEN refused ELSE refused \cup {r}
    BY <1>3 DEF ReceiveRecord
  <1>. QED BY <1>1, <1>3, <1>5, <1>6, <1>7, <1>8, <1>10, <1>11

LEMMA ReceiveRecordKeeps ==
    ASSUME SinkInv, NEW q \in wire, ReceiveRecord(q)
    PROVE  SinkInv'
  <1>1. PICK r, p :
              /\ r \in Range(q.chunk)
              /\ r = q.chunk[q.done + 1] /\ r \in Records /\ r \in given
              /\ ~ Unsendable(kind, r) /\ style = "list" /\ kind = "http"
              /\ stub' = Stored(stub, r)
              /\ refused' = IF Accepts(stub, r) THEN refused ELSE refused \cup {r}
              /\ wire' = (wire \ {q}) \cup {p}
              /\ p = [to |-> q.to, chunk |-> q.chunk, done |-> q.done + 1,
                      refused |-> IF Accepts(stub, r) THEN q.refused ELSE q.refused \cup {r}]
              /\ q.done + 1 \in 1..Len(q.chunk)
    BY ReceiveRecordIs
  <1>2. UNCHANGED <<kind, style, call, file, given, delivered, faults>>
    BY DEF ReceiveRecord, counts
  <1>3. RequestOK(q, given, stub) /\ StubOK(stub)
    BY DEF SinkInv, WireOK, HeldOK
  <1>4. PICK S \in SUBSET {r} :
            /\ StubOK(stub') /\ Range(stub') = Range(stub) \cup S
            /\ r \in p.refused \cup Range(stub')
    <2>1. CASE Accepts(stub, r)
      <3>1. StubOK(stub') /\ Range(stub') = Range(stub) \cup {r}
        BY <2>1, <1>1, <1>3, StoredIsSound
      <3>. QED BY <3>1
    <2>2. CASE ~ Accepts(stub, r)
      <3>1. StubOK(stub') /\ Range(stub') = Range(stub) \cup {} /\ r \in p.refused
        BY <2>2, <1>1, <1>3, StoredIsSound
      <3>2. {} \in SUBSET {r}
        OBVIOUS
      <3>. QED BY <3>1, <3>2
    <2>. QED BY <2>1, <2>2
  <1>5. HeldOK' /\ Held' = Held \cup S
    BY <1>1, <1>2, <1>4, StubGrows DEF SinkInv
  <1>6. RequestOK(p, given, stub')
    <2>1. /\ p.to = q.to /\ p.chunk = q.chunk /\ p.done = q.done + 1
          /\ q.refused \subseteq p.refused /\ p.refused \subseteq Range(q.chunk)
          /\ p = [to |-> p.to, chunk |-> p.chunk, done |-> p.done, refused |-> p.refused]
      BY <1>1, <1>3 DEF RequestOK
    <2>2. \A i \in 1..(q.done + 1) : i \in 1..q.done \/ i = q.done + 1
      BY <1>3 DEF RequestOK
    <2>3. \A i \in 1..p.done : p.chunk[i] \in p.refused \cup Range(stub')
      BY <2>1, <2>2, <1>1, <1>3, <1>4 DEF RequestOK
    <2>4. p.done \in 0..Len(p.chunk)
      BY <2>1, <1>1
    <2>. QED BY <2>1, <2>3, <2>4, <1>3 DEF RequestOK
  <1>7. CallsOK' /\ WireOK'
    <2>1. p.to = q.to /\ p.chunk = q.chunk
      BY <1>1
    <2>2. Range(stub) \subseteq Range(stub') /\ Held \subseteq Held'
      BY <1>4, <1>5
    <2>. QED BY <2>1, <2>2, <1>1, <1>2, <1>6, RequestMoves DEF SinkInv
  <1>. QED BY <1>2, <1>5, <1>7 DEF SinkInv, Configured

(* What a receiver that refuses whole requests makes of one.                *)
LEMMA ReceiveWholeIs ==
    ASSUME SinkInv, NEW q \in wire, ReceiveWhole(q)
    PROVE  \E p, S :
              /\ RequestIs(q.chunk) /\ style = "whole" /\ kind = "http"
              /\ wire' = (wire \ {q}) \cup {p}
              /\ p = [to |-> q.to, chunk |-> q.chunk, done |-> Len(q.chunk), refused |-> Range(q.chunk) \ S]
              /\ StubOK(stub') /\ Extends(stub', stub) /\ Range(stub') = Range(stub) \cup S
              /\ \/ S = Range(q.chunk) /\ TakesAll(stub, q.chunk) /\ refused' = refused
                 \/ /\ S = {} /\ ~ TakesAll(stub, q.chunk) /\ stub' = stub
                    /\ refused' = refused \cup Range(q.chunk)
  <1>1. RequestOK(q, given, stub) /\ kind = "http" /\ StubOK(stub)
    BY DEF SinkInv, WireOK, HeldOK
  <1>2. RequestIs(q.chunk)
    BY <1>1, EveryRequest DEF RequestOK
  <1>3. PICK S : S = IF TakesAll(stub, q.chunk) THEN Range(q.chunk) ELSE {}
    OBVIOUS
  <1>4. PICK x : x = IF TakesAll(stub, q.chunk) THEN {} ELSE Range(q.chunk)
    OBVIOUS
  <1>5. x = Range(q.chunk) \ S
    BY <1>3, <1>4
  <1>6. PICK p : p = [to |-> q.to, chunk |-> q.chunk, done |-> Len(q.chunk), refused |-> x]
    OBVIOUS
  <1>7. p = [q EXCEPT !.done = Len(q.chunk), !.refused = x]
    <2>1. PICK t, c, d, y : q = [to |-> t, chunk |-> c, done |-> d, refused |-> y]
      BY <1>1 DEF RequestOK
    <2>2. PICK e : e = [q EXCEPT !.done = Len(q.chunk)]
      OBVIOUS
    <2>3. e = [to |-> t, chunk |-> c, done |-> Len(q.chunk), refused |-> y]
      BY <2>1, <2>2
    <2>4. [e EXCEPT !.refused = x] = [to |-> t, chunk |-> c, done |-> Len(q.chunk), refused |-> x]
      BY <2>3
    <2>5. q.to = t /\ q.chunk = c
      BY <2>1
    <2>6. p = [e EXCEPT !.refused = x]
      BY <1>6, <2>4, <2>5
    <2>. QED BY <2>2, <2>6
  <1>8. wire' = (wire \ {q}) \cup {p} /\ style = "whole"
    <2>1. wire' = (wire \ {q}) \cup {[q EXCEPT !.done = Len(q.chunk), !.refused = x]}
      BY <1>4 DEF ReceiveWhole
    <2>. QED BY <1>7, <2>1 DEF ReceiveWhole
  <1>9. CASE TakesAll(stub, q.chunk)
    <2>1. stub' = AllOf(stub, q.chunk)[Len(q.chunk)] /\ refused' = refused
      BY <1>9 DEF ReceiveWhole
    <2>2. S = Range(q.chunk)
      BY <1>3, <1>9
    <2>3. StubOK(stub') /\ Extends(stub', stub) /\ Range(stub') = Range(stub) \cup S
      BY <1>1, <1>2, <1>9, <2>1, <2>2, TakenIsHeld DEF RequestIs
    <2>. QED BY <1>1, <1>2, <1>5, <1>6, <1>8, <1>9, <2>1, <2>2, <2>3
  <1>10. CASE ~ TakesAll(stub, q.chunk)
    <2>1. stub' = stub /\ refused' = refused \cup Range(q.chunk)
      BY <1>10 DEF ReceiveWhole
    <2>2. S = {}
      BY <1>3, <1>10
    <2>3. StubOK(stub') /\ Extends(stub', stub) /\ Range(stub') = Range(stub) \cup S
      BY <1>1, <2>1, <2>2 DEF Extends
    <2>. QED BY <1>1, <1>2, <1>5, <1>6, <1>8, <1>10, <2>1, <2>2, <2>3
  <1>. QED BY <1>9, <1>10

LEMMA ReceiveWholeKeeps ==
    ASSUME SinkInv, NEW q \in wire, ReceiveWhole(q)
    PROVE  SinkInv'
  <1>1. PICK p, S :
              /\ RequestIs(q.chunk) /\ style = "whole" /\ kind = "http"
              /\ wire' = (wire \ {q}) \cup {p}
              /\ p = [to |-> q.to, chunk |-> q.chunk, done |-> Len(q.chunk), refused |-> Range(q.chunk) \ S]
              /\ StubOK(stub') /\ Extends(stub', stub) /\ Range(stub') = Range(stub) \cup S
              /\ \/ S = Range(q.chunk) /\ TakesAll(stub, q.chunk) /\ refused' = refused
                 \/ /\ S = {} /\ ~ TakesAll(stub, q.chunk) /\ stub' = stub
                    /\ refused' = refused \cup Range(q.chunk)
    BY ReceiveWholeIs
  <1>2. UNCHANGED <<kind, style, call, file, given, delivered, faults>>
    BY DEF ReceiveWhole, counts
  <1>3. RequestOK(q, given, stub)
    BY DEF SinkInv, WireOK
  <1>4. S \subseteq Range(q.chunk)
    BY <1>1
  <1>5. HeldOK' /\ Held' = Held \cup S
    <2>1. S \subseteq given /\ \A r \in S : ~ Unsendable(kind, r)
      BY <1>1, <1>3, <1>4 DEF RequestOK, RequestIs
    <2>. QED BY <1>1, <1>2, <2>1, StubGrows DEF SinkInv
  <1>6. RequestOK(p, given, stub')
    <2>1. /\ p.to = q.to /\ p.chunk = q.chunk /\ p.done = Len(q.chunk) /\ p.refused = Range(q.chunk) \ S
          /\ p = [to |-> p.to, chunk |-> p.chunk, done |-> p.done, refused |-> p.refused]
      BY <1>1
    <2>2. Len(q.chunk) \in Nat /\ DOMAIN q.chunk = 1..Len(q.chunk)
      BY <1>1 DEF RequestIs
    <2>3. \A i \in 1..p.done : p.chunk[i] \in p.refused \cup Range(stub')
      <3>1. \A i \in 1..Len(q.chunk) : q.chunk[i] \in Range(q.chunk)
        BY <2>2 DEF Range
      <3>. QED BY <2>1, <3>1, <1>1
    <2>4. p.done \in 0..Len(p.chunk)
      BY <2>1, <2>2
    <2>. QED BY <2>1, <2>3, <2>4, <1>3 DEF RequestOK
  <1>7. CallsOK' /\ WireOK'
    <2>1. p.to = q.to /\ p.chunk = q.chunk
      BY <1>1
    <2>2. Range(stub) \subseteq Range(stub') /\ Held \subseteq Held'
      BY <1>1, <1>5
    <2>. QED BY <2>1, <2>2, <1>1, <1>2, <1>6, RequestMoves DEF SinkInv
  <1>. QED BY <1>2, <1>5, <1>7 DEF SinkInv, Configured

(* The records of a request that an answer refuses.                         *)
Named(q, status, body) ==
    IF statusOf(status) = "refused" THEN Range(q.chunk)
    ELSE {r \in Range(q.chunk) : \E i \in DOMAIN body.ids : body.ids[i] = IdOf[r]}

(* An answer that says what the receiver did.                               *)
Clear(q, status, body) ==
    \/ statusOf(status) = "refused"
    \/ statusOf(status) = "read" /\ ~ Unreadable(body, {IdOf[r] : r \in Range(q.chunk)})

(* An answer ends the call, or goes on to the next request.                 *)
AnswerOf(q, status, body) ==
    \/ q.to = Nobody /\ call' = call
    \/ q.to # Nobody /\ call' = [v \in Workers |-> IF v = q.to THEN NoCall ELSE call[v]]
    \/ /\ q.to # Nobody /\ Clear(q, status, body)
       /\ call' = [v \in Workers |-> IF v = q.to
                        THEN [at |-> "send", batch |-> call[q.to].batch, todo |-> Tail(call[q.to].todo),
                              rejected |-> call[q.to].rejected \cup Named(q, status, body)]
                        ELSE call[v]]

LEMMA AnsweredIs ==
    ASSUME SinkInv, NEW q \in wire, NEW status, NEW body, Answered(q, status, body)
    PROVE  wire' = wire \ {q} /\ AnswerOf(q, status, body)
  <1>1. call = [v \in Workers |-> call[v]] /\ RequestOK(q, given, stub)
        /\ (q.to # Nobody => Awaits(call[q.to], q))
    BY DEF SinkInv, CallsOK, WireOK
  <1>2. PICK named : named = Named(q, status, body)
    OBVIOUS
  <1>3. wire' = wire \ {q}
    BY DEF Answered
  <1>4. \/ q.to = Nobody /\ call' = call
        \/ q.to # Nobody /\ call' = [call EXCEPT ![q.to] = NoCall]
        \/ /\ q.to # Nobody /\ Clear(q, status, body)
           /\ call' = [call EXCEPT ![q.to].at = "send", ![q.to].todo = Tail(@), ![q.to].rejected = @ \cup named]
    BY <1>2, Zenon DEF Answered, Named, Clear
  <1>5. CASE q.to = Nobody /\ call' = call
    BY <1>3, <1>5 DEF AnswerOf
  <1>6. CASE q.to # Nobody /\ call' = [call EXCEPT ![q.to] = NoCall]
    <2>1. call' = [v \in Workers |-> IF v = q.to THEN NoCall ELSE call[v]]
      BY <1>1, <1>6
    <2>. QED BY <1>3, <1>6, <2>1 DEF AnswerOf
  <1>7. CASE /\ q.to # Nobody /\ Clear(q, status, body)
             /\ call' = [call EXCEPT ![q.to].at = "send", ![q.to].todo = Tail(@), ![q.to].rejected = @ \cup named]
    <2>1. PICK w \in Workers : w = q.to
      BY <1>1, <1>7 DEF RequestOK
    <2>2. call[w].at = "wait" /\ CallOK(call[w], kind, given, Held)
      BY <1>1, <1>7, <2>1 DEF Awaits, SinkInv, CallsOK
    <2>9. Begun(call[w], given)
      BY <2>2, Places
    <2>3. PICK b, t, n, x : call[w] = [at |-> x, batch |-> b, todo |-> t, rejected |-> n]
      BY <2>9 DEF Begun
    <2>4. call[w].batch = b /\ call[w].todo = t /\ call[w].rejected = n
      BY <2>3
    <2>5. PICK c : c = [at |-> "send", batch |-> b, todo |-> Tail(t), rejected |-> n \cup named]
      OBVIOUS
    <2>6. call' = [call EXCEPT ![w] = c]
      <3>1. PICK d : d = [call[w] EXCEPT !.at = "send"]
        OBVIOUS
      <3>2. d = [at |-> "send", batch |-> b, todo |-> t, rejected |-> n]
        BY <2>3, <3>1
      <3>3. PICK e : e = [d EXCEPT !.todo = Tail(@)]
        OBVIOUS
      <3>4. e = [at |-> "send", batch |-> b, todo |-> Tail(t), rejected |-> n]
        BY <3>2, <3>3
      <3>7. PICK y : y = n \cup named
        OBVIOUS
      <3>8. [e EXCEPT !.rejected = y] = c
        <4>1. PICK z : z = Tail(t)
          OBVIOUS
        <4>2. e = [at |-> "send", batch |-> b, todo |-> z, rejected |-> n]
          BY <3>4, <4>1
        <4>3. [e EXCEPT !.rejected = y] = [at |-> "send", batch |-> b, todo |-> z, rejected |-> y]
          BY <4>2
        <4>4. c = [at |-> "send", batch |-> b, todo |-> z, rejected |-> y]
          BY <2>5, <3>7, <4>1
        <4>. QED BY <4>3, <4>4
      <3>9. e.rejected = n
        BY <3>4
      <3>5. [e EXCEPT !.rejected = @ \cup named] = c
        BY <3>7, <3>8, <3>9
      <3>6. call' = [call EXCEPT ![w] = [e EXCEPT !.rejected = @ \cup named]]
        BY <3>1, <3>3, <1>1, <1>7, <2>1
      <3>. QED BY <3>5, <3>6
    <2>7. call' = [v \in Workers |-> IF v = w THEN c ELSE call[v]]
      BY <1>1, <2>6
    <2>8. c = [at |-> "send", batch |-> call[q.to].batch, todo |-> Tail(call[q.to].todo),
               rejected |-> call[q.to].rejected \cup Named(q, status, body)]
      BY <1>2, <2>1, <2>4, <2>5
    <2>. QED BY <1>3, <1>7, <2>1, <2>7, <2>8 DEF AnswerOf
  <1>. QED BY <1>4, <1>5, <1>6, <1>7

(* A call goes on if what its request carried is refused or held.           *)
LEMMA AnswerKeeps ==
    ASSUME SinkInv, NEW q \in wire, NEW status, NEW body, AnswerOf(q, status, body),
           wire' = wire \ {q}, UNCHANGED <<kind, style, stub, file, given, delivered>>,
           faults' \in Nat, faults <= faults',
           q.to # Nobody /\ Clear(q, status, body) => Range(q.chunk) \subseteq Named(q, status, body) \cup Held
    PROVE  SinkInv'
  <1>1. RequestOK(q, given, stub) /\ (q.to # Nobody => Awaits(call[q.to], q))
    BY DEF SinkInv, WireOK
  <1>2. \E c : /\ CallOK(c, kind, given, Held)
               /\ \/ q.to = Nobody /\ call' = call
                  \/ q.to # Nobody /\ call' = [v \in Workers |-> IF v = q.to THEN c ELSE call[v]]
    <2>1. CASE q.to = Nobody /\ call' = call
      BY <2>1, IdleIsOK
    <2>2. CASE q.to # Nobody /\ call' = [v \in Workers |-> IF v = q.to THEN NoCall ELSE call[v]]
      BY <2>2, IdleIsOK
    <2>3. CASE /\ q.to # Nobody /\ Clear(q, status, body)
               /\ call' = [v \in Workers |-> IF v = q.to
                        THEN [at |-> "send", batch |-> call[q.to].batch, todo |-> Tail(call[q.to].todo),
                              rejected |-> call[q.to].rejected \cup Named(q, status, body)]
                        ELSE call[v]]
      <3>1. PICK w \in Workers : w = q.to
        BY <1>1, <2>3 DEF RequestOK
      <3>2. CallOK(call[w], kind, given, Held) /\ call[w].at = "wait" /\ Head(call[w].todo) = q.chunk
        BY <1>1, <2>3, <3>1 DEF Awaits, SinkInv, CallsOK
      <3>3. Begun(call[w], given) /\ Sending(call[w], kind, Held)
        BY <3>2, Places
      <3>4. PICK c, t, n : /\ t = Tail(call[w].todo) /\ n = call[w].rejected \cup Named(q, status, body)
                           /\ c = [at |-> "send", batch |-> call[w].batch, todo |-> t, rejected |-> n]
        OBVIOUS
      <3>5. t \in Seq(Requests) /\ Range(call[w].todo) = Range(t) \cup {q.chunk}
        BY <3>2, <3>3, <3>4, HeadAndTail DEF Sending
      <3>6. /\ Docs(Range(call[w].todo)) \subseteq Range(call[w].batch)
            /\ Range(call[w].batch) \subseteq call[w].rejected \cup Held \cup Docs(Range(call[w].todo))
        BY <3>2, <3>3 DEF Sending, Covered, Left
      <3>7. /\ Range(q.chunk) \subseteq Range(call[w].batch)
            /\ Docs(Range(call[w].todo)) = Docs(Range(t)) \cup Range(q.chunk)
        <4>1. Docs(Range(t) \cup {q.chunk}) = Docs(Range(t)) \cup Range(q.chunk)
          BY DocsWithOne
        <4>. QED BY <4>1, <3>5, <3>6
      <3>8. Named(q, status, body) \subseteq Range(q.chunk) /\ Range(q.chunk) \subseteq Named(q, status, body) \cup Held
        BY <2>3 DEF Named
      <3>9. n \subseteq Range(call[w].batch)
        BY <3>3, <3>4, <3>7, <3>8 DEF Begun
      <3>10. Begun(c, given)
        BY <3>3, <3>4, <3>9 DEF Begun
      <3>11. c.at = "send" /\ c.todo = t /\ c.batch = call[w].batch /\ c.rejected = n
        BY <3>4
      <3>12. Left(c) = Docs(Range(t))
        BY <3>11 DEF Left
      <3>13. Covered(c, Held)
        <4>1. PICK U : U = Docs(Range(t))
          OBVIOUS
        <4>2. Docs(Range(call[w].todo)) = U \cup Range(q.chunk)
          BY <4>1, <3>7, Zenon
        <4>3. U \cup Range(q.chunk) \subseteq Range(call[w].batch)
              /\ Range(call[w].batch) \subseteq call[w].rejected \cup Held \cup U \cup Range(q.chunk)
          BY <4>2, <3>6
        <4>4. Left(c) = U
          BY <4>1, <3>12
        <4>5. Range(q.chunk) \subseteq n \cup Held /\ call[w].rejected \subseteq n
          BY <3>4, <3>8
        <4>. QED BY <4>3, <4>4, <4>5, <3>11 DEF Covered
      <3>14. Sending(c, kind, Held)
        BY <3>3, <3>5, <3>11, <3>13 DEF Sending
      <3>15. CallOK(c, kind, given, Held)
        BY <3>10, <3>14 DEF CallOK
      <3>16. call' = [v \in Workers |-> IF v = q.to THEN c ELSE call[v]]
        BY <2>3, <3>1, <3>4
      <3>. QED BY <2>3, <3>15, <3>16
    <2>. QED BY <2>1, <2>2, <2>3 DEF AnswerOf
  <1>3. PICK c : /\ CallOK(c, kind, given, Held)
               /\ \/ q.to = Nobody /\ call' = call
                  \/ q.to # Nobody /\ call' = [v \in Workers |-> IF v = q.to THEN c ELSE call[v]]
    BY <1>2
  <1>4. CallsOK' /\ WireOK'
    BY <1>3, RequestEnds DEF SinkInv
  <1>5. HeldOK'
    BY HeldStays DEF SinkInv, HeldOK
  <1>. QED BY <1>4, <1>5 DEF SinkInv, Configured

LEMMA Bands ==
    /\ statusOf(200) = "read" /\ statusOf(422) = "refused"
    /\ \A s \in Statuses \ {200, 422} : statusOf(s) \in {"halt", "retry"}
  BY DEF statusOf, Statuses

LEMMA GarbageIsUnclear ==
    ASSUME NEW q, q.chunk \in Seq(Records), q.chunk # <<>>,
           NEW body \in Garbage \cup {ListBody(<<NoId>>), ListBody(<<IdOf[q.chunk[1]], IdOf[q.chunk[1]]>>)}
    PROVE  ~ Clear(q, 200, body)
  <1>. DEFINE ids == {IdOf[r] : r \in Range(q.chunk)}
  <1>1. Unreadable(body, ids)
    <2>1. CASE body \in Garbage
      <3>1. PICK f \in {"no member", "null", "text"} : body = [form |-> f, ids |-> <<>>]
        BY <2>1 DEF Garbage
      <3>2. body.form \in {"no member", "null", "text"}
        BY <3>1
      <3>. QED BY <3>2 DEF Unreadable
    <2>2. CASE body = ListBody(<<NoId>>)
      <3>1. NoId \notin ids
        BY StubAssumption, RangeOfDocs
      <3>2. 1 \in DOMAIN body.ids /\ body.ids[1] = NoId
        BY <2>2 DEF ListBody
      <3>. HIDE DEF ids
      <3>. QED BY <3>1, <3>2 DEF Unreadable
    <2>3. CASE body = ListBody(<<IdOf[q.chunk[1]], IdOf[q.chunk[1]]>>)
      <3>1. 1 \in DOMAIN body.ids /\ 2 \in DOMAIN body.ids /\ body.ids[1] = body.ids[2]
        BY <2>3 DEF ListBody
      <3>2. ~ IsInjective(body.ids)
        BY <3>1 DEF IsInjective
      <3>. QED BY <3>2 DEF Unreadable
    <2>. QED BY <2>1, <2>2, <2>3
  <1>. QED BY <1>1, Bands DEF Clear

(* Nothing that answers instead of the receiver is taken for its answer.    *)
LEMMA InterfereIs ==
    ASSUME SinkInv, NEW q \in wire, Interfere(q)
    PROVE  \E s, body : Answered(q, s, body) /\ ~ Clear(q, s, body)
  <1>1. RequestIs(q.chunk)
    BY EveryRequest DEF SinkInv, WireOK, RequestOK
  <1>2. CASE \E s \in Statuses \ {200, 422} : Answered(q, s, EmptyBody)
    <2>1. PICK s \in Statuses \ {200, 422} : Answered(q, s, EmptyBody)
      BY <1>2
    <2>2. ~ Clear(q, s, EmptyBody)
      BY Bands DEF Clear
    <2>. QED BY <2>1, <2>2
  <1>3. CASE \E body \in Garbage \cup {ListBody(<<NoId>>), ListBody(<<IdOf[q.chunk[1]], IdOf[q.chunk[1]]>>)} : Answered(q, 200, body)
    <2>1. PICK body \in Garbage \cup {ListBody(<<NoId>>), ListBody(<<IdOf[q.chunk[1]], IdOf[q.chunk[1]]>>)} : Answered(q, 200, body)
      BY <1>3
    <2>2. ~ Clear(q, 200, body)
      BY <1>1, GarbageIsUnclear DEF RequestIs
    <2>. QED BY <2>1, <2>2
  <1>. QED BY <1>2, <1>3 DEF Interfere

LEMMA InterfereKeeps ==
    ASSUME SinkInv, NEW q \in wire, Interfere(q)
    PROVE  SinkInv'
  <1>1. faults' \in Nat /\ faults <= faults'
    BY BrokenCounts DEF Interfere, SinkInv
  <1>2. UNCHANGED <<kind, style, stub, file, given, delivered>>
    BY DEF Interfere, history
  <1>3. PICK s, body : Answered(q, s, body) /\ ~ Clear(q, s, body)
    BY InterfereIs
  <1>4. wire' = wire \ {q} /\ AnswerOf(q, s, body)
    BY <1>3, AnsweredIs
  <1>. QED BY <1>1, <1>2, <1>3, <1>4, AnswerKeeps

LEMMA LoseRequestKeeps ==
    ASSUME SinkInv, NEW q \in wire, LoseRequest(q)
    PROVE  SinkInv'
  <1>1. faults' \in Nat /\ faults <= faults'
    BY BrokenCounts DEF LoseRequest, SinkInv
  <1>2. UNCHANGED <<kind, style, stub, file, given, delivered>> /\ wire' = wire \ {q}
    BY DEF LoseRequest, history
  <1>3. call' = IF q.to = Nobody THEN call ELSE [v \in Workers |-> IF v = q.to THEN NoCall ELSE call[v]]
    BY DEF LoseRequest, SinkInv, CallsOK
  <1>4. CallOK(NoCall, kind, given, Held)
    BY IdleIsOK
  <1>5. CallsOK' /\ WireOK'
    BY <1>2, <1>3, <1>4, RequestEnds DEF SinkInv
  <1>6. HeldOK'
    BY <1>1, <1>2, HeldStays DEF SinkInv, HeldOK
  <1>. QED BY <1>1, <1>2, <1>5, <1>6 DEF SinkInv, Configured

(* The receiver's answer names what it refused of a request: all of it, or  *)
(* the records it refused one by one.                                       *)
LEMMA ReplyIs ==
    ASSUME SinkInv, NEW q \in wire, Reply(q)
    PROVE  \E status, body :
              /\ wire' = wire \ {q} /\ AnswerOf(q, status, body)
              /\ Range(q.chunk) \subseteq q.refused \cup Range(stub)
              /\ \/ Named(q, status, body) = q.refused
                 \/ style = "whole" /\ q.refused # {} /\ Named(q, status, body) = Range(q.chunk)
  <1>1. RequestOK(q, given, stub) /\ RequestIs(q.chunk)
    BY EveryRequest DEF SinkInv, WireOK, RequestOK
  <1>2. Range(q.chunk) \subseteq q.refused \cup Range(stub)
    <2>1. DOMAIN q.chunk = 1..Len(q.chunk) /\ q.done = Len(q.chunk)
      BY <1>1 DEF RequestIs, Reply
    <2>. QED BY <2>1, <1>1 DEF RequestOK, Range
  <1>3. CASE q.refused = {} /\ Answered(q, 200, EmptyBody)
    <2>1. Named(q, 200, EmptyBody) = {}
      <3>1. EmptyBody.ids = <<>> /\ DOMAIN <<>> = {}
        BY DEF EmptyBody
      <3>. QED BY <3>1, Bands DEF Named
    <2>. QED BY <1>2, <1>3, <2>1, AnsweredIs
  <1>4. CASE q.refused # {} /\ style = "whole" /\ Answered(q, 422, EmptyBody)
    <2>1. Named(q, 422, EmptyBody) = Range(q.chunk)
      BY Bands DEF Named
    <2>. QED BY <1>2, <1>4, <2>1, AnsweredIs
  <1>5. CASE Answered(q, 200, ListBody(SetToSeq({IdOf[r] : r \in q.refused})))
    <2>. DEFINE ids == {IdOf[r] : r \in q.refused}
    <2>1. IsFiniteSet(ids)
      <3>1. IsFiniteSet(q.refused)
        BY <1>1, FS_Subset DEF RequestOK, RequestIs
      <3>2. [r \in q.refused |-> IdOf[r]] \in Surjection(q.refused, ids)
        BY DEF Surjection
      <3>. HIDE DEF ids
      <3>. QED BY <3>1, <3>2, FS_Surjection
    <2>2. PICK s : s = SetToSeq(ids)
      OBVIOUS
    <2>3. {s[i] : i \in DOMAIN s} = ids
      <3>. HIDE DEF ids
      <3>. QED BY <2>1, <2>2, RangeOfAnswer DEF Range
    <2>9. ListBody(s).ids = s
      BY DEF ListBody
    <2>4. PICK body : body = ListBody(s) /\ body.ids = s
      BY <2>9
    <2>5. Named(q, 200, body) = {r \in Range(q.chunk) : IdOf[r] \in ids}
      <3>1. \A r \in Range(q.chunk) : (\E i \in DOMAIN s : s[i] = IdOf[r]) <=> IdOf[r] \in ids
        <4>. HIDE DEF ids
        <4>. QED BY <2>3
      <3>. HIDE DEF ids
      <3>. QED BY <2>4, <3>1, Bands DEF Named
    <2>6. {r \in Range(q.chunk) : IdOf[r] \in ids} = q.refused
      BY <1>1 DEF RequestOK, RequestIs, OneEach
    <2>7. Named(q, 200, body) = q.refused
      BY <2>5, <2>6
    <2>8. Answered(q, 200, body)
      BY <1>5, <2>2, <2>4
    <2>. QED BY <1>2, <2>7, <2>8, AnsweredIs
  <1>. QED BY <1>3, <1>4, <1>5 DEF Reply

LEMMA ReplyKeeps ==
    ASSUME SinkInv, NEW q \in wire, Reply(q)
    PROVE  SinkInv'
  <1>1. PICK status, body :
              /\ wire' = wire \ {q} /\ AnswerOf(q, status, body)
              /\ Range(q.chunk) \subseteq q.refused \cup Range(stub)
              /\ \/ Named(q, status, body) = q.refused
                 \/ style = "whole" /\ q.refused # {} /\ Named(q, status, body) = Range(q.chunk)
    BY ReplyIs
  <1>2. UNCHANGED <<kind, style, stub, file, given, delivered, faults>>
    BY DEF Reply, history, counts
  <1>3. Range(q.chunk) \subseteq Named(q, status, body) \cup Held
    BY <1>1 DEF Held
  <1>4. faults' \in Nat /\ faults <= faults'
    BY <1>2 DEF SinkInv, Configured
  <1>. QED BY <1>1, <1>2, <1>3, <1>4, AnswerKeeps

-----------------------------------------------------------------------------
(* The invariant, and what follows from it *)

LEMMA SinkInvInit == SinkInit => SinkInv
  <1>. SUFFICES ASSUME SinkInit PROVE SinkInv
    OBVIOUS
  <1>1. /\ kind \in {"http", "stub", "jsonl"} /\ style \in {"list", "whole"}
        /\ kind # "http" => style = "list"
        /\ stub = << >> /\ call = [w \in Workers |-> NoCall] /\ wire = {} /\ file = EmptyFile
        /\ given = {} /\ delivered = {} /\ faults = 0
    BY DEF SinkInit
  <1>2. Configured
    BY <1>1 DEF Configured
  <1>3. CallsOK
    BY <1>1, IdleIsOK DEF CallsOK
  <1>4. WireOK
    BY <1>1 DEF WireOK
  <1>5. StubOK(<< >>)
    <2>1. DOMAIN << >> = {} /\ << >> \in [{} -> Records]
      OBVIOUS
    <2>2. IsFiniteSet({})
      BY FS_EmptySet
    <2>. QED BY <2>1, <2>2 DEF StubOK, Acyclic
  <1>6. FileOK(EmptyFile, 0)
    <2>1. IsFiniteSet({}) /\ Cardinality({}) = 0
      BY FS_EmptySet
    <2>. QED BY <2>1 DEF FileOK, EmptyFile
  <1>7. Held = {}
    BY <1>1, RangeOfNothing DEF Held, EmptyFile
  <1>8. HeldOK
    BY <1>1, <1>5, <1>6, <1>7 DEF HeldOK
  <1>. QED BY <1>2, <1>3, <1>4, <1>8 DEF SinkInv

LEMMA SinkInvStays ==
    ASSUME SinkInv, UNCHANGED sinkVars
    PROVE  SinkInv'
  <1>1. UNCHANGED <<kind, style, stub, call, wire, file, given, delivered, faults>>
    BY DEF sinkVars, history, counts
  <1>2. Held' = Held
    BY <1>1 DEF Held
  <1>3. Configured'
    BY <1>1 DEF Configured, SinkInv
  <1>4. CallsOK'
    BY <1>1, <1>2 DEF CallsOK, SinkInv
  <1>5. WireOK'
    BY <1>1 DEF WireOK, SinkInv
  <1>6. HeldOK'
    BY <1>1, <1>2 DEF HeldOK, SinkInv
  <1>. QED BY <1>3, <1>4, <1>5, <1>6 DEF SinkInv

(* Every step of the three sinks, of the network and of the receiver.       *)
LEMMA SinkInvStep == SinkInv /\ [SinkNext]_sinkVars => SinkInv'
  <1>. SUFFICES ASSUME SinkInv, [SinkNext]_sinkVars PROVE SinkInv'
    OBVIOUS
  <1>1. ASSUME NEW w \in Workers, NEW batch \in Batches, Deliver(w, batch)
        PROVE  SinkInv'
    BY <1>1, DeliverKeeps
  <1>2. ASSUME NEW w \in Workers, WorkerStep(w)
        PROVE  SinkInv'
    BY <1>2, TokenKeeps, MarshalKeeps, AllDoneKeeps, SendKeeps, StubRecordKeeps, WriteFileKeeps,
       FaultsKeep DEF WorkerStep
  <1>3. ASSUME NEW w \in Workers, NoCredential(w) \/ GiveUp(w) \/ Crash(w) \/ WriteFails(w)
        PROVE  SinkInv'
    BY <1>3, FaultsKeep, GiveUpKeeps, WriteFailsKeeps
  <1>4. ASSUME NEW q \in wire,
               ReceiveRecord(q) \/ ReceiveWhole(q) \/ Reply(q) \/ LoseRequest(q) \/ Interfere(q)
        PROVE  SinkInv'
    BY <1>4, ReceiveRecordKeeps, ReceiveWholeKeeps, ReplyKeeps, LoseRequestKeeps, InterfereKeeps
  <1>5. CASE UNCHANGED sinkVars
    BY <1>5, SinkInvStays
  <1>. QED BY <1>1, <1>2, <1>3, <1>4, <1>5 DEF SinkNext

(* Stub.leadsBack: no chain of what the receiver holds comes back to a      *)
(* record it has passed, in whatever order its links arrived.               *)
THEOREM NoCycleIsHeld == SinkSpec => []ChainsEnd
  <1>1. SinkInv => ChainsEnd
    BY DEF SinkInv, HeldOK, StubOK, Acyclic, ChainsEnd
  <1>. QED BY <1>1, SinkInvInit, SinkInvStep, PTL DEF SinkSpec

(* HTTPConfig.MaxRequestBytes: no request is larger, whatever a batch holds.*)
THEOREM EveryRequestFits == SinkSpec => []RequestFits
  <1>1. SinkInv => RequestFits
    BY EveryRequest DEF SinkInv, WireOK, RequestOK, RequestIs, RequestFits
  <1>. QED BY <1>1, SinkInvInit, SinkInvStep, PTL DEF SinkSpec

(* JSONL.Deliver: all that is reported as written has a line of its own, but*)
(* for one document for each write that failed.                             *)
THEOREM EveryLineIsWhole == SinkSpec => []LinesAreWhole
  <1>1. SinkInv => LinesAreWhole
    <2>. SUFFICES ASSUME SinkInv PROVE LinesAreWhole
      OBVIOUS
    <2>1. PICK n \in Nat : n = Cardinality(file.spoiled) /\ n <= faults /\ IsFiniteSet(file.spoiled)
      <3>1. FileOK(file, faults) /\ faults \in Nat
        BY DEF SinkInv, HeldOK, Configured
      <3>2. PICK n \in Nat : n = Cardinality(file.spoiled)
        BY <3>1, FS_CardinalityType DEF FileOK
      <3>. QED BY <3>1, <3>2 DEF FileOK
    <2>2. PICK S : S = IF kind = "jsonl" THEN delivered \ file.lines ELSE {}
      OBVIOUS
    <2>3. S \subseteq file.spoiled
      <3>1. CASE kind = "jsonl"
        <4>1. Range(stub) = {} /\ delivered \subseteq Held
          BY <3>1, RangeOfNothing DEF SinkInv, HeldOK
        <4>. QED BY <3>1, <4>1, <2>2 DEF Held
      <3>. QED BY <3>1, <2>2
    <2>4. IsFiniteSet(S) /\ Cardinality(S) <= n
      BY <2>1, <2>3, FS_Subset
    <2>5. Cardinality(S) \in Nat
      BY <2>4, FS_CardinalityType
    <2>. QED BY <2>1, <2>2, <2>4, <2>5 DEF LinesAreWhole, SinkInv, Configured
  <1>. QED BY <1>1, SinkInvInit, SinkInvStep, PTL DEF SinkSpec

-----------------------------------------------------------------------------
(* What was refused *)

(* No record is both refused and held.                                      *)
LEMMA RefusedIsNotHeld ==
    ASSUME SinkInv, RefusedInv
    PROVE  refused \cap Held = {}
  <1>. SUFFICES ASSUME NEW r \in refused, r \in Held PROVE FALSE
    OBVIOUS
  <1>1. ForGood(r) /\ ~ Unsendable(kind, r) /\ StubOK(stub)
    BY DEF RefusedInv, SinkInv, HeldOK
  <1>2. kind # "jsonl" => r \in Range(stub)
    BY DEF SinkInv, HeldOK, Held, EmptyFile
  <1>3. CASE style = "list" /\ kind # "jsonl" /\ ~ Accepts(stub, r)
    BY <1>1, <1>2, <1>3, HeldIsAccepted
  <1>4. CASE style = "whole" /\ \E c \in Requests : r \in Range(c) /\ ~ TakesAll(stub, c)
    <2>1. PICK c \in Requests : r \in Range(c) /\ ~ TakesAll(stub, c)
      BY <1>4
    <2>2. kind = "http"
      BY <1>4 DEF SinkInv, Configured
    <2>3. r \in Range(c) \cap Range(stub)
      BY <1>2, <2>1, <2>2
    <2>4. Range(c) \subseteq Range(stub)
      BY <1>4, <2>3 DEF RefusedInv
    <2>5. c \in Seq(Records)
      BY EveryRequest DEF RequestIs
    <2>. QED BY <1>1, <2>1, <2>4, <2>5, HeldIsTaken
  <1>. QED BY <1>1, <1>3, <1>4 DEF ForGood

(* A receiver that takes more still refuses what it refused.                *)
LEMMA ForGoodStays ==
    ASSUME NEW r \in Records, ForGood(r), StubOK(stub), StubOK(stub'), Extends(stub', stub),
           UNCHANGED <<kind, style>>
    PROVE  ForGood(r)'
  <1>1. CASE Unsendable(kind, r)
    BY <1>1 DEF ForGood
  <1>2. CASE style = "list" /\ kind # "jsonl" /\ ~ Accepts(stub, r)
    <2>1. ~ Accepts(stub', r)
      BY <1>2, RefusedForGood
    <2>. QED BY <1>2, <2>1 DEF ForGood
  <1>3. CASE style = "whole" /\ \E c \in Requests : r \in Range(c) /\ ~ TakesAll(stub, c)
    <2>1. PICK c \in Requests : r \in Range(c) /\ ~ TakesAll(stub, c)
      BY <1>3
    <2>2. c \in Seq(Records)
      BY EveryRequest DEF RequestIs
    <2>3. ~ TakesAll(stub', c)
      BY <2>1, <2>2, RefusedWholeForGood
    <2>. QED BY <1>3, <2>1, <2>3 DEF ForGood
  <1>. QED BY <1>1, <1>2, <1>3 DEF ForGood

(* Nothing is refused, and no request is answered.                          *)
LEMMA RefusedStays ==
    ASSUME RefusedInv, UNCHANGED <<kind, style, stub, refused>>,
           given \subseteq given', given' \subseteq Records,
           \A w \in Workers : call'[w].rejected \subseteq refused,
           \A q \in wire' : \/ q.refused = {}
                            \/ \E p \in wire : p.chunk = q.chunk /\ p.refused = q.refused
    PROVE  RefusedInv'
  <1>1. \A r : ForGood(r)' <=> ForGood(r)
    BY DEF ForGood
  <1>2. \A q \in wire' : q.refused \subseteq refused
    BY DEF RefusedInv
  <1>3. style = "whole" => \A q \in wire' : q.refused # {} => q.refused = Range(q.chunk)
    BY DEF RefusedInv
  <1>. QED BY <1>1, <1>2, <1>3 DEF RefusedInv

(* The steps of a call that neither refuse nor answer.                      *)
LEMMA BatchStays ==
    ASSUME SinkInv, NEW w \in Workers, Token(w) \/ Send(w) \/ WriteFile(w) \/ WriteFails(w)
    PROVE  /\ \A v \in Workers : call'[v].batch = call[v].batch /\ call'[v].rejected = call[v].rejected
           /\ call[w].at # "idle"
           /\ UNCHANGED <<kind, style, stub, history>>
  <1>1. call[w].at \in {"token", "send", "write"} /\ call = [v \in Workers |-> call[v]]
    BY DEF Token, Send, WriteFile, WriteFails, At, SinkInv, CallsOK
  <1>2. Begun(call[w], given)
    BY <1>1, Places DEF SinkInv, CallsOK
  <1>3. PICK b, t, n, x : call[w] = [at |-> x, batch |-> b, todo |-> t, rejected |-> n]
    BY <1>2 DEF Begun
  <1>4. call'[w].batch = b /\ call'[w].rejected = n /\ \A v \in Workers \ {w} : call'[v] = call[v]
    <2>1. CASE Token(w)
      BY <2>1, <1>1, <1>3 DEF Token
    <2>2. CASE Send(w)
      BY <2>2, <1>1, <1>3 DEF Send
    <2>3. CASE WriteFile(w)
      BY <2>3, <1>1, <1>3 DEF WriteFile
    <2>4. CASE WriteFails(w)
      BY <2>4, <1>1, <1>3 DEF WriteFails
    <2>. QED BY <2>1, <2>2, <2>3, <2>4
  <1>5. call[w].batch = b /\ call[w].rejected = n
    BY <1>3
  <1>6. UNCHANGED <<kind, style, stub, history>>
    BY DEF Token, Send, WriteFile, WriteFails
  <1>. QED BY <1>1, <1>4, <1>5, <1>6

LEMMA MarshalIs ==
    ASSUME SinkInv, NEW w \in Workers, Marshal(w)
    PROVE  /\ call'[w].batch = call[w].batch
           /\ call'[w].rejected = {r \in Range(call[w].batch) : Unsendable(kind, r)}
           /\ \A v \in Workers \ {w} : call'[v] = call[v]
           /\ Begun(call[w], given)
  <1>1. call[w].at = "marshal" /\ call = [v \in Workers |-> call[v]]
    BY DEF Marshal, At, SinkInv, CallsOK
  <1>2. Begun(call[w], given)
    BY <1>1, Places DEF SinkInv, CallsOK
  <1>3. PICK b, t, n, x : call[w] = [at |-> x, batch |-> b, todo |-> t, rejected |-> n]
    BY <1>2 DEF Begun
  <1>4. PICK mine, todo, at :
           /\ mine = {r \in Range(call[w].batch) : Unsendable(kind, r)}
           /\ call' = [call EXCEPT ![w].rejected = mine, ![w].todo = todo, ![w].at = at]
    BY Zenon DEF Marshal
  <1>5. PICK d : d = [call[w] EXCEPT !.rejected = mine]
    OBVIOUS
  <1>6. d = [at |-> x, batch |-> b, todo |-> t, rejected |-> mine]
    BY <1>3, <1>5
  <1>7. PICK e : e = [d EXCEPT !.todo = todo]
    OBVIOUS
  <1>8. e = [at |-> x, batch |-> b, todo |-> todo, rejected |-> mine]
    BY <1>6, <1>7
  <1>9. call'[w] = [e EXCEPT !.at = at] /\ \A v \in Workers \ {w} : call'[v] = call[v]
    BY <1>1, <1>4, <1>5, <1>7
  <1>10. call'[w].batch = b /\ call'[w].rejected = mine /\ call[w].batch = b
    BY <1>3, <1>8, <1>9
  <1>. QED BY <1>2, <1>4, <1>9, <1>10

LEMMA StubRecordIs ==
    ASSUME SinkInv, NEW w \in Workers, StubRecord(w)
    PROVE  \E r \in Range(call[w].batch) :
              /\ call'[w].batch = call[w].batch
              /\ call'[w].rejected = IF Unsendable(kind, r) \/ ~ Accepts(stub, r)
                                     THEN call[w].rejected \cup {r} ELSE call[w].rejected
              /\ stub' = IF Unsendable(kind, r) THEN stub ELSE Stored(stub, r)
              /\ refused' = IF Unsendable(kind, r) \/ ~ Accepts(stub, r) THEN refused \cup {r} ELSE refused
              /\ \A v \in Workers \ {w} : call'[v] = call[v]
              /\ Begun(call[w], given) /\ r \in Records /\ kind = "stub"
  <1>1. call[w].at = "stub" /\ call[w].todo # <<>> /\ call = [v \in Workers |-> call[v]]
    BY DEF StubRecord, At, SinkInv, CallsOK
  <1>2. Begun(call[w], given) /\ Feeding(call[w], kind, Held)
    BY <1>1, Places DEF SinkInv, CallsOK
  <1>3. PICK b, t, n, x : call[w] = [at |-> x, batch |-> b, todo |-> t, rejected |-> n]
    BY <1>2 DEF Begun
  <1>4. PICK r : r = Head(call[w].todo)
    OBVIOUS
  <1>5. r \in Records /\ r \in Range(call[w].batch)
    <2>1. r \in Records /\ r \in Range(call[w].todo)
      BY <1>1, <1>2, <1>4, HeadAndTail DEF Feeding
    <2>. QED BY <2>1, <1>1, <1>2 DEF Feeding, Covered, Left
  <1>6. PICK no \in BOOLEAN : no = (Unsendable(kind, r) \/ ~ Accepts(stub, r))
    OBVIOUS
  <1>7. PICK y : y = IF no THEN n \cup {r} ELSE n
    OBVIOUS
  <1>8. call[w].rejected = n /\ call[w].batch = b
    BY <1>3
  <1>9. call' = [call EXCEPT ![w] = [call[w] EXCEPT !.todo = Tail(call[w].todo), !.rejected = y]]
    BY <1>1, <1>4, <1>6, <1>7, <1>8 DEF StubRecord
  <1>17. PICK z : z = Tail(call[w].todo)
    OBVIOUS
  <1>10. PICK d : d = [call[w] EXCEPT !.todo = z]
    OBVIOUS
  <1>11. d = [at |-> x, batch |-> b, todo |-> z, rejected |-> n]
    BY <1>3, <1>10
  <1>12. [d EXCEPT !.rejected = y] = [at |-> x, batch |-> b, todo |-> z, rejected |-> y]
    BY <1>11
  <1>13. call'[w] = [d EXCEPT !.rejected = y] /\ \A v \in Workers \ {w} : call'[v] = call[v]
    BY <1>1, <1>9, <1>10, <1>17
  <1>14. call'[w].batch = b /\ call'[w].rejected = y
    BY <1>12, <1>13
  <1>15. /\ stub' = IF Unsendable(kind, r) THEN stub ELSE Stored(stub, r)
         /\ refused' = IF no THEN refused \cup {r} ELSE refused
    BY <1>4, <1>6 DEF StubRecord
  <1>16. kind = "stub"
    BY <1>2 DEF Feeding
  <1>. QED BY <1>2, <1>5, <1>6, <1>7, <1>8, <1>13, <1>14, <1>15, <1>16

LEMMA GivenStays ==
    ASSUME RefusedInv, UNCHANGED given
    PROVE  given' \subseteq Records /\ given \subseteq given'
  BY DEF RefusedInv

LEMMA DeliverRefuses ==
    ASSUME SinkInv, RefusedInv, NEW w \in Workers, NEW batch \in Batches, Deliver(w, batch)
    PROVE  RefusedInv'
  <1>1. call[w].at = "idle" /\ call = [v \in Workers |-> call[v]]
    BY DEF Deliver, At, SinkInv, CallsOK
  <1>2. call'[w].rejected = {} /\ \A v \in Workers \ {w} : call'[v] = call[v]
    BY <1>1 DEF Deliver
  <1>3. UNCHANGED <<kind, style, stub, refused, wire>> /\ given' = given \cup Range(batch)
    BY DEF Deliver
  <1>4. Range(batch) \subseteq Records
    BY EveryBatch DEF BatchIs
  <1>5. \A v \in Workers : call'[v].rejected \subseteq refused
    BY <1>2 DEF RefusedInv
  <1>6. given' \subseteq Records
    BY <1>3, <1>4 DEF RefusedInv
  <1>. QED BY <1>3, <1>5, <1>6, RefusedStays

(* A step that leaves the call, or ends it.                                 *)
LEMMA CallEndsRefuses ==
    ASSUME SinkInv, RefusedInv, UNCHANGED <<kind, style, stub, refused, given>>,
           \A v \in Workers : call'[v] = NoCall \/ call'[v].rejected = call[v].rejected,
           \A q \in wire' : \/ q.refused = {}
                            \/ \E p \in wire : p.chunk = q.chunk /\ p.refused = q.refused
    PROVE  RefusedInv'
  <1>1. \A v \in Workers : call'[v].rejected \subseteq refused
    BY DEF RefusedInv, NoCall
  <1>. QED BY <1>1, RefusedStays, GivenStays

LEMMA MarshalRefuses ==
    ASSUME SinkInv, RefusedInv, NEW w \in Workers, Marshal(w)
    PROVE  RefusedInv'
  <1>. DEFINE mine == {r \in Range(call[w].batch) : Unsendable(kind, r)}
  <1>1. /\ call'[w].rejected = mine
        /\ \A v \in Workers \ {w} : call'[v] = call[v]
        /\ Begun(call[w], given)
    BY MarshalIs
  <1>2. refused' = refused \cup mine /\ UNCHANGED <<kind, style, stub, wire, given>>
    BY DEF Marshal
  <1>3. \A r : ForGood(r)' <=> ForGood(r)
    BY <1>2 DEF ForGood
  <1>4. mine \subseteq given /\ \A r \in mine : ForGood(r)
    BY <1>1 DEF Begun, ForGood
  <1>5. \A v \in Workers : call'[v].rejected \subseteq refused'
    <2>. HIDE DEF mine
    <2>. QED BY <1>1, <1>2 DEF RefusedInv
  <1>. HIDE DEF mine
  <1>. QED BY <1>2, <1>3, <1>4, <1>5 DEF RefusedInv

LEMMA StubRecordRefuses ==
    ASSUME SinkInv, RefusedInv, NEW w \in Workers, StubRecord(w)
    PROVE  RefusedInv'
  <1>1. PICK r \in Range(call[w].batch) :
              /\ call'[w].rejected = IF Unsendable(kind, r) \/ ~ Accepts(stub, r)
                                     THEN call[w].rejected \cup {r} ELSE call[w].rejected
              /\ stub' = IF Unsendable(kind, r) THEN stub ELSE Stored(stub, r)
              /\ refused' = IF Unsendable(kind, r) \/ ~ Accepts(stub, r) THEN refused \cup {r} ELSE refused
              /\ \A v \in Workers \ {w} : call'[v] = call[v]
              /\ Begun(call[w], given) /\ r \in Records /\ kind = "stub"
    BY StubRecordIs
  <1>2. UNCHANGED <<kind, style, wire, given>> /\ StubOK(stub) /\ style = "list" /\ r \in given
    BY <1>1 DEF StubRecord, SinkInv, HeldOK, Configured, Begun
  <1>3. StubOK(stub') /\ Extends(stub', stub)
    BY <1>1, <1>2, StoredIsSound DEF Extends
  <1>4. \A s \in Records : ForGood(s) => ForGood(s)'
    <2>. TAKE s \in Records
    <2>. HAVE ForGood(s)
    <2>. QED BY <1>2, <1>3, ForGoodStays
  <1>5. Unsendable(kind, r) \/ ~ Accepts(stub, r) => ForGood(r)
    BY <1>1, <1>2 DEF ForGood
  <1>6. \A s \in refused' : s \in given /\ ForGood(s)'
    BY <1>1, <1>2, <1>4, <1>5 DEF RefusedInv
  <1>7. refused \subseteq refused' /\ \A v \in Workers : call'[v].rejected \subseteq refused'
    BY <1>1 DEF RefusedInv
  <1>. QED BY <1>2, <1>6, <1>7 DEF RefusedInv

LEMMA ReceiveRecordRefuses ==
    ASSUME SinkInv, RefusedInv, NEW q \in wire, ReceiveRecord(q)
    PROVE  RefusedInv'
  <1>1. PICK r, p :
              /\ r \in Range(q.chunk)
              /\ r = q.chunk[q.done + 1] /\ r \in Records /\ r \in given
              /\ ~ Unsendable(kind, r) /\ style = "list" /\ kind = "http"
              /\ stub' = Stored(stub, r)
              /\ refused' = IF Accepts(stub, r) THEN refused ELSE refused \cup {r}
              /\ wire' = (wire \ {q}) \cup {p}
              /\ p = [to |-> q.to, chunk |-> q.chunk, done |-> q.done + 1,
                      refused |-> IF Accepts(stub, r) THEN q.refused ELSE q.refused \cup {r}]
              /\ q.done + 1 \in 1..Len(q.chunk)
    BY ReceiveRecordIs
  <1>2. UNCHANGED <<kind, style, call, given>> /\ StubOK(stub)
    BY DEF ReceiveRecord, SinkInv, HeldOK
  <1>3. StubOK(stub') /\ Extends(stub', stub)
    BY <1>1, <1>2, StoredIsSound
  <1>4. \A s \in Records : ForGood(s) => ForGood(s)'
    <2>. TAKE s \in Records
    <2>. HAVE ForGood(s)
    <2>. QED BY <1>2, <1>3, ForGoodStays
  <1>5. ~ Accepts(stub, r) => ForGood(r)
    BY <1>1 DEF ForGood
  <1>6. \A s \in refused' : s \in given /\ ForGood(s)'
    BY <1>1, <1>4, <1>5 DEF RefusedInv
  <1>7. refused \subseteq refused' /\ p.refused \subseteq refused'
    BY <1>1 DEF RefusedInv
  <1>8. \A s \in wire' : s.refused \subseteq refused'
    BY <1>1, <1>7 DEF RefusedInv
  <1>. QED BY <1>1, <1>2, <1>6, <1>7, <1>8 DEF RefusedInv

(* A request is refused whole, and no other carries any of its records.     *)
LEMMA ReceiveWholeRefuses ==
    ASSUME SinkInv, RefusedInv, SentTogether, NEW q \in wire, ReceiveWhole(q)
    PROVE  RefusedInv'
  <1>1. PICK p, S :
              /\ RequestIs(q.chunk) /\ style = "whole" /\ kind = "http"
              /\ wire' = (wire \ {q}) \cup {p}
              /\ p = [to |-> q.to, chunk |-> q.chunk, done |-> Len(q.chunk), refused |-> Range(q.chunk) \ S]
              /\ StubOK(stub') /\ Extends(stub', stub) /\ Range(stub') = Range(stub) \cup S
              /\ \/ S = Range(q.chunk) /\ TakesAll(stub, q.chunk) /\ refused' = refused
                 \/ /\ S = {} /\ ~ TakesAll(stub, q.chunk) /\ stub' = stub
                    /\ refused' = refused \cup Range(q.chunk)
    BY ReceiveWholeIs
  <1>2. UNCHANGED <<kind, style, call, given>> /\ StubOK(stub)
    BY DEF ReceiveWhole, SinkInv, HeldOK
  <1>3. q.chunk \in Requests /\ Range(q.chunk) \subseteq given
    BY DEF SinkInv, WireOK, RequestOK
  <1>4. \A s \in Records : ForGood(s) => ForGood(s)'
    <2>. TAKE s \in Records
    <2>. HAVE ForGood(s)
    <2>. QED BY <1>1, <1>2, ForGoodStays
  <1>5. ~ TakesAll(stub, q.chunk) => \A r \in Range(q.chunk) : ForGood(r)
    BY <1>1, <1>3 DEF ForGood
  <1>6. \A s \in refused' : s \in given /\ ForGood(s)'
    <2>1. Range(q.chunk) \subseteq Records /\ given \subseteq Records
      BY <1>1 DEF RequestIs, RefusedInv
    <2>. QED BY <1>1, <1>3, <1>4, <1>5, <2>1 DEF RefusedInv
  <1>7. /\ refused \subseteq refused' /\ p.refused \subseteq refused'
        /\ p.refused # {} => p.refused = Range(p.chunk)
    BY <1>1
  <1>8. \A s \in wire' : s.refused \subseteq refused' /\ (s.refused # {} => s.refused = Range(s.chunk))
    BY <1>1, <1>7 DEF RefusedInv
  <1>9. \A c \in Requests : Range(c) \cap Range(stub') # {} => Range(c) \subseteq Range(stub')
    <2>. TAKE c \in Requests
    <2>. HAVE Range(c) \cap Range(stub') # {}
    <2>1. CASE Range(c) \cap Range(stub) # {}
      <3>1. Range(c) \subseteq Range(stub)
        BY <2>1, <1>1 DEF RefusedInv
      <3>. QED BY <3>1, <1>1
    <2>2. CASE Range(c) \cap Range(stub) = {}
      <3>1. S = Range(q.chunk) /\ Range(c) \cap Range(q.chunk) # {}
        BY <2>2, <1>1
      <3>2. c = q.chunk
        BY <3>1, <1>3 DEF SentTogether
      <3>. QED BY <3>1, <3>2, <1>1
    <2>. QED BY <2>1, <2>2
  <1>. QED BY <1>1, <1>2, <1>6, <1>7, <1>8, <1>9 DEF RefusedInv

LEMMA ReplyRefuses ==
    ASSUME SinkInv, RefusedInv, NEW q \in wire, Reply(q)
    PROVE  RefusedInv'
  <1>1. PICK status, body :
              /\ wire' = wire \ {q} /\ AnswerOf(q, status, body)
              /\ Range(q.chunk) \subseteq q.refused \cup Range(stub)
              /\ \/ Named(q, status, body) = q.refused
                 \/ style = "whole" /\ q.refused # {} /\ Named(q, status, body) = Range(q.chunk)
    BY ReplyIs
  <1>2. UNCHANGED <<kind, style, stub, refused, given>>
    BY DEF Reply, history
  <1>3. Named(q, status, body) \subseteq refused
    BY <1>1 DEF RefusedInv
  <1>4. \A v \in Workers : call'[v].rejected \subseteq refused
    BY <1>1, <1>3 DEF AnswerOf, NoCall, RefusedInv
  <1>5. \A p \in wire' : p \in wire
    BY <1>1
  <1>. QED BY <1>2, <1>4, <1>5, RefusedStays, GivenStays

LEMMA RefusedInvInit == SinkInit => RefusedInv
  <1>1. Range(<< >>) = {}
    BY RangeOfNothing
  <1>. QED BY <1>1 DEF SinkInit, RefusedInv, NoCall

(* A fault says nothing of a record.                                        *)
LEMMA FaultRefuses ==
    ASSUME SinkInv, RefusedInv, NEW w \in Workers,
           NoCredential(w) \/ Crash(w) \/ WriteFault(w) \/ GiveUp(w) \/ AllDone(w)
    PROVE  RefusedInv'
  <1>1. UNCHANGED <<kind, style, stub, refused, given>>
    BY DEF NoCredential, Crash, WriteFault, GiveUp, AllDone, ReturnFault
  <1>2. call' = [call EXCEPT ![w] = NoCall]
    BY DEF NoCredential, Crash, WriteFault, GiveUp, AllDone, ReturnFault, ReturnResult
  <1>3. \A v \in Workers : call'[v] = NoCall \/ call'[v].rejected = call[v].rejected
    BY <1>2 DEF SinkInv, CallsOK
  <1>4. ASSUME NEW q \in wire'
        PROVE  \E p \in wire : p.chunk = q.chunk /\ p.refused = q.refused
    <2>1. CASE GiveUp(w)
      <3>1. PICK p \in wire : q = IF p.to = w THEN [p EXCEPT !.to = Nobody] ELSE p
        BY <2>1 DEF GiveUp
      <3>2. PICK t, c, d, x : p = [to |-> t, chunk |-> c, done |-> d, refused |-> x]
        BY DEF SinkInv, WireOK, RequestOK
      <3>3. q.chunk = p.chunk /\ q.refused = p.refused
        BY <3>1, <3>2
      <3>. QED BY <3>3
    <2>2. CASE ~ GiveUp(w)
      BY <2>2 DEF NoCredential, Crash, WriteFault, AllDone
    <2>. QED BY <2>1, <2>2
  <1>. QED BY <1>1, <1>3, <1>4, CallEndsRefuses

LEMMA StepRefuses ==
    ASSUME SinkInv, RefusedInv, NEW w \in Workers, Token(w) \/ Send(w) \/ WriteFile(w) \/ WriteFails(w)
    PROVE  RefusedInv'
  <1>1. /\ \A v \in Workers : call'[v].batch = call[v].batch /\ call'[v].rejected = call[v].rejected
        /\ UNCHANGED <<kind, style, stub, history>>
    BY BatchStays
  <1>2. UNCHANGED <<kind, style, stub, refused, given>>
    BY <1>1 DEF history
  <1>3. ASSUME NEW q \in wire'
        PROVE  q.refused = {} \/ \E p \in wire : p.chunk = q.chunk /\ p.refused = q.refused
    <2>1. CASE Send(w)
      BY <2>1 DEF Send
    <2>2. CASE ~ Send(w)
      BY <2>2 DEF Token, WriteFile, WriteFails
    <2>. QED BY <2>1, <2>2
  <1>. QED BY <1>1, <1>2, <1>3, CallEndsRefuses

LEMMA NoAnswerRefuses ==
    ASSUME SinkInv, RefusedInv, NEW q \in wire, LoseRequest(q) \/ Interfere(q)
    PROVE  /\ RefusedInv'
           /\ \/ q.to = Nobody /\ call' = call
              \/ q.to # Nobody /\ call' = [v \in Workers |-> IF v = q.to THEN NoCall ELSE call[v]]
           /\ UNCHANGED <<kind, style, stub, file, history>>
  <1>1. UNCHANGED <<kind, style, stub, file, history>>
    BY DEF LoseRequest, Interfere
  <1>2. /\ wire' = wire \ {q}
        /\ \/ q.to = Nobody /\ call' = call
           \/ q.to # Nobody /\ call' = [v \in Workers |-> IF v = q.to THEN NoCall ELSE call[v]]
    <2>1. CASE LoseRequest(q)
      BY <2>1 DEF LoseRequest, SinkInv, CallsOK
    <2>2. CASE Interfere(q)
      <3>1. PICK s, body : Answered(q, s, body) /\ ~ Clear(q, s, body)
        BY <2>2, InterfereIs
      <3>2. wire' = wire \ {q} /\ AnswerOf(q, s, body)
        BY <3>1, AnsweredIs
      <3>. QED BY <3>1, <3>2 DEF AnswerOf
    <2>. QED BY <2>1, <2>2
  <1>3. \A v \in Workers : call'[v] = NoCall \/ call'[v].rejected = call[v].rejected
    BY <1>2
  <1>4. \A p \in wire' : p \in wire
    BY <1>2
  <1>5. UNCHANGED <<kind, style, stub, refused, given>>
    BY <1>1 DEF history
  <1>. QED BY <1>1, <1>2, <1>3, <1>4, <1>5, CallEndsRefuses

(* Every step leaves what was refused refused for good, if a receiver that  *)
(* refuses whole requests sees each document in one request only.           *)
LEMMA RefusedInvStep ==
    ASSUME SinkInv, RefusedInv, style = "whole" => SentTogether, [SinkNext]_sinkVars
    PROVE  RefusedInv'
  <1>1. ASSUME NEW w \in Workers, NEW batch \in Batches, Deliver(w, batch)
        PROVE  RefusedInv'
    BY <1>1, DeliverRefuses
  <1>2. ASSUME NEW w \in Workers, WorkerStep(w) \/ NoCredential(w) \/ GiveUp(w) \/ Crash(w) \/ WriteFails(w)
        PROVE  RefusedInv'
    BY <1>2, FaultRefuses, StepRefuses, MarshalRefuses, StubRecordRefuses DEF WorkerStep
  <1>3. ASSUME NEW q \in wire,
               ReceiveRecord(q) \/ ReceiveWhole(q) \/ Reply(q) \/ LoseRequest(q) \/ Interfere(q)
        PROVE  RefusedInv'
    <2>1. ReceiveWhole(q) => SentTogether
      BY DEF ReceiveWhole
    <2>. QED BY <1>3, <2>1, ReceiveRecordRefuses, ReceiveWholeRefuses, ReplyRefuses, NoAnswerRefuses
  <1>4. CASE UNCHANGED sinkVars
    <2>1. UNCHANGED <<kind, style, stub, refused, given, call, wire>>
      BY <1>4 DEF sinkVars, history
    <2>. QED BY <2>1, CallEndsRefuses
  <1>. QED BY <1>1, <1>2, <1>3, <1>4 DEF SinkNext

-----------------------------------------------------------------------------
(* The contract *)

LEMMA ContractStart == SinkInit => Contract!Init
  <1>. SUFFICES ASSUME SinkInit PROVE Contract!Init
    OBVIOUS
  <1>1. Range(<< >>) = {}
    BY RangeOfNothing
  <1>2. [w \in Workers |-> Asked(w)] = [w \in Workers |-> {}]
    BY <1>1 DEF SinkInit, Asked, NoCall
  <1>3. Held = {}
    BY <1>1 DEF SinkInit, Held, EmptyFile
  <1>. QED BY <1>2, <1>3 DEF SinkInit, Contract!Init

(* A worker that is in a call has asked for a batch, and no other has.      *)
LEMMA AskedIs ==
    ASSUME SinkInv, NEW w \in Workers
    PROVE  /\ call[w].at = "idle" => Asked(w) = {}
           /\ call[w].at # "idle" => Asked(w) # {} /\ Asked(w) \subseteq given
  <1>1. CallOK(call[w], kind, given, Held)
    BY DEF SinkInv, CallsOK
  <1>2. CASE call[w].at = "idle"
    BY <1>1, <1>2, Places, RangeOfNothing DEF Asked, NoCall
  <1>3. CASE call[w].at # "idle"
    <2>1. Begun(call[w], given)
      BY <1>1, <1>3, Places
    <2>. QED BY <1>3, <2>1, EveryBatch DEF Begun, BatchIs, Asked
  <1>. QED BY <1>2, <1>3

LEMMA NothingHappens ==
    ASSUME \A v \in Workers : Range(call'[v].batch) = Range(call[v].batch),
           UNCHANGED history, Held' = Held
    PROVE  UNCHANGED Contract!vars
  BY DEF Contract!vars, Asked, history

LEMMA AFault ==
    ASSUME SinkInv, NEW w \in Workers, call[w].at # "idle", call'[w] = NoCall,
           \A v \in Workers \ {w} : call'[v] = call[v],
           UNCHANGED history, Held' = Held
    PROVE  Contract!Next
  <1>1. Asked(w) # {} /\ Range(NoCall.batch) = {}
    BY AskedIs, RangeOfNothing DEF NoCall
  <1>2. [v \in Workers |-> Asked(v)]' = [[v \in Workers |-> Asked(v)] EXCEPT ![w] = {}]
    BY <1>1 DEF Asked
  <1>3. Contract!Fault(w)
    BY <1>1, <1>2 DEF Contract!Fault, history
  <1>. QED BY <1>3 DEF Contract!Next

(* The receiver takes what it was given and has not refused.                *)
LEMMA ATake ==
    ASSUME NEW S, S \subseteq given, S \cap refused = {}, given \subseteq Records,
           \A v \in Workers : Range(call'[v].batch) = Range(call[v].batch),
           UNCHANGED history, Held' = Held \cup S
    PROVE  Contract!Next
  <1>1. Contract!Take(S) /\ S \in SUBSET Records
    BY DEF Contract!Take, Asked, history
  <1>. QED BY <1>1 DEF Contract!Next

(* Lawang or the receiver refuses what nobody has.                          *)
LEMMA ARefusal ==
    ASSUME NEW S, S \subseteq given, S \cap Held = {}, given \subseteq Records,
           \A v \in Workers : Range(call'[v].batch) = Range(call[v].batch),
           UNCHANGED <<given, delivered, killed>>, Held' = Held, refused' = refused \cup S
    PROVE  Contract!Next
  <1>1. Contract!Refuse(S) /\ S \in SUBSET Records
    BY DEF Contract!Refuse, Asked
  <1>. QED BY <1>1 DEF Contract!Next

LEMMA DeliverHands ==
    ASSUME SinkInv, NEW w \in Workers, NEW batch \in Batches, Deliver(w, batch)
    PROVE  Contract!Next
  <1>1. BatchIs(batch)
    BY EveryBatch
  <1>2. call[w].at = "idle" /\ call = [v \in Workers |-> call[v]] /\ Asked(w) = {}
    BY AskedIs DEF Deliver, At, SinkInv, CallsOK
  <1>3. call'[w].batch = batch /\ \A v \in Workers \ {w} : call'[v] = call[v]
    BY <1>2 DEF Deliver
  <1>4. [v \in Workers |-> Asked(v)]' = [[v \in Workers |-> Asked(v)] EXCEPT ![w] = Range(batch)]
    BY <1>3 DEF Asked
  <1>5. UNCHANGED <<stub, file, refused, delivered, killed>> /\ given' = given \cup Range(batch)
    BY DEF Deliver
  <1>6. Held' = Held
    BY <1>5 DEF Held
  <1>7. Contract!Hand(w, Range(batch)) /\ Range(batch) \in SUBSET Records
    BY <1>1, <1>2, <1>4, <1>5, <1>6 DEF BatchIs, Contract!Hand
  <1>. QED BY <1>7 DEF Contract!Next

LEMMA AllDoneReports ==
    ASSUME SinkInv, RefusedInv, NEW w \in Workers, AllDone(w)
    PROVE  Contract!Next
  <1>1. CallOK(call[w], kind, given, Held) /\ call = [v \in Workers |-> call[v]]
    BY DEF SinkInv, CallsOK
  <1>2. call[w].at \in {"send", "stub", "write"} /\ call[w].todo = <<>>
    BY DEF AllDone
  <1>3. Asked(w) \ call[w].rejected \subseteq Held
    BY <1>1, <1>2, ResultIsHeld DEF Asked
  <1>4. Begun(call[w], given)
    BY <1>1, <1>2, Places
  <1>5. call[w].rejected \subseteq Asked(w) \cap refused /\ Asked(w) # {}
    BY <1>2, <1>4, AskedIs DEF Begun, Asked, RefusedInv
  <1>6. /\ call' = [call EXCEPT ![w] = NoCall]
        /\ killed' = killed \cup call[w].rejected
        /\ delivered' = delivered \cup (Asked(w) \ call[w].rejected)
        /\ UNCHANGED <<stub, file, given, refused>>
    BY DEF AllDone, ReturnResult, Asked
  <1>7. Range(NoCall.batch) = {}
    BY RangeOfNothing DEF NoCall
  <1>8. [v \in Workers |-> Asked(v)]' = [[v \in Workers |-> Asked(v)] EXCEPT ![w] = {}]
    BY <1>1, <1>6, <1>7 DEF Asked
  <1>9. Held' = Held
    BY <1>6 DEF Held
  <1>10. call[w].rejected \in SUBSET Records
    BY <1>5 DEF RefusedInv
  <1>11. Contract!Result(w, call[w].rejected)
    BY <1>3, <1>5, <1>6, <1>8, <1>9 DEF Contract!Result
  <1>. QED BY <1>10, <1>11 DEF Contract!Next

LEMMA FaultReports ==
    ASSUME SinkInv, NEW w \in Workers, NoCredential(w) \/ Crash(w) \/ WriteFault(w) \/ GiveUp(w)
    PROVE  Contract!Next
  <1>1. call[w].at # "idle" /\ ReturnFault(w) /\ UNCHANGED <<stub, file, given>>
    BY DEF NoCredential, Crash, WriteFault, GiveUp, At
  <1>2. call'[w] = NoCall /\ (\A v \in Workers \ {w} : call'[v] = call[v]) /\ UNCHANGED history
    BY <1>1 DEF ReturnFault, SinkInv, CallsOK, history
  <1>3. Held' = Held
    BY <1>1 DEF Held
  <1>. QED BY <1>1, <1>2, <1>3, AFault

LEMMA MarshalReports ==
    ASSUME SinkInv, RefusedInv, NEW w \in Workers, Marshal(w)
    PROVE  Contract!Next
  <1>. DEFINE mine == {r \in Range(call[w].batch) : Unsendable(kind, r)}
  <1>1. /\ \A v \in Workers : call'[v].batch = call[v].batch
        /\ Begun(call[w], given)
    BY MarshalIs
  <1>2. refused' = refused \cup mine /\ UNCHANGED <<stub, file, given, delivered, killed>>
    BY DEF Marshal
  <1>3. Held' = Held
    BY <1>2 DEF Held
  <1>4. mine \subseteq given /\ mine \cap Held = {} /\ given \subseteq Records
    BY <1>1 DEF Begun, SinkInv, HeldOK, RefusedInv
  <1>. HIDE DEF mine
  <1>. QED BY <1>1, <1>2, <1>3, <1>4, ARefusal

LEMMA StubRecordReports ==
    ASSUME SinkInv, RefusedInv, NEW w \in Workers, StubRecord(w)
    PROVE  Contract!Next
  <1>1. PICK r \in Range(call[w].batch) :
              /\ call'[w].batch = call[w].batch
              /\ stub' = IF Unsendable(kind, r) THEN stub ELSE Stored(stub, r)
              /\ refused' = IF Unsendable(kind, r) \/ ~ Accepts(stub, r) THEN refused \cup {r} ELSE refused
              /\ \A v \in Workers \ {w} : call'[v] = call[v]
              /\ Begun(call[w], given) /\ r \in Records /\ kind = "stub"
    BY StubRecordIs
  <1>2. /\ StubOK(stub) /\ r \in given /\ given \subseteq Records
        /\ UNCHANGED <<file, given, delivered, killed>> /\ style = "list"
        /\ file = EmptyFile /\ \A v \in Workers : call'[v].batch = call[v].batch
    BY <1>1 DEF StubRecord, SinkInv, HeldOK, Configured, Begun, RefusedInv
  <1>3. CASE ~ Unsendable(kind, r) /\ Accepts(stub, r)
    <2>1. Range(stub') = Range(stub) \cup {r} /\ UNCHANGED history
      BY <1>1, <1>2, <1>3, StoredIsSound DEF history
    <2>2. Held' = Held \cup {r}
      BY <1>2, <2>1 DEF Held
    <2>3. r \notin refused
      BY <1>1, <1>2, <1>3 DEF RefusedInv, ForGood
    <2>4. {r} \subseteq given /\ {r} \cap refused = {}
      BY <1>2, <2>3
    <2>. QED BY <1>2, <2>1, <2>2, <2>4, ATake
  <1>4. CASE Unsendable(kind, r) \/ ~ Accepts(stub, r)
    <2>1. stub' = stub /\ refused' = refused \cup {r}
      BY <1>1, <1>2, <1>4, StoredIsSound
    <2>2. Held' = Held
      BY <1>2, <2>1 DEF Held
    <2>3. r \notin Held
      <3>1. CASE Unsendable(kind, r)
        BY <3>1 DEF SinkInv, HeldOK
      <3>2. CASE ~ Accepts(stub, r)
        <4>1. r \notin Range(stub)
          BY <3>2, <1>2, HeldIsAccepted
        <4>. QED BY <4>1, <1>2 DEF Held, EmptyFile
      <3>. QED BY <1>4, <3>1, <3>2
    <2>4. {r} \subseteq given /\ {r} \cap Held = {}
      BY <1>2, <2>3
    <2>. QED BY <1>2, <2>1, <2>2, <2>4, ARefusal
  <1>. QED BY <1>3, <1>4

(* What WriteFile and WriteFails put in the file.                           *)
LEMMA WriteReports ==
    ASSUME SinkInv, RefusedInv, NEW w \in Workers, call[w].at = "write",
           NEW n \in 0..Len(call[w].todo), NEW torn, file' = Written(call[w].todo, n, torn),
           \A v \in Workers : Range(call'[v].batch) = Range(call[v].batch),
           UNCHANGED <<stub, history>>
    PROVE  Contract!Next
  <1>1. Writing(call[w], kind, Held) /\ Begun(call[w], given)
    BY Places DEF SinkInv, CallsOK
  <1>2. call[w].todo \in Seq(Records) /\ Range(call[w].todo) \subseteq given
    BY <1>1 DEF Writing, Covered, Left, Begun
  <1>3. kind = "jsonl" /\ \A r \in Range(call[w].todo) : ~ Unsendable(kind, r)
    BY <1>1 DEF Writing
  <1>4. PICK docs \in Seq(Records) : docs = call[w].todo
    BY <1>2
  <1>5. PICK S : S = {docs[i] : i \in 1..n}
    OBVIOUS
  <1>6. S \subseteq Range(docs)
    BY <1>4, <1>5 DEF Range
  <1>7. file'.lines \cup file'.spoiled = file.lines \cup file.spoiled \cup S
    BY <1>4, <1>5, WrittenHolds
  <1>8. Held' = Held \cup S
    BY <1>7 DEF Held
  <1>9. S \cap refused = {}
    <2>1. \A r \in refused : Unsendable(kind, r)
      <3>1. style = "list" /\ \A r \in refused : ForGood(r)
        BY <1>3 DEF SinkInv, Configured, RefusedInv
      <3>. QED BY <1>3, <3>1 DEF ForGood
    <2>. QED BY <2>1, <1>3, <1>4, <1>6
  <1>10. S \subseteq given /\ given \subseteq Records
    BY <1>2, <1>4, <1>6 DEF RefusedInv
  <1>. QED BY <1>8, <1>9, <1>10, ATake

LEMMA StepReports ==
    ASSUME SinkInv, RefusedInv, NEW w \in Workers, Token(w) \/ Send(w) \/ WriteFile(w) \/ WriteFails(w)
    PROVE  Contract!Next \/ UNCHANGED Contract!vars
  <1>1. /\ \A v \in Workers : Range(call'[v].batch) = Range(call[v].batch)
        /\ UNCHANGED <<stub, history>>
    BY BatchStays
  <1>2. CASE file' = file
    <2>1. Held' = Held
      BY <1>1, <1>2 DEF Held
    <2>. QED BY <1>1, <2>1, NothingHappens
  <1>3. CASE file' # file
    <2>1. call[w].at = "write"
      BY <1>3 DEF Token, Send, WriteFile, WriteFails, At
    <2>2. call[w].todo \in Seq(Records)
      BY <2>1, Places DEF SinkInv, CallsOK, Writing
    <2>3. Len(call[w].todo) \in 0..Len(call[w].todo)
      BY <2>2
    <2>4. PICK n, torn : n \in 0..Len(call[w].todo) /\ file' = Written(call[w].todo, n, torn)
      <3>1. CASE WriteFile(w)
        BY <3>1, <2>3 DEF WriteFile
      <3>2. CASE WriteFails(w)
        BY <3>2, <1>3 DEF WriteFails
      <3>. QED BY <3>1, <3>2, <1>3 DEF Token, Send
    <2>. QED BY <1>1, <2>1, <2>4, WriteReports
  <1>. QED BY <1>2, <1>3

LEMMA ReceiveRecordReports ==
    ASSUME SinkInv, RefusedInv, NEW q \in wire, ReceiveRecord(q)
    PROVE  Contract!Next
  <1>1. PICK r \in Range(q.chunk) :
              /\ r \in Records /\ r \in given
              /\ ~ Unsendable(kind, r) /\ style = "list" /\ kind = "http"
              /\ stub' = Stored(stub, r)
              /\ refused' = IF Accepts(stub, r) THEN refused ELSE refused \cup {r}
    BY ReceiveRecordIs
  <1>2. /\ StubOK(stub) /\ given \subseteq Records /\ file = EmptyFile
        /\ UNCHANGED <<call, file, given, delivered, killed>>
    BY <1>1 DEF ReceiveRecord, SinkInv, HeldOK, RefusedInv
  <1>3. CASE Accepts(stub, r)
    <2>1. Range(stub') = Range(stub) \cup {r} /\ UNCHANGED history
      BY <1>1, <1>2, <1>3, StoredIsSound DEF history
    <2>2. Held' = Held \cup {r}
      BY <1>2, <2>1 DEF Held
    <2>3. r \notin refused
      BY <1>1, <1>3 DEF RefusedInv, ForGood
    <2>4. {r} \subseteq given /\ {r} \cap refused = {}
      BY <1>1, <2>3
    <2>. QED BY <1>2, <2>1, <2>2, <2>4, ATake
  <1>4. CASE ~ Accepts(stub, r)
    <2>1. stub' = stub /\ refused' = refused \cup {r}
      BY <1>1, <1>2, <1>4, StoredIsSound
    <2>2. Held' = Held
      BY <1>2, <2>1 DEF Held
    <2>3. r \notin Range(stub)
      BY <1>2, <1>4, HeldIsAccepted
    <2>4. {r} \subseteq given /\ {r} \cap Held = {}
      BY <1>1, <1>2, <2>3 DEF Held, EmptyFile
    <2>. QED BY <1>2, <2>1, <2>2, <2>4, ARefusal
  <1>. QED BY <1>3, <1>4

(* A record that was refused in a request comes back in that request only.  *)
LEMMA ReceiveWholeReports ==
    ASSUME SinkInv, RefusedInv, SentTogether, NEW q \in wire, ReceiveWhole(q)
    PROVE  Contract!Next
  <1>1. PICK S :
              /\ RequestIs(q.chunk) /\ style = "whole" /\ kind = "http"
              /\ Range(stub') = Range(stub) \cup S
              /\ \/ S = Range(q.chunk) /\ TakesAll(stub, q.chunk) /\ refused' = refused
                 \/ /\ S = {} /\ ~ TakesAll(stub, q.chunk) /\ stub' = stub
                    /\ refused' = refused \cup Range(q.chunk)
    BY ReceiveWholeIs
  <1>2. /\ StubOK(stub) /\ given \subseteq Records /\ file = EmptyFile
        /\ UNCHANGED <<call, file, given, delivered, killed>>
    BY <1>1 DEF ReceiveWhole, SinkInv, HeldOK, RefusedInv
  <1>3. /\ q.chunk \in Requests /\ Range(q.chunk) \subseteq given
        /\ q.chunk \in Seq(Records) /\ \A r \in Range(q.chunk) : ~ Unsendable(kind, r)
    BY <1>1 DEF SinkInv, WireOK, RequestOK, RequestIs
  <1>4. CASE S = Range(q.chunk) /\ TakesAll(stub, q.chunk) /\ refused' = refused
    <2>1. Held' = Held \cup S /\ UNCHANGED history
      BY <1>1, <1>2, <1>4 DEF Held, history
    <2>2. S \cap refused = {}
      <3>. SUFFICES ASSUME NEW r \in S, r \in refused PROVE FALSE
        OBVIOUS
      <3>1. PICK c \in Requests : r \in Range(c) /\ ~ TakesAll(stub, c)
        BY <1>1, <1>3, <1>4 DEF RefusedInv, ForGood
      <3>2. c = q.chunk
        BY <1>3, <1>4, <3>1 DEF SentTogether
      <3>. QED BY <1>4, <3>1, <3>2
    <2>. QED BY <1>2, <1>3, <1>4, <2>1, <2>2, ATake
  <1>5. CASE ~ TakesAll(stub, q.chunk) /\ stub' = stub /\ refused' = refused \cup Range(q.chunk)
    <2>1. Held' = Held
      BY <1>2, <1>5 DEF Held
    <2>2. Range(q.chunk) \cap Range(stub) = {}
      <3>. SUFFICES ASSUME Range(q.chunk) \cap Range(stub) # {} PROVE FALSE
        OBVIOUS
      <3>1. Range(q.chunk) \subseteq Range(stub)
        BY <1>1, <1>3 DEF RefusedInv
      <3>. QED BY <1>2, <1>3, <1>5, <3>1, HeldIsTaken
    <2>3. Range(q.chunk) \cap Held = {}
      BY <1>2, <2>2 DEF Held, EmptyFile
    <2>. QED BY <1>2, <1>3, <1>5, <2>1, <2>3, ARefusal
  <1>. QED BY <1>1, <1>4, <1>5

(* The worker a request is answered to is in a call.                        *)
LEMMA ToIsInACall ==
    ASSUME SinkInv, NEW q \in wire, q.to # Nobody
    PROVE  q.to \in Workers /\ call[q.to].at # "idle"
  <1>1. q.to \in Workers /\ call[q.to].at = "wait"
    BY DEF SinkInv, WireOK, RequestOK, Awaits
  <1>. QED BY <1>1

LEMMA NoAnswerReports ==
    ASSUME SinkInv, RefusedInv, NEW q \in wire, LoseRequest(q) \/ Interfere(q)
    PROVE  Contract!Next \/ UNCHANGED Contract!vars
  <1>1. /\ \/ q.to = Nobody /\ call' = call
           \/ q.to # Nobody /\ call' = [v \in Workers |-> IF v = q.to THEN NoCall ELSE call[v]]
        /\ UNCHANGED <<kind, style, stub, file, history>>
    BY NoAnswerRefuses
  <1>2. Held' = Held
    BY <1>1 DEF Held
  <1>3. CASE q.to = Nobody
    <2>1. \A v \in Workers : Range(call'[v].batch) = Range(call[v].batch)
      BY <1>1, <1>3
    <2>. QED BY <1>1, <1>2, <2>1, NothingHappens
  <1>4. CASE q.to # Nobody
    <2>1. q.to \in Workers /\ call[q.to].at # "idle"
      BY <1>4, ToIsInACall
    <2>2. call'[q.to] = NoCall /\ \A v \in Workers \ {q.to} : call'[v] = call[v]
      BY <1>1, <1>4, <2>1
    <2>. QED BY <1>1, <1>2, <2>1, <2>2, AFault
  <1>. QED BY <1>3, <1>4

LEMMA ReplyReports ==
    ASSUME SinkInv, RefusedInv, NEW q \in wire, Reply(q)
    PROVE  Contract!Next \/ UNCHANGED Contract!vars
  <1>1. PICK status, body : AnswerOf(q, status, body)
    BY ReplyIs
  <1>2. UNCHANGED <<stub, file, history>>
    BY DEF Reply
  <1>3. Held' = Held
    BY <1>2 DEF Held
  <1>4. CASE q.to # Nobody /\ call' = [v \in Workers |-> IF v = q.to THEN NoCall ELSE call[v]]
    <2>1. q.to \in Workers /\ call[q.to].at # "idle"
      BY <1>4, ToIsInACall
    <2>2. call'[q.to] = NoCall /\ \A v \in Workers \ {q.to} : call'[v] = call[v]
      BY <1>4, <2>1
    <2>. QED BY <1>2, <1>3, <2>1, <2>2, AFault
  <1>5. CASE ~ (q.to # Nobody /\ call' = [v \in Workers |-> IF v = q.to THEN NoCall ELSE call[v]])
    <2>1. \A v \in Workers : call'[v].batch = call[v].batch
      BY <1>1, <1>5 DEF AnswerOf
    <2>2. \A v \in Workers : Range(call'[v].batch) = Range(call[v].batch)
      BY <2>1
    <2>. QED BY <1>2, <1>3, <2>2, NothingHappens
  <1>. QED BY <1>4, <1>5

(* The refinement: what each step of a sink is in the contract.             *)
LEMMA SinkReports ==
    ASSUME SinkInv, RefusedInv, style = "whole" => SentTogether, [SinkNext]_sinkVars
    PROVE  [Contract!Next]_(Contract!vars)
  <1>1. ASSUME NEW w \in Workers, NEW batch \in Batches, Deliver(w, batch)
        PROVE  Contract!Next
    BY <1>1, DeliverHands
  <1>2. ASSUME NEW w \in Workers, WorkerStep(w) \/ NoCredential(w) \/ GiveUp(w) \/ Crash(w) \/ WriteFails(w)
        PROVE  Contract!Next \/ UNCHANGED Contract!vars
    BY <1>2, FaultReports, StepReports, MarshalReports, StubRecordReports, AllDoneReports DEF WorkerStep
  <1>3. ASSUME NEW q \in wire,
               ReceiveRecord(q) \/ ReceiveWhole(q) \/ Reply(q) \/ LoseRequest(q) \/ Interfere(q)
        PROVE  Contract!Next \/ UNCHANGED Contract!vars
    <2>1. ReceiveWhole(q) => SentTogether
      BY DEF ReceiveWhole
    <2>. QED BY <1>3, <2>1, ReceiveRecordReports, ReceiveWholeReports, ReplyReports, NoAnswerReports
  <1>4. CASE UNCHANGED sinkVars
    <2>1. UNCHANGED <<stub, file, call, history>>
      BY <1>4 DEF sinkVars
    <2>2. Held' = Held /\ \A v \in Workers : Range(call'[v].batch) = Range(call[v].batch)
      BY <2>1 DEF Held
    <2>. QED BY <2>1, <2>2, NothingHappens
  <1>. QED BY <1>1, <1>2, <1>3, <1>4 DEF SinkNext

(* What the code asks of a receiver that answers 422: the same bytes come   *)
(* back the same way (statusOf), so a document is in one request only.      *)
SameBytes == style = "whole" => SentTogether

LEMMA SameBytesStays == SameBytes /\ [SinkNext]_sinkVars => SameBytes'
  <1>. SUFFICES ASSUME SameBytes, [SinkNext]_sinkVars PROVE SameBytes'
    OBVIOUS
  <1>1. ASSUME NEW w \in Workers, WorkerStep(w) PROVE style' = style
    BY <1>1 DEF WorkerStep, Token, Marshal, AllDone, Send, StubRecord, WriteFile, WriteFault
  <1>2. style' = style
    BY <1>1 DEF SinkNext, sinkVars, Deliver, NoCredential, GiveUp, Crash, WriteFails,
                ReceiveRecord, ReceiveWhole, Reply, LoseRequest, Interfere
  <1>. QED BY <1>2 DEF SameBytes

(* The Sink interface: the three sinks implement SinkContract, whatever is  *)
(* lost, late, repeated, garbled or cut short.                              *)
THEOREM SinksKeepContract == SameBytes /\ SinkSpec => KeepsContract
  <1>1. SinkInit => SinkInv /\ RefusedInv /\ Contract!Init
    BY SinkInvInit, RefusedInvInit, ContractStart
  <1>2. SinkInv /\ RefusedInv /\ SameBytes /\ [SinkNext]_sinkVars
           => SinkInv' /\ RefusedInv' /\ SameBytes' /\ [Contract!Next]_(Contract!vars)
    BY SinkInvStep, RefusedInvStep, SameBytesStays, SinkReports DEF SameBytes
  <1>. QED BY <1>1, <1>2, PTL DEF SinkSpec, KeepsContract, Contract!Spec

(* DeliveryResult: a record that was reported taken is at the receiver, and *)
(* a dead letter is never about a record that landed.                       *)
THEOREM SinksReportTruly == SameBytes /\ SinkSpec => []Contract!ReportsAreTrue
  <1>. DEFINE Inv == SinkInv /\ RefusedInv /\ SameBytes /\ killed \subseteq refused
  <1>1. SinkInit => SinkInv /\ RefusedInv /\ killed \subseteq refused
    BY SinkInvInit, RefusedInvInit DEF SinkInit
  <1>2. Inv /\ [SinkNext]_sinkVars => Inv'
    <2>. SUFFICES ASSUME Inv, [SinkNext]_sinkVars PROVE Inv'
      OBVIOUS
    <2>1. SinkInv' /\ RefusedInv' /\ SameBytes' /\ [Contract!Next]_(Contract!vars)
      BY SinkInvStep, RefusedInvStep, SameBytesStays, SinkReports DEF SameBytes
    <2>2. killed' \subseteq refused'
      BY <2>1 DEF Contract!Next, Contract!vars, Contract!Hand, Contract!Take, Contract!Refuse,
                  Contract!Result, Contract!Fault
    <2>. QED BY <2>1, <2>2
  <1>3. Inv => Contract!ReportsAreTrue
    BY RefusedIsNotHeld DEF SinkInv, HeldOK, Contract!ReportsAreTrue
  <1>. HIDE DEF Inv
  <1>4. SameBytes /\ SinkInit => Inv
    BY <1>1 DEF Inv
  <1>. QED BY <1>2, <1>3, <1>4, PTL DEF SinkSpec

=============================================================================
