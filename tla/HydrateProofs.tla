--------------------------- MODULE HydrateProofs ---------------------------
(***************************************************************************)
(* What hydration rests on, for every value of the constants: the rate     *)
(* limiter under any clock, the ClickUp provider, and the vaults.          *)
(***************************************************************************)
EXTENDS ClickUp, Vault, FiniteSetTheorems, SequenceTheorems, TLAPS

-----------------------------------------------------------------------------
(* The rate limiter *)

(* What a request takes out of the bucket is what it adds to the observer's *)
(* level, and time fills the one no faster than it drains the other.        *)
RateInv ==
    /\ clock \in 0..MaxClock /\ tokens \in Nat /\ level \in Nat
    /\ last \in 0..MaxClock /\ peak = last
    /\ tokens + level <= Burst * PerToken

(* A bucket holds a natural number of units.                                *)
LEMMA BucketSize == Burst * PerToken \in Nat
  BY LimiterAssumption

(* The limiter starts with a full bucket and nothing measured.              *)
LEMMA RateInit == LimiterInit => RateInv
  BY BucketSize, LimiterAssumption DEF LimiterInit, RateInv

(* Every answer of allow, and every jump of the clock, keeps the balance.   *)
LEMMA RateStep == RateInv /\ [LimiterNext]_limiterVars => RateInv'
<1> SUFFICES ASSUME RateInv, [LimiterNext]_limiterVars PROVE RateInv'
  OBVIOUS
<1> DEFINE size == Burst * PerToken
<1>0. size \in Nat /\ PerToken \in Nat /\ MaxClock \in Nat
  BY BucketSize, LimiterAssumption
<1> HIDE DEF size
<1>1. CASE Tick
  <2>1. clock' \in 0..MaxClock
    BY <1>0, <1>1 DEF Tick
  <2> QED
    BY <2>1, <1>1 DEF Tick, RateInv
<1>2. CASE Allow
  <2>1. /\ Refilled \in Nat /\ Refilled >= PerToken
        /\ Refilled + Higher(level - (Higher(peak, clock) - peak), 0) <= size
    BY <1>0, <1>2 DEF Allow, Refilled, Lower, Higher, RateInv, size
  <2>2. /\ peak' = Higher(last, clock) /\ last' = Higher(last, clock)
        /\ clock' = clock /\ tokens' = Refilled - PerToken
        /\ level' = Higher(level - (peak' - peak), 0) + PerToken
    BY <1>2 DEF Allow, Observe, Metered, Reading, RateInv
  <2>3. Higher(level - (peak' - peak), 0) \in Nat
    BY <2>2 DEF Higher, RateInv
  <2>4. tokens' + level' <= size
    BY <2>1, <2>2, <2>3, <1>0 DEF RateInv
  <2>5. last' \in 0..MaxClock /\ peak' = last'
    BY <2>2, <1>0 DEF Higher, RateInv
  <2> QED
    BY <2>1, <2>2, <2>3, <2>4, <2>5, <1>0 DEF RateInv, size
<1>3. CASE Disallow
  <2>1. /\ Refilled \in Nat
        /\ Refilled + Higher(level - (Higher(peak, clock) - peak), 0) <= size
    BY <1>0 DEF Refilled, Lower, Higher, RateInv, size
  <2>2. /\ peak' = Higher(last, clock) /\ last' = Higher(last, clock)
        /\ clock' = clock /\ tokens' = Refilled
        /\ level' = Higher(level - (peak' - peak), 0) + 0
    BY <1>3 DEF Disallow, Observe, Metered, Reading, RateInv
  <2>3. Higher(level - (peak' - peak), 0) \in Nat
    BY <2>2, <1>0 DEF Higher, RateInv
  <2>4. last' \in 0..MaxClock /\ peak' = last'
    BY <2>2, <1>0 DEF Higher, RateInv
  <2> QED
    BY <2>1, <2>2, <2>3, <2>4, <1>0 DEF RateInv, size
<1>4. CASE UNCHANGED limiterVars
  BY <1>4 DEF limiterVars, RateInv
<1> QED
  BY <1>1, <1>2, <1>3, <1>4 DEF LimiterNext

(* The bucket never holds more than its burst and never less than nothing,  *)
(* and what the limiter remembers of the clock is a reading of it.          *)
THEOREM TypeHeld == LimiterSpec => []LimiterTypeOK
<1>1. RateInv => LimiterTypeOK
  BY BucketSize DEF RateInv, LimiterTypeOK
<1> QED
  BY <1>1, RateInit, RateStep, PTL DEF LimiterSpec

(* The rate limiter never exceeds its rate by more than its burst, over any *)
(* window and under any clock.                                              *)
THEOREM RateHeld == LimiterSpec => []RateHolds
<1>1. RateInv => RateHolds
  BY BucketSize DEF RateInv, RateHolds
<1> QED
  BY <1>1, RateInit, RateStep, PTL DEF LimiterSpec

-----------------------------------------------------------------------------
(* ClickUp: what is there, and what was read of it *)

Tasks == [updated : Nat, edits : Nat, list : Lists]

CommentsAre == [id : Nat, date : Nat, edits : Nat]

Deliveries == [on : Nat, at : Nat, shown : BOOLEAN]

RecordsAre == [of : Nat, version : Nat, list : Lists, edits : Nat]

(* The comments are newest first, and each was posted before now.           *)
CommentsOK(coms, n) ==
    /\ coms \in Seq(CommentsAre)
    /\ \A i \in DOMAIN coms : coms[i].date = coms[i].id /\ 0 < coms[i].id /\ coms[i].id <= Old + n
    /\ \A i, j \in DOMAIN coms : i < j => coms[j].id < coms[i].id

(* A delivery has the time of its change, or its subject has, or it is one  *)
(* that is not shown.                                                       *)
ChangesOK ==
    /\ changes \in Seq(Deliveries)
    /\ \A d \in DOMAIN changes :
          /\ changes[d].on <= Old + d /\ changes[d].at \in {Unread, Old + d}
          /\ \/ ~changes[d].shown /\ changes[d].at = Unread
             \/ changes[d].at = Old + d
             \/ changes[d].on = Old + d
             \/ changes[d].on = Task /\ Old + d <= task.updated
          /\ changes[d].on # Task => \E i \in DOMAIN comments : comments[i].id = changes[d].on

TaskOK ==
    /\ task \in Tasks /\ task.updated <= Now
    /\ changes # <<>> => task.updated < Now

(* Between the comment a page ended with, and the one wanted, are those the *)
(* pages have not passed.                                                   *)
Passed(c, chs, coms) ==
    \/ c.page = 0 /\ c.cursor = 0
    \/ \E k, j \in DOMAIN coms :
          /\ k < j /\ coms[k].id = c.cursor /\ coms[j].id = chs[c.delivery].on
          /\ c.newer >= c.page * PageSize + (j - k - 1)

Paging(c) == c.at \in {"comment", "await comment"}

CallOK(c, chs, coms) ==
    \/ c = NoCall
    \/ /\ c = [at |-> c.at, delivery |-> c.delivery, task |-> c.task, page |-> c.page,
               cursor |-> c.cursor, newer |-> c.newer]
       /\ c.at \in {"token", "task", "await task", "comment", "await comment"}
       /\ c.delivery \in DOMAIN chs
       /\ c.page \in Nat /\ c.page < MaxPages /\ c.newer \in Nat /\ Passed(c, chs, coms)
       /\ Paging(c) => c.task \in Tasks /\ chs[c.delivery].on # Task
       /\ ~ Paging(c) => c.page = 0

CallsOK ==
    /\ call = [w \in Workers |-> call[w]]
    /\ \A w \in Workers : CallOK(call[w], changes, comments)

(* The record of the task a call will make, when it finds its comment.      *)
Beside(c) == TaskRecord(c.task, c.task.updated)

(* What was read: the records, and what calls hold of the task.             *)
ReadSoFar == records \cup {Beside(call[w]) : w \in {v \in Workers : Paging(call[v])}}

(* A record is out of date only if its entity changed after its version, or *)
(* changed last in a way that is not seen.                                  *)
Outdated(r) ==
    \E d \in DOMAIN changes : changes[d].on = r.of /\ changes[d].shown /\ r.version < Old + d

Current(r) ==
    IF r.of = Task
    THEN r.list = task.list /\ r.edits = task.edits
    ELSE \E i \in DOMAIN comments : comments[i].id = r.of /\ comments[i].edits = r.edits

ReadOK(r) ==
    /\ r \in RecordsAre /\ r.version < Now
    /\ Outdated(r) \/ Current(r) \/ ~SeenOf(r.of)
    /\ r.of = Task /\ task.updated <= r.version => r.edits = task.edits

Agree(r, s) == r.of = s.of /\ r.version = s.version => r.edits = s.edits \/ KeptVersion(r)

ReadSoFarOK ==
    /\ \A r \in ReadSoFar : ReadOK(r)
    /\ \A r, s \in ReadSoFar : Agree(r, s)

(* The record of a comment has the time of the change that made it, or the  *)
(* comment's own.                                                           *)
MadeBy(r, d) ==
    /\ changes[d].on = r.of
    /\ r.version = Old + d \/ (~changes[d].shown /\ r.version = r.of)

StoredOK ==
    /\ \A r \in records : r.of # Task => \E d \in done : MadeBy(r, d)
    /\ done \subseteq DOMAIN changes
    /\ \A d \in done : changes[d].shown =>
          \E r \in records : r.of = changes[d].on /\ Old + d <= r.version

HydrateInv ==
    /\ CommentsOK(comments, Len(changes)) /\ ChangesOK /\ TaskOK /\ CallsOK
    /\ ReadSoFarOK /\ StoredOK /\ RecentIsFound

-----------------------------------------------------------------------------
(* A page of comments *)

(* In a list of comments, those newer than one of them are those before it. *)
LEMMA NewerAreBefore ==
    ASSUME NEW coms, NEW n \in Nat, CommentsOK(coms, n), NEW k \in DOMAIN coms
    PROVE  /\ k \in Nat /\ Len(coms) \in Nat /\ DOMAIN coms = 1..Len(coms)
           /\ Cardinality({i \in DOMAIN coms : coms[i].date >= coms[k].id}) = k
           /\ Cardinality({i \in DOMAIN coms : coms[i].date > coms[k].id}) = k - 1
  <1>1. Len(coms) \in Nat /\ DOMAIN coms = 1..Len(coms)
    BY DEF CommentsOK
  <1>2. k \in 1..Len(coms)
    BY <1>1
  <1>3. \A i \in 1..Len(coms) : coms[i].date \in Nat /\ coms[i].date = coms[i].id
    <2>1. coms \in Seq(CommentsAre)
      BY DEF CommentsOK
    <2>2. \A i \in 1..Len(coms) : coms[i] \in CommentsAre
      BY <2>1
    <2>. QED BY <1>1, <2>2 DEF CommentsOK, CommentsAre
  <1>4. \A i \in 1..Len(coms) : /\ i < k => coms[k].id < coms[i].id
                                /\ k < i => coms[i].id < coms[k].id
    BY <1>1, <1>2 DEF CommentsOK
  <1>5. \A i \in 1..Len(coms) : (coms[i].date >= coms[k].id <=> i <= k) /\ (coms[i].date > coms[k].id <=> i < k)
    BY <1>2, <1>3, <1>4
  <1>6. {i \in DOMAIN coms : coms[i].date >= coms[k].id} = 1..k
    BY <1>1, <1>2, <1>5
  <1>7. {i \in DOMAIN coms : coms[i].date > coms[k].id} = 1..(k - 1)
    BY <1>1, <1>2, <1>5
  <1>8. Cardinality(1..k) = k /\ Cardinality(1..(k - 1)) = k - 1
    <2>1. k \in Int /\ k - 1 \in Int /\ 1 \in Int /\ k > 0
      BY <1>2
    <2>2. Cardinality(1..k) = IF 1 > k THEN 0 ELSE k - 1 + 1
      BY <2>1, FS_Interval
    <2>3. Cardinality(1..(k - 1)) = IF 1 > k - 1 THEN 0 ELSE k - 1 - 1 + 1
      BY <2>1, FS_Interval
    <2>. QED BY <2>1, <2>2, <2>3
  <1>9. k \in Nat
    BY <1>2
  <1>. QED BY <1>1, <1>6, <1>7, <1>8, <1>9

(* What a page holds: the comments behind the first skip, or what is left.  *)
IsPage(page, skip) ==
    /\ skip \in 0..Len(comments) /\ Len(page) \in Nat /\ DOMAIN page = 1..Len(page)
    /\ Len(page) = Lower(PageSize, Len(comments) - skip)
    /\ \A i \in 1..Len(page) : page[i] = comments[skip + i]

LEMMA PageIs ==
    ASSUME CommentsOK(comments, Len(changes)), Len(changes) \in Nat,
           NEW skip \in 0..Len(comments), NEW cursor,
           \/ cursor = 0 /\ skip = 0
           \/ skip \in DOMAIN comments /\ cursor = comments[skip].id
    PROVE  IsPage(Page(cursor), skip)
  <1>1. Len(comments) \in Nat /\ comments \in Seq(CommentsAre) /\ DOMAIN comments = 1..Len(comments)
    BY DEF CommentsOK
  <1>2. PICK S : S = {i \in DOMAIN comments : cursor # 0 /\ comments[i].date >= cursor}
    OBVIOUS
  <1>3. Cardinality(S) = skip
    <2>1. CASE cursor = 0 /\ skip = 0
      BY <2>1, <1>2, FS_EmptySet
    <2>2. CASE skip \in DOMAIN comments /\ cursor = comments[skip].id
      <3>1. cursor # 0
        BY <2>2 DEF CommentsOK
      <3>2. S = {i \in DOMAIN comments : comments[i].date >= comments[skip].id}
        BY <2>2, <3>1, <1>2
      <3>. QED BY <2>2, <3>2, NewerAreBefore
    <2>. QED BY <2>1, <2>2
  <1>4. Page(cursor) = SubSeq(comments, skip + 1, Lower(skip + PageSize, Len(comments)))
    BY <1>2, <1>3 DEF Page
  <1>5. PICK end \in Nat : /\ end = Lower(skip + PageSize, Len(comments)) /\ skip <= end /\ end <= Len(comments)
                            /\ end - skip = Lower(PageSize, Len(comments) - skip)
    <2>1. PICK x \in Nat : x = PageSize
      BY ClickUpAssumption
    <2>2. PICK n \in Nat : n = Len(comments)
      BY <1>1
    <2>3. skip \in Nat /\ skip <= n
      BY <2>2
    <2>4. CASE skip + x < n
      BY <2>1, <2>2, <2>3, <2>4 DEF Lower
    <2>5. CASE ~ (skip + x < n)
      BY <2>1, <2>2, <2>3, <2>5 DEF Lower
    <2>. QED BY <2>4, <2>5
  <1>6. \A i \in (skip + 1)..end : comments[i] \in CommentsAre
    BY <1>1, <1>5
  <1>7. PICK page : page = SubSeq(comments, skip + 1, end)
    OBVIOUS
  <1>8. /\ page \in Seq(CommentsAre)
        /\ Len(page) = IF skip + 1 <= end THEN end - (skip + 1) + 1 ELSE 0
        /\ \A i \in 1..(end - (skip + 1) + 1) : page[i] = comments[skip + 1 + i - 1]
    <2>1. skip + 1 \in Int /\ end \in Int
      BY <1>5
    <2>. QED BY <2>1, <1>6, <1>7, SubSeqProperties
  <1>9. Len(page) = end - skip /\ end - (skip + 1) + 1 = end - skip
    BY <1>5, <1>8
  <1>10. \A i \in 1..Len(page) : page[i] = comments[skip + i]
    <2>. TAKE i \in 1..Len(page)
    <2>1. skip + 1 + i - 1 = skip + i
      BY <1>9
    <2>. QED BY <2>1, <1>8, <1>9
  <1>11. Page(cursor) = page
    BY <1>4, <1>5, <1>7
  <1>. QED BY <1>5, <1>8, <1>9, <1>10, <1>11 DEF IsPage

-----------------------------------------------------------------------------
(* The start *)

LEMMA IdleIsOK ==
    ASSUME NEW chs, NEW coms
    PROVE  CallOK(NoCall, chs, coms) /\ ~ Paging(NoCall)
  BY DEF CallOK, NoCall, Paging

LEMMA HydrateInvInit == ClickUpInit => HydrateInv
  <1>. SUFFICES ASSUME ClickUpInit PROVE HydrateInv
    OBVIOUS
  <1>1. Len(changes) = 0 /\ DOMAIN changes = {} /\ changes \in Seq(Deliveries)
    BY DEF ClickUpInit
  <1>2. CommentsOK(comments, 0)
    <2>1. Old \in Nat
      BY ClickUpAssumption
    <2>2. comments = [i \in 1..Old |-> Comment(Old + 1 - i, 0)]
      BY DEF ClickUpInit
    <2>3. \A i \in 1..Old : Comment(Old + 1 - i, 0) \in CommentsAre
      BY <2>1 DEF Comment, CommentsAre
    <2>4. comments \in Seq(CommentsAre) /\ DOMAIN comments = 1..Old
      <3>1. \A i \in 1..Old : comments[i] \in CommentsAre
        BY <2>2, <2>3
      <3>2. comments \in [1..Old -> CommentsAre]
        BY <2>2, <2>3
      <3>. QED BY <2>1, <3>2, SeqDef
    <2>5. \A i \in 1..Old : comments[i].id = Old + 1 - i /\ comments[i].date = Old + 1 - i
      BY <2>2 DEF Comment
    <2>. QED BY <2>1, <2>4, <2>5 DEF CommentsOK
  <1>3. ChangesOK
    BY <1>1 DEF ChangesOK
  <1>4. TaskOK
    BY <1>1, ClickUpAssumption DEF TaskOK, ClickUpInit, Tasks, Now
  <1>5. CallsOK
    BY IdleIsOK DEF CallsOK, ClickUpInit
  <1>6. ReadSoFar = {}
    <2>1. \A w \in Workers : ~ Paging(call[w])
      BY IdleIsOK DEF ClickUpInit
    <2>. QED BY <2>1 DEF ReadSoFar, ClickUpInit
  <1>7. ReadSoFarOK /\ StoredOK /\ RecentIsFound
    BY <1>6 DEF ReadSoFarOK, StoredOK, RecentIsFound, ClickUpInit
  <1>. QED BY <1>1, <1>2, <1>3, <1>4, <1>5, <1>7 DEF HydrateInv

-----------------------------------------------------------------------------
(* What people do *)

(* Comments keep their places, but for a new one in front of all.           *)
Moved(coms, coms2) ==
    \E m \in {0, 1} : \A i \in DOMAIN coms : i \in Nat /\ i + m \in DOMAIN coms2 /\ coms2[i + m].id = coms[i].id

LEMMA CallStays ==
    ASSUME NEW c, NEW chs, NEW chs2, NEW coms, NEW coms2, CallOK(c, chs, coms), Moved(coms, coms2),
           \A d \in DOMAIN chs : d \in DOMAIN chs2 /\ chs2[d] = chs[d]
    PROVE  CallOK(c, chs2, coms2)
  <1>1. CASE c = NoCall
    BY <1>1, IdleIsOK
  <1>2. CASE c # NoCall
    <2>1. c.delivery \in DOMAIN chs /\ Passed(c, chs, coms)
      BY <1>2 DEF CallOK
    <2>2. PICK m \in {0, 1} :
             \A i \in DOMAIN coms : i \in Nat /\ i + m \in DOMAIN coms2 /\ coms2[i + m].id = coms[i].id
      BY DEF Moved
    <2>3. Passed(c, chs2, coms2)
      <3>1. CASE c.page = 0 /\ c.cursor = 0
        BY <3>1 DEF Passed
      <3>2. CASE ~ (c.page = 0 /\ c.cursor = 0)
        <4>1. PICK k, j \in DOMAIN coms :
                 /\ k < j /\ coms[k].id = c.cursor /\ coms[j].id = chs[c.delivery].on
                 /\ c.newer >= c.page * PageSize + (j - k - 1)
          BY <2>1, <3>2 DEF Passed
        <4>2. /\ k + m \in DOMAIN coms2 /\ j + m \in DOMAIN coms2 /\ k + m < j + m
              /\ coms2[k + m].id = c.cursor /\ coms2[j + m].id = chs2[c.delivery].on
              /\ (j + m) - (k + m) - 1 = j - k - 1
          BY <2>1, <2>2, <4>1
        <4>. QED BY <4>1, <4>2 DEF Passed
      <3>. QED BY <3>1, <3>2
    <2>. QED BY <1>2, <2>1, <2>3 DEF CallOK
  <1>. QED BY <1>1, <1>2

(* A change that is written where it was made, and told of.                 *)
LEMMA ChangeKeeps ==
    ASSUME HydrateInv, NEW on \in Nat, NEW own \in Nat, Change(on, own),
           CommentsOK(comments', Len(changes)'), Moved(comments, comments'),
           own = Now => on = Now \/ (on = Task /\ task'.updated = Now),
           on <= Now, on # Task => \E i \in DOMAIN comments' : comments'[i].id = on,
           task' \in Tasks,
           (task'.updated = task.updated /\ task'.edits = task.edits) \/ task'.updated = Now,
           on # Task => task' = task,
           \A i \in DOMAIN comments : comments[i].id # on =>
               \E j \in DOMAIN comments' : comments'[j].id = comments[i].id /\ comments'[j].edits = comments[i].edits
    PROVE  HydrateInv'
  <1>1. PICK n \in Nat : n = Len(changes) /\ DOMAIN changes = 1..n /\ changes \in Seq(Deliveries)
    BY DEF HydrateInv, ChangesOK
  <1>2. Old \in Nat /\ Now = Old + n + 1 /\ Now \in Nat
    BY <1>1, ClickUpAssumption DEF Now
  <1>3. UNCHANGED <<call, records, done, gaveUp>>
    BY DEF Change
  <1>0a. PICK at \in {Now, Unread} :
           changes' = Append(changes, [on |-> on, at |-> at, shown |-> Now \in {at, own}])
    BY DEF Change
  <1>0b. PICK shown \in BOOLEAN : shown = (Now \in {at, own})
    <2>1. CASE Now \in {at, own}
      <3>1. TRUE = (Now \in {at, own})
        BY <2>1
      <3>. QED BY <3>1
    <2>2. CASE Now \notin {at, own}
      <3>1. FALSE = (Now \in {at, own})
        BY <2>2
      <3>. QED BY <3>1
    <2>. QED BY <2>1, <2>2
  <1>4. PICK e \in Deliveries : /\ e = [on |-> on, at |-> at, shown |-> shown]
                                 /\ e.on = on /\ e.at = at /\ e.shown = shown
    <2>1. at \in Nat
      BY <1>2 DEF Unread
    <2>2. [on |-> on, at |-> at, shown |-> shown] \in Deliveries
      BY <2>1 DEF Deliveries
    <2>. QED BY <2>2
  <1>5. changes' = Append(changes, e)
    BY <1>0a, <1>0b, <1>4
  <1>6. /\ changes' \in Seq(Deliveries) /\ Len(changes') = n + 1 /\ DOMAIN changes' = 1..(n + 1)
        /\ changes'[n + 1] = e /\ \A d \in 1..n : changes'[d] = changes[d]
    BY <1>1, <1>5, AppendProperties
  <1>7. Now' = Now + 1
    BY <1>2, <1>6 DEF Now
  <1>8. task.updated \in Nat /\ task'.updated \in Nat /\ task.updated <= Now /\ task.updated <= task'.updated
    BY <1>2 DEF HydrateInv, TaskOK, Tasks
  <1>9. ChangesOK'
    <2>1. ASSUME NEW d \in 1..(n + 1)
          PROVE  /\ changes'[d].on <= Old + d /\ changes'[d].at \in {Unread, Old + d}
                 /\ \/ ~changes'[d].shown /\ changes'[d].at = Unread
                    \/ changes'[d].at = Old + d
                    \/ changes'[d].on = Old + d
                    \/ changes'[d].on = Task /\ Old + d <= task'.updated
                 /\ changes'[d].on # Task => \E i \in DOMAIN comments' : comments'[i].id = changes'[d].on
      <3>1. CASE d = n + 1
        <4>1. changes'[d].on = on /\ changes'[d].at = at /\ changes'[d].shown = shown /\ Old + d = Now
          BY <3>1, <1>2, <1>4, <1>6
        <4>2. ~shown => at = Unread
          BY <1>0b
        <4>3. at = Now \/ ~shown \/ on = Now \/ (on = Task /\ Now <= task'.updated)
          <5>1. ~shown \/ at = Now \/ own = Now
            BY <1>0b
          <5>2. own = Now => on = Now \/ (on = Task /\ Now <= task'.updated)
            BY <1>2
          <5>. QED BY <5>1, <5>2
        <4>. QED BY <1>2, <4>1, <4>2, <4>3
      <3>2. CASE d \in 1..n
        <4>1. /\ changes[d].on <= Old + d /\ changes[d].at \in {Unread, Old + d}
              /\ \/ ~changes[d].shown /\ changes[d].at = Unread
                 \/ changes[d].at = Old + d
                 \/ changes[d].on = Old + d
                 \/ changes[d].on = Task /\ Old + d <= task.updated
              /\ changes[d].on # Task => \E i \in DOMAIN comments : comments[i].id = changes[d].on
          BY <3>2, <1>1 DEF HydrateInv, ChangesOK
        <4>2. \A i \in DOMAIN comments : \E j \in DOMAIN comments' : comments'[j].id = comments[i].id
          BY DEF Moved
        <4>. QED BY <3>2, <4>1, <4>2, <1>2, <1>6, <1>8
      <3>. QED BY <3>1, <3>2
    <2>. QED BY <1>6, <2>1 DEF ChangesOK
  <1>10. TaskOK'
    BY <1>2, <1>7, <1>8 DEF TaskOK, HydrateInv
  <1>11. CallsOK'
    <2>1. \A w \in Workers : CallOK(call[w], changes, comments)
      BY DEF HydrateInv, CallsOK
    <2>2. \A d \in DOMAIN changes : d \in DOMAIN changes' /\ changes'[d] = changes[d]
      BY <1>1, <1>6
    <2>3. PICK chs, chs2, coms, coms2, calls :
             chs = changes /\ chs2 = changes' /\ coms = comments /\ coms2 = comments' /\ calls = call
      OBVIOUS
    <2>4. \A w \in Workers : CallOK(calls[w], chs2, coms2)
      BY <2>1, <2>2, <2>3, CallStays
    <2>. QED BY <1>3, <2>3, <2>4 DEF HydrateInv, CallsOK
  <1>12. ReadSoFarOK'
    <2>1. ReadSoFar' = ReadSoFar
      BY <1>3 DEF ReadSoFar
    <2>2. ASSUME NEW r \in ReadSoFar
          PROVE  ReadOK(r)'
      <3>1. ReadOK(r)
        BY DEF HydrateInv, ReadSoFarOK
      <3>2. r \in RecordsAre /\ r.version < Now /\ r.version \in Nat /\ r.version < Now'
        BY <3>1, <1>2, <1>7 DEF ReadOK, RecordsAre
      <3>3. Outdated(r)' \/ Current(r)' \/ ~SeenOf(r.of)'
        <4>1. CASE r.of = on /\ shown
          <5>1. /\ changes'[n + 1].on = r.of /\ changes'[n + 1].shown
                /\ r.version < Old + (n + 1) /\ n + 1 \in DOMAIN changes'
            BY <4>1, <3>2, <1>1, <1>2, <1>4, <1>6
          <5>. QED BY <5>1 DEF Outdated
        <4>2. CASE r.of = on /\ ~shown
          <5>1. n + 1 \in DOMAIN changes' /\ changes'[n + 1].on = r.of /\ ~changes'[n + 1].shown
            BY <4>2, <1>4, <1>6
          <5>2. ASSUME NEW q \in DOMAIN changes', n + 1 <= q
                PROVE  q = n + 1
            BY <5>2, <1>6
          <5>. QED BY <5>1, <5>2 DEF SeenOf
        <4>3. CASE Outdated(r)
          <5>1. PICK d \in DOMAIN changes : changes[d].on = r.of /\ changes[d].shown /\ r.version < Old + d
            BY <4>3 DEF Outdated
          <5>2. d \in DOMAIN changes' /\ changes'[d].on = r.of /\ changes'[d].shown
            BY <5>1, <1>1, <1>6
          <5>. QED BY <5>1, <5>2 DEF Outdated
        <4>4. CASE Current(r) /\ r.of # on
          <5>1. CASE r.of = Task
            BY <4>4, <5>1 DEF Current
          <5>2. CASE r.of # Task
            BY <4>4, <5>2 DEF Current
          <5>. QED BY <5>1, <5>2
        <4>5. CASE ~SeenOf(r.of) /\ r.of # on
          <5>1. PICK d \in DOMAIN changes :
                   /\ changes[d].on = r.of
                   /\ ~ \E q \in DOMAIN changes : d <= q /\ changes[q].on = r.of /\ changes[q].shown
            BY <4>5 DEF SeenOf
          <5>2. d \in DOMAIN changes' /\ changes'[d].on = r.of
            BY <5>1, <1>1, <1>6
          <5>3. ASSUME NEW q \in DOMAIN changes', d <= q, changes'[q].on = r.of, changes'[q].shown
                PROVE  FALSE
            <6>1. q # n + 1
              BY <4>5, <5>3, <1>4, <1>6
            <6>2. q \in DOMAIN changes /\ changes[q] = changes'[q]
              BY <6>1, <1>1, <1>6
            <6>. QED BY <5>1, <5>3, <6>2
          <5>. QED BY <5>2, <5>3 DEF SeenOf
        <4>. QED BY <3>1, <4>1, <4>2, <4>3, <4>4, <4>5 DEF ReadOK
      <3>4. r.of = Task /\ task'.updated <= r.version => r.edits = task'.edits
        <4>1. CASE task'.updated = Now
          BY <4>1, <3>2, <1>2
        <4>2. CASE task'.updated = task.updated /\ task'.edits = task.edits
          BY <4>2, <3>1 DEF ReadOK
        <4>. QED BY <4>1, <4>2
      <3>. QED BY <3>2, <3>3, <3>4 DEF ReadOK
    <2>3. ASSUME NEW r, KeptVersion(r)
          PROVE  KeptVersion(r)'
      <3>1. PICK d \in DOMAIN changes : changes[d].on = r.of /\ ~changes[d].shown
        BY <2>3 DEF KeptVersion
      <3>2. PICK i \in DOMAIN comments : comments[i].id = r.of /\ comments[i].date = r.version
        BY <2>3 DEF KeptVersion
      <3>3. comments[i].date = comments[i].id
        BY DEF HydrateInv, CommentsOK
      <3>4. PICK j \in DOMAIN comments' : comments'[j].id = comments[i].id
        BY DEF Moved
      <3>5. comments'[j].date = comments'[j].id
        BY DEF CommentsOK
      <3>6. d \in DOMAIN changes' /\ changes'[d] = changes[d]
        BY <1>1, <1>6
      <3>. QED BY <3>1, <3>2, <3>3, <3>4, <3>5, <3>6 DEF KeptVersion
    <2>4. \A r, s : Agree(r, s) => Agree(r, s)'
      BY <2>3 DEF Agree
    <2>. QED BY <2>1, <2>2, <2>4 DEF HydrateInv, ReadSoFarOK
  <1>13. StoredOK'
    <2>1. \A d \in done : d \in DOMAIN changes' /\ changes'[d] = changes[d]
      BY <1>1, <1>6 DEF HydrateInv, StoredOK
    <2>. QED BY <1>3, <2>1 DEF HydrateInv, StoredOK, MadeBy
  <1>14. RecentIsFound'
    BY <1>3 DEF HydrateInv, RecentIsFound
  <1>. QED BY <1>9, <1>10, <1>11, <1>12, <1>13, <1>14 DEF HydrateInv

LEMMA WorldNats ==
    ASSUME HydrateInv
    PROVE  /\ Old \in Nat /\ Len(changes) \in Nat /\ Now \in Nat /\ Now = Old + Len(changes) + 1
           /\ Len(comments) \in Nat /\ DOMAIN comments = 1..Len(comments)
           /\ comments \in Seq(CommentsAre) /\ CommentsOK(comments, Len(changes))
           /\ task \in Tasks
           /\ \A i \in DOMAIN comments : comments[i] \in CommentsAre /\ comments[i].id \in Nat
  <1>1. /\ Old \in Nat /\ Len(changes) \in Nat /\ Now \in Nat /\ Now = Old + Len(changes) + 1
        /\ Len(comments) \in Nat /\ DOMAIN comments = 1..Len(comments)
        /\ comments \in Seq(CommentsAre) /\ CommentsOK(comments, Len(changes))
        /\ task \in Tasks
    BY ClickUpAssumption DEF HydrateInv, ChangesOK, CommentsOK, TaskOK, Now
  <1>2. \A i \in DOMAIN comments : comments[i] \in CommentsAre
    BY <1>1
  <1>3. \A c \in CommentsAre : c.id \in Nat
    BY DEF CommentsAre
  <1>. QED BY <1>1, <1>2, <1>3

LEMMA SamePlaces ==
    ASSUME HydrateInv, UNCHANGED comments, NEW on, NEW own, Change(on, own)
    PROVE  CommentsOK(comments', Len(changes)') /\ Moved(comments, comments')
  <1>1. Len(changes') = Len(changes) + 1
    BY AppendProperties DEF Change, HydrateInv, ChangesOK
  <1>2. CommentsOK(comments, Len(changes) + 1)
    <2>1. \A i \in DOMAIN comments : comments[i].id <= Old + Len(changes) => comments[i].id <= Old + (Len(changes) + 1)
      BY WorldNats
    <2>. QED BY <2>1, WorldNats DEF CommentsOK
  <1>3. Moved(comments, comments)
    BY WorldNats DEF Moved
  <1>. QED BY <1>1, <1>2, <1>3

LEMMA TaskKeeps ==
    ASSUME HydrateInv, EditTask \/ \E list \in Lists : MoveTask(list)
    PROVE  HydrateInv'
  <1>0. Now \in Nat /\ task \in Tasks /\ UNCHANGED comments
    BY WorldNats DEF EditTask, MoveTask
  <1>1. PICK u, e, l : task = [updated |-> u, edits |-> e, list |-> l] /\ u \in Nat /\ e \in Nat /\ l \in Lists
    BY <1>0 DEF Tasks
  <1>2. PICK own \in Nat :
           /\ Change(Task, own) /\ own = task'.updated
           /\ task' \in Tasks
           /\ (task'.updated = task.updated /\ task'.edits = task.edits) \/ task'.updated = Now
    <2>1. CASE EditTask
      <3>1. Change(Task, Now)
        BY <2>1 DEF EditTask
      <3>2. task' = [updated |-> Now, edits |-> e + 1, list |-> l]
        BY <2>1, <1>1 DEF EditTask
      <3>. QED BY <3>1, <3>2, <1>0, <1>1 DEF Tasks
    <2>2. CASE \E list \in Lists : MoveTask(list)
      <3>1. PICK list \in Lists : MoveTask(list)
        BY <2>2
      <3>2. PICK own \in {task.updated, Now} :
               Change(Task, own) /\ task' = [task EXCEPT !.list = list, !.updated = own]
        BY <3>1 DEF MoveTask
      <3>3. task' = [updated |-> own, edits |-> e, list |-> list]
        BY <3>2, <1>1
      <3>. QED BY <3>2, <3>3, <1>0, <1>1 DEF Tasks
    <2>. QED BY <2>1, <2>2
  <1>3. CommentsOK(comments', Len(changes)') /\ Moved(comments, comments')
    BY <1>0, <1>2, SamePlaces
  <1>4. Task \in Nat /\ Task <= Now
    BY <1>0 DEF Task
  <1>. QED BY <1>0, <1>2, <1>3, <1>4, ChangeKeeps

LEMMA PostKeeps ==
    ASSUME HydrateInv, PostComment
    PROVE  HydrateInv'
  <1>0. /\ Old \in Nat /\ Len(changes) \in Nat /\ Now \in Nat /\ Now = Old + Len(changes) + 1
        /\ Len(comments) \in Nat /\ DOMAIN comments = 1..Len(comments)
        /\ comments \in Seq(CommentsAre) /\ CommentsOK(comments, Len(changes)) /\ task \in Tasks
        /\ \A i \in DOMAIN comments : comments[i] \in CommentsAre /\ comments[i].id \in Nat
    BY WorldNats
  <1>1. Change(Now, Now)
    BY DEF PostComment
  <1>2. Len(changes') = Len(changes) + 1
    BY <1>1, AppendProperties DEF Change, HydrateInv, ChangesOK
  <1>3. PICK c \in CommentsAre : c = Comment(Now, 0) /\ c.id = Now /\ c.date = Now /\ c.edits = 0
    <2>1. Comment(Now, 0) \in CommentsAre
      BY <1>0 DEF CommentsAre, Comment
    <2>. QED BY <2>1 DEF Comment
  <1>4. PICK n \in Nat : n = Len(comments)
    BY <1>0
  <1>5. /\ comments' \in Seq(CommentsAre) /\ Len(comments') = n + 1 /\ DOMAIN comments' = 1..(n + 1)
        /\ comments'[1] = c /\ \A i \in 1..n : comments'[i + 1] = comments[i]
    <2>1. PICK one : one = <<c>>
      OBVIOUS
    <2>2. one \in Seq(CommentsAre) /\ Len(one) = 1 /\ one[1] = c
      BY <2>1
    <2>3. comments' = one \o comments
      BY <1>3, <2>1 DEF PostComment
    <2>4. PICK coms : coms = one \o comments
      OBVIOUS
    <2>5. /\ coms \in Seq(CommentsAre) /\ Len(coms) = 1 + n
          /\ \A i \in 1..(1 + n) : coms[i] = IF i <= 1 THEN one[i] ELSE comments[i - 1]
      <3>1. /\ coms \in Seq(CommentsAre) /\ Len(coms) = Len(one) + Len(comments)
            /\ \A i \in 1..(Len(one) + Len(comments)) :
                  coms[i] = IF i <= Len(one) THEN one[i] ELSE comments[i - Len(one)]
        BY <1>0, <2>2, <2>4, ConcatProperties
      <3>2. PICK m \in Nat : m = Len(one) /\ m = 1
        BY <2>2
      <3>. QED BY <3>1, <3>2, <1>4
    <2>6. \A i \in 1..n : i + 1 \in 1..(1 + n) /\ ~ (i + 1 <= 1) /\ i + 1 - 1 = i
      OBVIOUS
    <2>7. 1 \in 1..(1 + n) /\ 1 <= 1
      OBVIOUS
    <2>8. coms[1] = c /\ \A i \in 1..n : coms[i + 1] = comments[i]
      BY <2>2, <2>5, <2>6, <2>7
    <2>9. coms \in Seq(CommentsAre) /\ Len(coms) = n + 1 /\ DOMAIN coms = 1..(n + 1)
      BY <2>5
    <2>. QED BY <2>3, <2>4, <2>8, <2>9
  <1>6. \A i \in 1..n : /\ comments[i].date = comments[i].id /\ 0 < comments[i].id
                        /\ comments[i].id < Now /\ comments[i].id \in Nat
    BY <1>0, <1>4 DEF CommentsOK
  <1>7. CommentsOK(comments', Len(changes)')
    <2>1. ASSUME NEW i \in 1..(n + 1)
          PROVE  /\ comments'[i].date = comments'[i].id /\ 0 < comments'[i].id
                 /\ comments'[i].id <= Old + (Len(changes) + 1)
      <3>1. CASE i = 1
        BY <3>1, <1>0, <1>3, <1>5
      <3>2. CASE i # 1
        <4>1. i - 1 \in 1..n /\ i - 1 + 1 = i
          BY <3>2
        <4>2. comments'[i] = comments[i - 1]
          BY <4>1, <1>5
        <4>. QED BY <4>1, <4>2, <1>0, <1>6
      <3>. QED BY <3>1, <3>2
    <2>2. ASSUME NEW i \in 1..(n + 1), NEW j \in 1..(n + 1), i < j
          PROVE  comments'[j].id < comments'[i].id
      <3>1. j - 1 \in 1..n /\ j - 1 + 1 = j
        BY <2>2
      <3>2. comments'[j] = comments[j - 1]
        BY <3>1, <1>5
      <3>3. CASE i = 1
        BY <3>1, <3>2, <3>3, <1>3, <1>5, <1>6
      <3>4. CASE i # 1
        <4>1. i - 1 \in 1..n /\ i - 1 + 1 = i /\ i - 1 < j - 1
          BY <2>2, <3>4
        <4>2. comments'[i] = comments[i - 1]
          BY <4>1, <1>5
        <4>3. comments[j - 1].id < comments[i - 1].id
          BY <3>1, <4>1, <1>0, <1>4 DEF CommentsOK
        <4>. QED BY <3>2, <4>2, <4>3
      <3>. QED BY <3>3, <3>4
    <2>. QED BY <1>2, <1>5, <2>1, <2>2 DEF CommentsOK
  <1>8. Moved(comments, comments')
    BY <1>0, <1>4, <1>5 DEF Moved
  <1>9. \E i \in DOMAIN comments' : comments'[i].id = Now
    BY <1>3, <1>5
  <1>10. \A i \in DOMAIN comments :
            \E j \in DOMAIN comments' : comments'[j].id = comments[i].id /\ comments'[j].edits = comments[i].edits
    <2>. TAKE i \in DOMAIN comments
    <2>1. i \in 1..n /\ i + 1 \in 1..(n + 1)
      BY <1>0, <1>4
    <2>2. i + 1 \in DOMAIN comments' /\ comments'[i + 1] = comments[i]
      BY <2>1, <1>5
    <2>. QED BY <2>2
  <1>11. task' = task
    BY DEF PostComment
  <1>. QED BY <1>0, <1>1, <1>7, <1>8, <1>9, <1>10, <1>11, ChangeKeeps

LEMMA EditKeeps ==
    ASSUME HydrateInv, NEW i \in DOMAIN comments, EditComment(i)
    PROVE  HydrateInv'
  <1>0. /\ Old \in Nat /\ Len(changes) \in Nat /\ Now \in Nat /\ Now = Old + Len(changes) + 1
        /\ Len(comments) \in Nat /\ DOMAIN comments = 1..Len(comments)
        /\ comments \in Seq(CommentsAre) /\ CommentsOK(comments, Len(changes)) /\ task \in Tasks
        /\ \A j \in DOMAIN comments : comments[j] \in CommentsAre /\ comments[j].id \in Nat
    BY WorldNats
  <1>1. Change(comments[i].id, comments[i].date)
    BY DEF EditComment
  <1>2. Len(changes') = Len(changes) + 1
    BY <1>1, AppendProperties DEF Change, HydrateInv, ChangesOK
  <1>3. comments[i] \in CommentsAre /\ i \in 1..Len(comments)
    BY <1>0
  <1>4. PICK x \in Nat, y \in Nat, z \in Nat : comments[i] = [id |-> x, date |-> y, edits |-> z]
    BY <1>3 DEF CommentsAre
  <1>5. PICK c \in CommentsAre : c = [id |-> x, date |-> y, edits |-> z + 1] /\ c.id = comments[i].id /\ c.date = comments[i].date
    <2>1. [id |-> x, date |-> y, edits |-> z + 1] \in CommentsAre
      BY DEF CommentsAre
    <2>2. comments[i].id = x /\ comments[i].date = y
      BY <1>4
    <2>. QED BY <2>1, <2>2
  <1>6. comments' = [comments EXCEPT ![i] = c]
    <2>1. [comments[i] EXCEPT !.edits = comments[i].edits + 1] = c
      BY <1>4, <1>5
    <2>. QED BY <2>1 DEF EditComment
  <1>7. /\ comments' \in Seq(CommentsAre) /\ Len(comments') = Len(comments) /\ DOMAIN comments' = DOMAIN comments
        /\ \A j \in DOMAIN comments : comments'[j] = IF j = i THEN c ELSE comments[j]
    BY <1>0, <1>3, <1>5, <1>6, ExceptSeq
  <1>8. \A j \in DOMAIN comments : comments'[j].id = comments[j].id /\ comments'[j].date = comments[j].date
    BY <1>5, <1>7
  <1>9. CommentsOK(comments', Len(changes)')
    <2>1. \A j \in DOMAIN comments : comments'[j].id <= Old + (Len(changes) + 1)
      BY <1>0, <1>8 DEF CommentsOK
    <2>. QED BY <2>1, <1>0, <1>2, <1>7, <1>8 DEF CommentsOK
  <1>10. Moved(comments, comments')
    BY <1>0, <1>7, <1>8 DEF Moved
  <1>11. PICK on \in Nat : on = comments[i].id /\ 0 < on /\ on < Now /\ comments[i].date = on
    BY <1>0, <1>3 DEF CommentsOK, CommentsAre
  <1>12. \E j \in DOMAIN comments' : comments'[j].id = on
    BY <1>3, <1>7, <1>8, <1>11
  <1>13. \A j \in DOMAIN comments : comments[j].id # on => comments'[j] = comments[j]
    BY <1>7, <1>11
  <1>14. task' = task /\ on <= Now /\ on # Now /\ Change(on, on)
    BY <1>0, <1>1, <1>11 DEF EditComment
  <1>. QED BY <1>0, <1>7, <1>9, <1>10, <1>11, <1>12, <1>13, <1>14, ChangeKeeps

-----------------------------------------------------------------------------
(* What a worker does *)

CallIs(c) ==
    c = [at |-> c.at, delivery |-> c.delivery, task |-> c.task, page |-> c.page,
         cursor |-> c.cursor, newer |-> c.newer]

Places == {"token", "task", "await task", "comment", "await comment"}

LEMMA InACall ==
    ASSUME NEW c, NEW chs, NEW coms, CallOK(c, chs, coms), c.at # "idle"
    PROVE  /\ CallIs(c) /\ c.at \in Places /\ c.delivery \in DOMAIN chs
           /\ c.page \in Nat /\ c.page < MaxPages /\ c.newer \in Nat /\ Passed(c, chs, coms)
           /\ Paging(c) => c.task \in Tasks /\ chs[c.delivery].on # Task
           /\ ~ Paging(c) => c.page = 0
  <1>1. c # NoCall
    <2>1. NoCall.at = "idle"
      BY DEF NoCall
    <2>. QED BY <2>1
  <1>. QED BY <1>1 DEF CallOK, CallIs, Places

(* A call goes on with what it holds.                                       *)
LEMMA CallGoesOn ==
    ASSUME NEW c, NEW chs, NEW coms, CallOK(c, chs, coms), c.at # "idle",
           NEW x \in Places, x \in {"comment", "await comment"} <=> Paging(c),
           NEW e, e = [c EXCEPT !.at = x]
    PROVE  CallOK(e, chs, coms) /\ e.at = x /\ (Paging(e) <=> Paging(c)) /\ Beside(e) = Beside(c)
  <1>1. PICK a, d, t, p, u, n :
           c = [at |-> a, delivery |-> d, task |-> t, page |-> p, cursor |-> u, newer |-> n]
    <2>1. CallIs(c)
      BY InACall
    <2>. QED BY <2>1 DEF CallIs
  <1>2. e = [at |-> x, delivery |-> d, task |-> t, page |-> p, cursor |-> u, newer |-> n]
    BY <1>1
  <1>3. /\ c.delivery = d /\ c.task = t /\ c.page = p /\ c.cursor = u /\ c.newer = n
        /\ e.at = x /\ e.delivery = d /\ e.task = t /\ e.page = p /\ e.cursor = u /\ e.newer = n
    BY <1>1, <1>2
  <1>4. Paging(e) <=> Paging(c)
    BY <1>3 DEF Paging
  <1>5. Passed(e, chs, coms)
    <2>1. Passed(c, chs, coms)
      BY InACall
    <2>. QED BY <1>3, <2>1 DEF Passed
  <1>6. e = [at |-> e.at, delivery |-> e.delivery, task |-> e.task, page |-> e.page,
             cursor |-> e.cursor, newer |-> e.newer]
    BY <1>2, <1>3
  <1>7. /\ e.at \in {"token", "task", "await task", "comment", "await comment"}
        /\ e.delivery \in DOMAIN chs
        /\ e.page \in Nat /\ e.page < MaxPages /\ e.newer \in Nat
        /\ Paging(e) => e.task \in Tasks /\ chs[e.delivery].on # Task
        /\ ~ Paging(e) => e.page = 0
    BY <1>3, <1>4, InACall DEF Places
  <1>8. CallOK(e, chs, coms)
    BY <1>5, <1>6, <1>7 DEF CallOK
  <1>. QED BY <1>3, <1>4, <1>8 DEF Beside

(* A worker's step, which may read and store something new.                 *)
LEMMA WorkerKeeps ==
    ASSUME HydrateInv, UNCHANGED world, NEW w \in Workers, NEW c, CallOK(c, changes, comments),
           call' = [v \in Workers |-> IF v = w THEN c ELSE call[v]],
           NEW new, Paging(c) => Beside(c) \in ReadSoFar \cup new, records' \subseteq ReadSoFar \cup new,
           \A r \in new : ReadOK(r), \A r \in new : \A s \in ReadSoFar \cup new : Agree(r, s),
           StoredOK', RecentIsFound'
    PROVE  HydrateInv'
  <1>1. UNCHANGED <<task, comments, changes>>
    BY DEF world
  <1>2. CommentsOK(comments, Len(changes))' /\ ChangesOK' /\ TaskOK'
    BY <1>1 DEF HydrateInv, ChangesOK, TaskOK, Now
  <1>3. CallsOK'
    BY <1>1 DEF HydrateInv, CallsOK
  <1>4. ReadSoFar' \subseteq ReadSoFar \cup new
    <2>1. ASSUME NEW v \in Workers, Paging(call'[v])
          PROVE  Beside(call'[v]) \in ReadSoFar \cup new
      <3>1. CASE v = w
        BY <2>1, <3>1
      <3>2. CASE v # w
        BY <2>1, <3>2 DEF ReadSoFar
      <3>. QED BY <3>1, <3>2
    <2>2. ReadSoFar' = records' \cup {Beside(call'[v]) : v \in {u \in Workers : Paging(call'[u])}}
      BY DEF ReadSoFar, Paging, Beside, TaskRecord
    <2>. QED BY <2>1, <2>2
  <1>5. \A r : ReadOK(r) => ReadOK(r)'
    <2>. TAKE r
    <2>1. Outdated(r)' <=> Outdated(r)
      BY <1>1 DEF Outdated
    <2>2. Current(r)' <=> Current(r)
      BY <1>1 DEF Current
    <2>3. SeenOf(r.of)' <=> SeenOf(r.of)
      BY <1>1 DEF SeenOf
    <2>. QED BY <1>1, <2>1, <2>2, <2>3 DEF ReadOK, Now
  <1>6. ReadSoFarOK'
    <2>1. \A r \in ReadSoFar' : ReadOK(r)'
      BY <1>4, <1>5 DEF HydrateInv, ReadSoFarOK
    <2>2. \A r, s \in ReadSoFar' : Agree(r, s)
      <3>1. \A r, s : Agree(r, s) => Agree(s, r)
        BY DEF Agree, KeptVersion
      <3>2. \A r, s \in ReadSoFar \cup new : Agree(r, s)
        BY <3>1 DEF HydrateInv, ReadSoFarOK
      <3>. QED BY <1>4, <3>2
    <2>3. \A r, s : Agree(r, s) => Agree(r, s)'
      BY <1>1 DEF Agree, KeptVersion
    <2>. QED BY <2>1, <2>2, <2>3 DEF ReadSoFarOK
  <1>. QED BY <1>2, <1>3, <1>6 DEF HydrateInv

(* Nothing is read and nothing stored.                                      *)
LEMMA NothingReadKeeps ==
    ASSUME HydrateInv, UNCHANGED <<world, records, done>>, NEW w \in Workers, NEW c,
           CallOK(c, changes, comments),
           call' = [v \in Workers |-> IF v = w THEN c ELSE call[v]],
           Paging(c) => Paging(call[w]) /\ Beside(c) = Beside(call[w]), RecentIsFound'
    PROVE  HydrateInv'
  <1>1. Paging(c) => Beside(c) \in ReadSoFar \cup {}
    BY DEF ReadSoFar
  <1>2. records' \subseteq ReadSoFar \cup {}
    BY DEF ReadSoFar
  <1>3. StoredOK'
    BY DEF HydrateInv, StoredOK, MadeBy, world
  <1>4. UNCHANGED world
    OBVIOUS
  <1>5. /\ \A r \in {} : ReadOK(r)
        /\ \A r \in {} : \A s \in ReadSoFar \cup {} : Agree(r, s)
    OBVIOUS
  <1>. QED BY <1>1, <1>2, <1>3, <1>4, <1>5, WorkerKeeps

LEMMA CallsAre ==
    ASSUME HydrateInv, NEW w \in Workers
    PROVE  call = [v \in Workers |-> call[v]] /\ CallOK(call[w], changes, comments)
  BY DEF HydrateInv, CallsOK

(* A call ends with nothing.                                                *)
LEMMA ReturnKeeps ==
    ASSUME HydrateInv, NEW w \in Workers, Return(w), UNCHANGED world, RecentIsFound'
    PROVE  HydrateInv'
  <1>1. call = [v \in Workers |-> call[v]]
    BY CallsAre
  <1>2. call' = [v \in Workers |-> IF v = w THEN NoCall ELSE call[v]] /\ UNCHANGED <<world, records, done>>
    BY <1>1 DEF Return
  <1>. QED BY <1>2, IdleIsOK, NothingReadKeeps

LEMMA GoesOnKeeps ==
    ASSUME HydrateInv, NEW w \in Workers, call[w].at # "idle", NEW x \in Places,
           x \in {"comment", "await comment"} <=> Paging(call[w]),
           call' = [call EXCEPT ![w].at = x], UNCHANGED <<world, records, done>>, RecentIsFound'
    PROVE  HydrateInv'
  <1>1. call = [v \in Workers |-> call[v]] /\ CallOK(call[w], changes, comments)
    BY CallsAre
  <1>2. PICK b : b = call[w]
    OBVIOUS
  <1>3. PICK chs, coms : chs = changes /\ coms = comments
    OBVIOUS
  <1>4. PICK c : c = [b EXCEPT !.at = x]
    OBVIOUS
  <1>5. CallOK(c, chs, coms) /\ (Paging(c) <=> Paging(b)) /\ Beside(c) = Beside(b)
    <2>1. CallOK(b, chs, coms) /\ b.at # "idle" /\ (x \in {"comment", "await comment"} <=> Paging(b))
      BY <1>1, <1>2, <1>3
    <2>. QED BY <1>4, <2>1, CallGoesOn
  <1>6. call' = [v \in Workers |-> IF v = w THEN c ELSE call[v]]
    BY <1>1, <1>2, <1>4
  <1>. QED BY <1>2, <1>3, <1>5, <1>6, NothingReadKeeps

LEMMA HydrateKeeps ==
    ASSUME HydrateInv, NEW w \in Workers, NEW d \in DOMAIN changes, Hydrate(w, d)
    PROVE  HydrateInv'
  <1>1. call = [v \in Workers |-> call[v]]
    BY CallsAre
  <1>2. PICK c : c = [NoCall EXCEPT !.at = "token", !.delivery = d]
    OBVIOUS
  <1>3. c = [at |-> "token", delivery |-> d, task |-> NoTask, page |-> 0, cursor |-> 0, newer |-> 0]
    BY <1>2 DEF NoCall
  <1>4. /\ c.at = "token" /\ c.delivery = d /\ c.task = NoTask
        /\ c.page = 0 /\ c.cursor = 0 /\ c.newer = 0
    BY <1>3
  <1>5. ~ Paging(c) /\ Passed(c, changes, comments)
    BY <1>4 DEF Paging, Passed
  <1>6. CallOK(c, changes, comments)
    <2>1. 0 < MaxPages
      BY ClickUpAssumption
    <2>. QED BY <1>3, <1>4, <1>5, <2>1 DEF CallOK
  <1>7. call' = [v \in Workers |-> IF v = w THEN c ELSE call[v]] /\ UNCHANGED <<world, records, done>>
    BY <1>1, <1>2 DEF Hydrate
  <1>8. RecentIsFound'
    BY DEF Hydrate, HydrateInv, RecentIsFound
  <1>. QED BY <1>5, <1>6, <1>7, <1>8, NothingReadKeeps

LEMMA RequestKeeps ==
    ASSUME HydrateInv, NEW w \in Workers, Token(w) \/ GetTask(w) \/ GetComments(w) \/ GetFails(w)
    PROVE  HydrateInv'
  <1>1. UNCHANGED world /\ RecentIsFound'
    BY DEF Token, GetTask, GetComments, Get, GetFails, HydrateInv, RecentIsFound
  <1>2. CASE Return(w)
    BY <1>1, <1>2, ReturnKeeps
  <1>3. CASE Token(w) /\ ~ Return(w)
    BY <1>1, <1>3, GoesOnKeeps DEF Token, At, Paging, Places
  <1>4. CASE GetTask(w) /\ ~ Return(w)
    BY <1>1, <1>4, GoesOnKeeps DEF GetTask, Get, At, Paging, Places
  <1>5. CASE GetComments(w) /\ ~ Return(w)
    BY <1>1, <1>5, GoesOnKeeps DEF GetComments, Get, At, Paging, Places
  <1>. QED BY <1>2, <1>3, <1>4, <1>5 DEF GetFails

-----------------------------------------------------------------------------
(* What a worker reads and stores *)

LEMMA DeliveryIs ==
    ASSUME HydrateInv, NEW d \in DOMAIN changes
    PROVE  /\ d \in Nat /\ 0 < d /\ Old + d \in Nat /\ Old + d < Now /\ Old \in Nat
           /\ changes[d].on \in Nat /\ changes[d].at \in Nat
           /\ changes[d].on <= Old + d /\ changes[d].at \in {0, Old + d}
           /\ \/ ~changes[d].shown /\ changes[d].at = 0
              \/ changes[d].at = Old + d
              \/ changes[d].on = Old + d
              \/ changes[d].on = Task /\ Old + d <= task.updated
           /\ changes[d].on # Task => \E i \in DOMAIN comments : comments[i].id = changes[d].on
           /\ task.updated \in Nat /\ task.updated < Now /\ Now \in Nat
  <1>1. changes \in Seq(Deliveries) /\ d \in 1..Len(changes) /\ Len(changes) \in Nat
    BY DEF HydrateInv, ChangesOK
  <1>2. changes[d] \in Deliveries /\ changes # <<>>
    BY <1>1
  <1>3. changes[d].on \in Nat /\ changes[d].at \in Nat
    BY <1>2 DEF Deliveries
  <1>4. Old \in Nat /\ Now = Old + Len(changes) + 1 /\ Now \in Nat /\ task \in Tasks
    BY WorldNats
  <1>5. task.updated \in Nat /\ task.updated < Now
    BY <1>2, <1>4 DEF HydrateInv, TaskOK, Tasks
  <1>6. /\ changes[d].on <= Old + d /\ changes[d].at \in {0, Old + d}
        /\ \/ ~changes[d].shown /\ changes[d].at = 0
           \/ changes[d].at = Old + d
           \/ changes[d].on = Old + d
           \/ changes[d].on = Task /\ Old + d <= task.updated
        /\ changes[d].on # Task => \E i \in DOMAIN comments : comments[i].id = changes[d].on
    BY DEF HydrateInv, ChangesOK, Unread
  <1>. QED BY <1>1, <1>3, <1>4, <1>5, <1>6

(* What is read of the task is all that was read of it since it changed.    *)
LEMMA TaskIsRead ==
    ASSUME HydrateInv, NEW v \in Nat, task.updated <= v, v < Now, NEW r, r = TaskRecord(task, v)
    PROVE  /\ ReadOK(r) /\ r.of = Task /\ r.version = v
           /\ \A s \in ReadSoFar \cup {r} : Agree(r, s)
  <1>1. task \in Tasks
    BY WorldNats
  <1>2. /\ r = [of |-> Task, version |-> v, list |-> task.list, edits |-> task.edits]
        /\ task.list \in Lists /\ task.edits \in Nat
    BY <1>1 DEF TaskRecord, Tasks
  <1>3. r.of = Task /\ r.version = v /\ r.list = task.list /\ r.edits = task.edits /\ r \in RecordsAre
    BY <1>2 DEF RecordsAre, Task
  <1>4. ReadOK(r)
    BY <1>3 DEF ReadOK, Current
  <1>5. \A s \in ReadSoFar : Agree(r, s)
    BY <1>3 DEF HydrateInv, ReadSoFarOK, ReadOK, Agree
  <1>. QED BY <1>3, <1>4, <1>5 DEF Agree

(* A delivery's records are stored, once.                                   *)
LEMMA PreparedKeeps ==
    ASSUME HydrateInv, NEW w \in Workers, NEW d \in DOMAIN changes, d = call[w].delivery,
           NEW new, Prepared(w, new), UNCHANGED <<world, gaveUp>>,
           d \notin done => \A r \in new :
               /\ r \in ReadSoFar \/ (ReadOK(r) /\ \A s \in ReadSoFar \cup new : Agree(r, s))
               /\ r.of # Task => MadeBy(r, d),
           changes[d].shown => \E r \in new : r.of = changes[d].on /\ Old + d <= r.version
    PROVE  HydrateInv'
  <1>1. call = [v \in Workers |-> call[v]]
    BY CallsAre
  <1>2. call' = [v \in Workers |-> IF v = w THEN NoCall ELSE call[v]] /\ UNCHANGED world
    BY <1>1 DEF Prepared
  <1>3. RecentIsFound'
    BY DEF HydrateInv, RecentIsFound
  <1>4. CASE d \in done
    <2>1. UNCHANGED <<world, records, done>>
      BY <1>4 DEF Prepared
    <2>. QED BY <1>2, <1>3, <2>1, IdleIsOK, NothingReadKeeps
  <1>5. CASE d \notin done
    <2>1. records' = records \cup new /\ done' = done \cup {d}
      BY <1>5 DEF Prepared
    <2>2. PICK fresh : fresh = {r \in new : r \notin ReadSoFar}
      OBVIOUS
    <2>3. /\ \A r \in fresh : ReadOK(r)
          /\ \A r \in fresh : \A s \in ReadSoFar \cup fresh : Agree(r, s)
      BY <1>5, <2>2
    <2>4. records' \subseteq ReadSoFar \cup fresh
      BY <2>1, <2>2 DEF ReadSoFar
    <2>5. StoredOK'
      <3>1. changes' = changes
        BY DEF world
      <3>2. \A r \in records' : r.of # Task => \E e \in done' : MadeBy(r, e)
        BY <1>5, <2>1 DEF HydrateInv, StoredOK
      <3>3. \A e \in done' : changes[e].shown => \E r \in records' : r.of = changes[e].on /\ Old + e <= r.version
        <4>. TAKE e \in done'
        <4>1. CASE e = d
          BY <4>1, <2>1
        <4>2. CASE e \in done
          BY <4>2, <2>1 DEF HydrateInv, StoredOK
        <4>. QED BY <2>1, <4>1, <4>2
      <3>4. done' \subseteq DOMAIN changes
        BY <2>1 DEF HydrateInv, StoredOK
      <3>. QED BY <3>1, <3>2, <3>3, <3>4 DEF StoredOK, MadeBy
    <2>6. ~ Paging(NoCall) /\ CallOK(NoCall, changes, comments)
      BY IdleIsOK
    <2>. QED BY <1>2, <1>3, <2>3, <2>4, <2>5, <2>6, WorkerKeeps
  <1>. QED BY <1>4, <1>5

LEMMA HigherIs ==
    ASSUME NEW a \in Nat, NEW b \in Nat
    PROVE  Higher(a, b) \in Nat /\ a <= Higher(a, b) /\ b <= Higher(a, b) /\ Higher(a, b) \in {a, b}
  BY DEF Higher

LEMMA TaskAnswerKeeps ==
    ASSUME HydrateInv, NEW w \in Workers, TaskAnswer(w)
    PROVE  HydrateInv'
  <1>1. call = [v \in Workers |-> call[v]] /\ CallOK(call[w], changes, comments)
    BY CallsAre
  <1>2. call[w].at = "await task" /\ ~ Paging(call[w])
    BY DEF TaskAnswer, At, Paging
  <1>3. CallIs(call[w]) /\ call[w].delivery \in DOMAIN changes /\ call[w].page = 0 /\ call[w].page < MaxPages
        /\ call[w].newer \in Nat /\ Passed(call[w], changes, comments)
    BY <1>1, <1>2, InACall
  <1>4. PICK d \in DOMAIN changes : d = call[w].delivery
    BY <1>3
  <1>5. /\ d \in Nat /\ 0 < d /\ Old + d \in Nat /\ Old + d < Now /\ Old \in Nat
        /\ changes[d].on \in Nat /\ changes[d].at \in Nat /\ changes[d].at \in {0, Old + d}
        /\ changes[d].on = Task /\ changes[d].shown => changes[d].at = Old + d \/ Old + d <= task.updated
        /\ task.updated \in Nat /\ task.updated < Now /\ Now \in Nat
    BY DeliveryIs DEF Task
  <1>6. UNCHANGED <<world, gaveUp>>
    BY DEF TaskAnswer
  <1>7. CASE changes[d].on = Task
    <2>1. PICK v \in Nat : v = SubjectVersion(task.updated, changes[d].at) /\ v < Now /\ task.updated <= v
                                                                     /\ (changes[d].shown => Old + d <= v)
      <3>1. PICK v : v = Higher(task.updated, changes[d].at)
        OBVIOUS
      <3>2. v \in Nat /\ task.updated <= v /\ changes[d].at <= v /\ v \in {task.updated, changes[d].at}
        BY <3>1, <1>5, HigherIs
      <3>3. v < Now /\ (changes[d].shown => Old + d <= v)
        BY <1>5, <1>7, <3>2
      <3>. QED BY <3>1, <3>2, <3>3 DEF SubjectVersion
    <2>2. PICK r : r = TaskRecord(task, v)
      OBVIOUS
    <2>3. /\ ReadOK(r) /\ r.of = Task /\ r.version = v
          /\ \A s \in ReadSoFar \cup {r} : Agree(r, s)
      BY <2>1, <2>2, TaskIsRead
    <2>4. Prepared(w, {r})
      BY <1>4, <1>7, <2>1, <2>2 DEF TaskAnswer, Delivery
    <2>5. /\ \A q \in {r} : /\ q \in ReadSoFar \/ (ReadOK(q) /\ \A s \in ReadSoFar \cup {r} : Agree(q, s))
                            /\ q.of # Task => MadeBy(q, d)
          /\ changes[d].shown => \E q \in {r} : q.of = changes[d].on /\ Old + d <= q.version
      BY <1>7, <2>1, <2>3
    <2>. QED BY <1>4, <1>6, <2>4, <2>5, PreparedKeeps
  <1>8. CASE changes[d].on # Task
    <2>1. call' = [call EXCEPT ![w].task = task, ![w].at = "comment"] /\ UNCHANGED <<done, records>>
      BY <1>4, <1>8 DEF TaskAnswer, Delivery
    <2>2. PICK a, e, t, p, u, n :
             call[w] = [at |-> a, delivery |-> e, task |-> t, page |-> p, cursor |-> u, newer |-> n]
      BY <1>3 DEF CallIs
    <2>3. PICK b : b = [call[w] EXCEPT !.task = task]
      OBVIOUS
    <2>4. b = [at |-> a, delivery |-> e, task |-> task, page |-> p, cursor |-> u, newer |-> n]
      BY <2>2, <2>3
    <2>5. PICK c : c = [b EXCEPT !.at = "comment"]
      OBVIOUS
    <2>6. c = [at |-> "comment", delivery |-> e, task |-> task, page |-> p, cursor |-> u, newer |-> n]
      BY <2>4, <2>5
    <2>7. call' = [v \in Workers |-> IF v = w THEN c ELSE call[v]]
      BY <1>1, <2>1, <2>3, <2>5
    <2>8. /\ call[w].delivery = e /\ call[w].page = p /\ call[w].cursor = u /\ call[w].newer = n
          /\ c.at = "comment" /\ c.delivery = e /\ c.task = task /\ c.page = p /\ c.cursor = u /\ c.newer = n
      BY <2>2, <2>6
    <2>9. Passed(c, changes, comments) /\ Paging(c)
      BY <1>3, <2>8 DEF Passed, Paging
    <2>10. task \in Tasks /\ p \in Nat /\ p < MaxPages /\ n \in Nat /\ e = d
      BY <1>3, <1>4, <2>8, WorldNats
    <2>11. CallOK(c, changes, comments)
      BY <1>8, <2>6, <2>8, <2>9, <2>10 DEF CallOK
    <2>12. PICK r : r = TaskRecord(task, task.updated)
      OBVIOUS
    <2>13. /\ ReadOK(r) /\ \A s \in ReadSoFar \cup {r} : Agree(r, s)
      BY <1>5, <2>12, TaskIsRead
    <2>14. Beside(c) = r
      BY <2>8, <2>12 DEF Beside
    <2>15. StoredOK' /\ RecentIsFound'
      BY <1>6, <2>1 DEF HydrateInv, StoredOK, MadeBy, RecentIsFound, world
    <2>16. /\ records' \subseteq ReadSoFar \cup {r} /\ Beside(c) \in ReadSoFar \cup {r} /\ UNCHANGED world
           /\ \A q \in {r} : ReadOK(q)
           /\ \A q \in {r} : \A s \in ReadSoFar \cup {r} : Agree(q, s)
      BY <1>6, <2>1, <2>13, <2>14 DEF ReadSoFar
    <2>. QED BY <2>7, <2>11, <2>15, <2>16, WorkerKeeps
  <1>. QED BY <1>7, <1>8

(* Where the next page starts, and the comment a call is after: behind it.  *)
LEMMA Wanted ==
    ASSUME HydrateInv, NEW w \in Workers, Paging(call[w])
    PROVE  \E skip \in 0..Len(comments), j \in DOMAIN comments :
              /\ skip < j /\ comments[j].id = changes[call[w].delivery].on
              /\ IsPage(Page(call[w].cursor), skip)
              /\ Newer(w) \in Nat /\ Newer(w) >= call[w].page * PageSize + (j - skip - 1)
  <1>1. CallOK(call[w], changes, comments) /\ call[w].at # "idle"
    BY CallsAre DEF Paging
  <1>2. PICK d \in DOMAIN changes : d = call[w].delivery
    BY <1>1, InACall
  <1>3. /\ call[w].page \in Nat /\ call[w].newer \in Nat /\ Passed(call[w], changes, comments)
        /\ changes[d].on # Task
    BY <1>1, <1>2, InACall
  <1>4. /\ Len(changes) \in Nat /\ CommentsOK(comments, Len(changes))
        /\ Len(comments) \in Nat /\ DOMAIN comments = 1..Len(comments)
        /\ PageSize \in Nat
    BY WorldNats, ClickUpAssumption
  <1>5. ASSUME NEW j \in DOMAIN comments, comments[j].id = changes[d].on, call[w].page = 0
        PROVE  Newer(w) = j - 1
    <2>1. Newer(w) = Cardinality({i \in DOMAIN comments : comments[i].date > comments[j].id})
      BY <1>2, <1>5 DEF Newer, Delivery
    <2>. QED BY <2>1, <1>4, NewerAreBefore
  <1>6. CASE call[w].page = 0 /\ call[w].cursor = 0
    <2>1. PICK j \in DOMAIN comments : comments[j].id = changes[d].on
      BY <1>3, DeliveryIs
    <2>2. Newer(w) = j - 1
      BY <1>5, <1>6, <2>1
    <2>3. 0 \in 0..Len(comments) /\ IsPage(Page(0), 0)
      BY <1>4, PageIs
    <2>4. j \in Nat /\ 0 < j /\ Newer(w) \in Nat /\ Newer(w) >= 0 * PageSize + (j - 0 - 1)
      BY <1>4, <2>1, <2>2
    <2>. QED BY <1>2, <1>6, <2>1, <2>3, <2>4
  <1>7. CASE ~ (call[w].page = 0 /\ call[w].cursor = 0)
    <2>1. PICK k \in DOMAIN comments, j \in DOMAIN comments :
             /\ k < j /\ comments[k].id = call[w].cursor /\ comments[j].id = changes[d].on
             /\ call[w].newer >= call[w].page * PageSize + (j - k - 1)
      BY <1>2, <1>3, <1>7 DEF Passed
    <2>2. k \in 0..Len(comments) /\ j \in 1..Len(comments)
      BY <1>4
    <2>3. IsPage(Page(call[w].cursor), k)
      BY <1>4, <2>1, <2>2, PageIs
    <2>4. Newer(w) \in Nat /\ Newer(w) >= call[w].page * PageSize + (j - k - 1)
      <3>1. CASE call[w].page = 0
        <4>1. Newer(w) = j - 1
          BY <1>5, <2>1, <3>1
        <4>2. 0 * PageSize = 0
          BY <1>4
        <4>. QED BY <2>2, <3>1, <4>1, <4>2
      <3>2. CASE call[w].page # 0
        BY <1>3, <2>1, <3>2 DEF Newer
      <3>. QED BY <3>1, <3>2
    <2>. QED BY <1>2, <2>1, <2>2, <2>3, <2>4
  <1>. QED BY <1>6, <1>7

(* A page without the comment is full of newer ones, and so it is still to  *)
(* come.                                                                    *)
LEMMA NotOnPage ==
    ASSUME HydrateInv, NEW w \in Workers, Paging(call[w]),
           NEW page, page = Page(call[w].cursor),
           {i \in DOMAIN page : page[i].id = Delivery(w).on} = {}
    PROVE  /\ Len(page) = PageSize /\ Newer(w) \in Nat
           /\ \E k, j \in DOMAIN comments :
                 /\ k < j /\ comments[k].id = Cursor(page) /\ comments[j].id = changes[call[w].delivery].on
                 /\ Newer(w) >= (call[w].page + 1) * PageSize + (j - k - 1)
  <1>1. PICK skip \in 0..Len(comments), j \in DOMAIN comments :
              /\ skip < j /\ comments[j].id = changes[call[w].delivery].on
              /\ IsPage(page, skip)
              /\ Newer(w) \in Nat /\ Newer(w) >= call[w].page * PageSize + (j - skip - 1)
    BY Wanted
  <1>2. PICK m \in Nat : m = Len(comments) /\ DOMAIN comments = 1..m
    BY WorldNats
  <1>3. PICK n \in Nat : /\ n = Len(page) /\ DOMAIN page = 1..n /\ n = Lower(PageSize, m - skip)
                         /\ \A i \in 1..n : page[i] = comments[skip + i]
    BY <1>1, <1>2 DEF IsPage
  <1>4. PICK s \in Nat : s = PageSize /\ 0 < s
    BY ClickUpAssumption
  <1>5. skip \in Nat /\ j \in 1..m
    BY <1>1, <1>2
  <1>6. skip + n < j
    <2>. SUFFICES ASSUME ~ (skip + n < j) PROVE FALSE
      OBVIOUS
    <2>1. j - skip \in 1..n /\ skip + (j - skip) = j
      BY <1>1, <1>5
    <2>2. page[j - skip] = comments[j]
      BY <1>3, <2>1
    <2>3. j - skip \in {i \in DOMAIN page : page[i].id = Delivery(w).on}
      BY <1>1, <1>3, <2>1, <2>2 DEF Delivery
    <2>. QED BY <2>3
  <1>7. n = s
    BY <1>3, <1>4, <1>5, <1>6 DEF Lower
  <1>8. skip + s \in 1..m /\ skip + s < j
    BY <1>4, <1>5, <1>6, <1>7
  <1>9. comments[skip + s].id = Cursor(page)
    <2>1. s \in 1..n
      BY <1>4, <1>7
    <2>2. page[s] = comments[skip + s]
      BY <1>3, <2>1
    <2>3. comments[skip + s].date = comments[skip + s].id
      BY <1>2, <1>8, WorldNats DEF CommentsOK
    <2>. QED BY <1>3, <1>7, <2>2, <2>3 DEF Cursor
  <1>10. Newer(w) >= (call[w].page + 1) * PageSize + (j - (skip + s) - 1)
    <2>1. CallOK(call[w], changes, comments) /\ call[w].at # "idle"
      BY CallsAre DEF Paging
    <2>2. PICK p \in Nat : p = call[w].page
      BY <2>1, InACall
    <2>3. (p + 1) * s = p * s + s /\ p * s \in Nat
      OBVIOUS
    <2>4. PICK x \in Nat : x = p * s
      BY <2>3
    <2>5. (p + 1) * s + (j - (skip + s) - 1) = x + (j - skip - 1)
      BY <2>3, <2>4, <1>5
    <2>6. Newer(w) >= p * s + (j - skip - 1)
      BY <1>1, <1>4, <2>2
    <2>. QED BY <1>4, <2>2, <2>4, <2>5, <2>6
  <1>. QED BY <1>1, <1>2, <1>3, <1>4, <1>7, <1>8, <1>9, <1>10

(* The record of a comment: of its delivery's change, and the first such.   *)
LEMMA CommentIsRead ==
    ASSUME HydrateInv, NEW w \in Workers, Paging(call[w]),
           NEW d \in DOMAIN changes, d = call[w].delivery, d \notin done,
           NEW i \in DOMAIN comments, comments[i].id = changes[d].on,
           NEW r, r = CommentRecord(call[w].task, comments[i], changes[d].at)
    PROVE  /\ ReadOK(r) /\ \A s \in ReadSoFar : Agree(r, s)
           /\ MadeBy(r, d) /\ r.of # Task /\ (changes[d].shown => r.version = Old + d)
  <1>1. call[w].task \in Tasks /\ changes[d].on # Task
    <2>1. CallOK(call[w], changes, comments) /\ call[w].at # "idle"
      BY CallsAre DEF Paging
    <2>. QED BY <2>1, InACall
  <1>2. comments[i] \in CommentsAre /\ comments[i].date = comments[i].id
    BY WorldNats DEF CommentsOK
  <1>3. PICK c : c = comments[i] /\ c \in CommentsAre /\ c.id = changes[d].on /\ c.date = c.id
    BY <1>2
  <1>4. PICK x : x = Higher(c.date, changes[d].at)
    OBVIOUS
  <1>5. /\ d \in Nat /\ Old \in Nat /\ Old + d \in Nat /\ Old + d < Now
        /\ changes[d].on \in Nat /\ changes[d].at \in Nat /\ changes[d].on <= Old + d
        /\ changes[d].at \in {0, Old + d}
        /\ \/ ~changes[d].shown /\ changes[d].at = 0
           \/ changes[d].at = Old + d \/ changes[d].on = Old + d
    BY <1>1, DeliveryIs
  <1>6. x \in Nat /\ x < Now /\ (x = Old + d \/ (~changes[d].shown /\ x = c.id))
    <2>1. PICK own \in Nat : own = c.date /\ own = c.id /\ own <= Old + d /\ own < Now
      <3>1. PICK own \in Nat : own = changes[d].on /\ own <= Old + d
        BY <1>5
      <3>2. own < Now
        BY <1>5, <3>1, WorldNats
      <3>. QED BY <1>3, <3>1, <3>2
    <2>2. PICK n \in Nat : n = Old + d /\ n < Now
      BY <1>5
    <2>3. /\ x \in Nat /\ own <= x /\ changes[d].at <= x /\ x \in {own, changes[d].at}
      BY <1>4, <1>5, <2>1, HigherIs
    <2>4. changes[d].at = 0 => x = own
      BY <2>1, <2>3
    <2>5. changes[d].at = n => x = n
      BY <2>1, <2>2, <2>3
    <2>6. own = n => x = n
      BY <1>5, <2>2, <2>3
    <2>7. x < Now
      BY <1>5, <2>1, <2>2, <2>3
    <2>. QED BY <1>3, <1>5, <2>1, <2>2, <2>3, <2>4, <2>5, <2>6, <2>7
  <1>7. r = [of |-> c.id, version |-> x, list |-> call[w].task.list, edits |-> c.edits]
    BY <1>3, <1>4 DEF CommentRecord, SubjectVersion
  <1>8. r.of = c.id /\ r.version = x /\ r.edits = c.edits
    BY <1>7
  <1>9. r \in RecordsAre
    BY <1>1, <1>3, <1>5, <1>6, <1>7 DEF RecordsAre, Tasks, CommentsAre
  <1>10. MadeBy(r, d) /\ r.of = changes[d].on /\ r.of # Task /\ (changes[d].shown => r.version = Old + d)
    BY <1>1, <1>3, <1>6, <1>8 DEF MadeBy
  <1>11. Current(r)
    BY <1>3, <1>8, <1>10 DEF Current
  <1>12. ReadOK(r)
    BY <1>6, <1>8, <1>9, <1>10, <1>11 DEF ReadOK
  <1>13. \A s \in ReadSoFar : Agree(r, s)
    <2>. TAKE s \in ReadSoFar
    <2>. SUFFICES ASSUME s.of = r.of, s.version = r.version PROVE KeptVersion(r)
      BY DEF Agree
    <2>1. s \in records
      BY <1>10 DEF ReadSoFar, Beside, TaskRecord
    <2>2. PICK e \in done : MadeBy(s, e)
      BY <1>10, <2>1 DEF HydrateInv, StoredOK
    <2>3. e \in Nat /\ e \in DOMAIN changes
      <3>1. e \in DOMAIN changes
        BY DEF HydrateInv, StoredOK
      <3>. QED BY <3>1, DeliveryIs
    <2>4. comments[i].id = r.of /\ comments[i].date = r.of
      BY <1>3, <1>8
    <2>5. CASE ~changes[d].shown /\ r.version = r.of
      BY <2>4, <2>5, <1>10 DEF KeptVersion
    <2>6. CASE ~changes[e].shown /\ s.version = s.of
      BY <2>2, <2>3, <2>4, <2>6 DEF KeptVersion, MadeBy
    <2>7. CASE r.version = Old + d /\ s.version = Old + e
      <3>1. e = d
        BY <1>5, <2>3, <2>7
      <3>. QED BY <3>1
    <2>. QED BY <1>10, <2>2, <2>5, <2>6, <2>7 DEF MadeBy
  <1>. QED BY <1>10, <1>12, <1>13

LEMMA FoundKeeps ==
    ASSUME HydrateInv, NEW w \in Workers, Paging(call[w]), UNCHANGED <<world, gaveUp>>,
           NEW page, page = Page(call[w].cursor),
           NEW i \in DOMAIN page, page[i].id = Delivery(w).on,
           Prepared(w, {TaskRecord(call[w].task, call[w].task.updated),
                        CommentRecord(call[w].task, page[i], Delivery(w).at)})
    PROVE  HydrateInv'
  <1>1. PICK d \in DOMAIN changes : d = call[w].delivery
    <2>1. CallOK(call[w], changes, comments) /\ call[w].at # "idle"
      BY CallsAre DEF Paging
    <2>. QED BY <2>1, InACall
  <1>2. PICK j \in DOMAIN comments : page[i] = comments[j]
    <2>1. PICK skip \in 0..Len(comments) : IsPage(page, skip)
      BY Wanted
    <2>2. PICK m \in Nat : m = Len(comments) /\ DOMAIN comments = 1..m
      BY WorldNats
    <2>3. PICK n \in Nat : /\ n = Len(page) /\ DOMAIN page = 1..n /\ n = Lower(PageSize, m - skip)
                           /\ \A k \in 1..n : page[k] = comments[skip + k]
      BY <2>1, <2>2 DEF IsPage
    <2>4. PageSize \in Nat /\ skip \in Nat /\ i \in 1..n
      BY <2>2, <2>3, ClickUpAssumption
    <2>5. skip + i \in 1..m
      BY <2>3, <2>4 DEF Lower
    <2>. QED BY <2>2, <2>3, <2>4, <2>5
  <1>3. PICK r : r = CommentRecord(call[w].task, comments[j], changes[d].at)
    OBVIOUS
  <1>4. PICK b : b = TaskRecord(call[w].task, call[w].task.updated)
    OBVIOUS
  <1>5. b \in ReadSoFar /\ b.of = Task
    BY <1>4 DEF ReadSoFar, Beside, TaskRecord
  <1>6. Prepared(w, {b, r})
    BY <1>1, <1>2, <1>3, <1>4 DEF Delivery
  <1>7. comments[j].id = changes[d].on
    BY <1>1, <1>2 DEF Delivery
  <1>8. d \notin done =>
          /\ ReadOK(r) /\ \A s \in ReadSoFar : Agree(r, s)
          /\ MadeBy(r, d) /\ r.of # Task /\ (changes[d].shown => r.version = Old + d)
    BY <1>1, <1>3, <1>7, CommentIsRead
  <1>9. CASE d \in done
    <2>1. call = [v \in Workers |-> call[v]]
      BY CallsAre
    <2>2. call' = [v \in Workers |-> IF v = w THEN NoCall ELSE call[v]] /\ UNCHANGED <<world, records, done>>
      BY <1>1, <1>6, <1>9, <2>1 DEF Prepared
    <2>3. RecentIsFound'
      BY DEF HydrateInv, RecentIsFound
    <2>. QED BY <2>2, <2>3, IdleIsOK, NothingReadKeeps
  <1>10. CASE d \notin done
    <2>1. \A q \in {b, r} : /\ q \in ReadSoFar \/ (ReadOK(q) /\ \A s \in ReadSoFar \cup {b, r} : Agree(q, s))
                            /\ q.of # Task => MadeBy(q, d)
      <3>1. Agree(r, r)
        BY DEF Agree
      <3>. QED BY <1>5, <1>8, <1>10, <3>1
    <2>2. changes[d].shown => \E q \in {b, r} : q.of = changes[d].on /\ Old + d <= q.version
      <3>1. r.of = changes[d].on /\ Old + d \in Nat /\ (changes[d].shown => r.version = Old + d)
        BY <1>8, <1>10, DeliveryIs DEF MadeBy
      <3>. QED BY <3>1
    <2>. QED BY <1>1, <1>6, <2>1, <2>2, PreparedKeeps
  <1>. QED BY <1>9, <1>10

LEMMA CommentsAnswerKeeps ==
    ASSUME HydrateInv, NEW w \in Workers, CommentsAnswer(w)
    PROVE  HydrateInv'
  <1>. DEFINE page == Page(call[w].cursor)
              found == {i \in DOMAIN page : page[i].id = Delivery(w).on}
  <1>1. Paging(call[w]) /\ call[w].at = "await comment" /\ UNCHANGED world
    BY DEF CommentsAnswer, At, Paging
  <1>2. CallOK(call[w], changes, comments) /\ call[w].at # "idle" /\ call = [v \in Workers |-> call[v]]
    BY <1>1, CallsAre
  <1>3. CASE /\ \E i \in found :
                   \/ Prepared(w, {TaskRecord(call[w].task, call[w].task.updated),
                                   CommentRecord(call[w].task, page[i], Delivery(w).at)})
                   \/ Return(w)
             /\ UNCHANGED gaveUp
    <2>1. CASE Return(w)
      <3>1. RecentIsFound'
        BY <1>3 DEF HydrateInv, RecentIsFound
      <3>. QED BY <1>1, <2>1, <3>1, ReturnKeeps
    <2>2. CASE ~ Return(w)
      BY <1>1, <1>3, <2>2, FoundKeeps
    <2>. QED BY <2>1, <2>2
  <1>4. CASE /\ found = {} /\ Len(page) = PageSize /\ call[w].page + 1 < MaxPages
             /\ call' = [call EXCEPT ![w].at = "comment", ![w].page = @ + 1,
                                     ![w].cursor = Cursor(page), ![w].newer = Newer(w)]
             /\ UNCHANGED <<done, records, gaveUp>>
    <2>. HIDE DEF page
    <2>1. /\ Newer(w) \in Nat
          /\ \E k, j \in DOMAIN comments :
                 /\ k < j /\ comments[k].id = Cursor(page) /\ comments[j].id = changes[call[w].delivery].on
                 /\ Newer(w) >= (call[w].page + 1) * PageSize + (j - k - 1)
      BY <1>1, <1>4, NotOnPage DEF page
    <2>2. PICK a, d, t, p, u, n :
             call[w] = [at |-> a, delivery |-> d, task |-> t, page |-> p, cursor |-> u, newer |-> n]
      <3>1. CallIs(call[w])
        BY <1>2, InACall
      <3>. QED BY <3>1 DEF CallIs
    <2>3. PICK x, y : x = Cursor(page) /\ y = Newer(w)
      OBVIOUS
    <2>4. PICK e1 : e1 = [call[w] EXCEPT !.at = "comment"]
      OBVIOUS
    <2>5. e1 = [at |-> "comment", delivery |-> d, task |-> t, page |-> p, cursor |-> u, newer |-> n]
      BY <2>2, <2>4
    <2>6. PICK e2 : e2 = [e1 EXCEPT !.page = call[w].page + 1]
      OBVIOUS
    <2>7. e2 = [at |-> "comment", delivery |-> d, task |-> t, page |-> call[w].page + 1, cursor |-> u, newer |-> n]
      BY <2>5, <2>6
    <2>8. PICK e3 : e3 = [e2 EXCEPT !.cursor = x]
      OBVIOUS
    <2>9. e3 = [at |-> "comment", delivery |-> d, task |-> t, page |-> call[w].page + 1, cursor |-> x, newer |-> n]
      BY <2>7, <2>8
    <2>10. PICK c : c = [e3 EXCEPT !.newer = y]
      OBVIOUS
    <2>11. c = [at |-> "comment", delivery |-> d, task |-> t, page |-> call[w].page + 1, cursor |-> x, newer |-> y]
      BY <2>9, <2>10
    <2>12. e1.page = call[w].page
      BY <2>2, <2>5
    <2>13. call' = [v \in Workers |-> IF v = w THEN c ELSE call[v]]
      <3>1. c = [call[w] EXCEPT !.at = "comment", !.page = call[w].page + 1, !.cursor = x, !.newer = y]
        BY <2>4, <2>6, <2>8, <2>10
      <3>2. call' = [call EXCEPT ![w] = c]
        BY <1>4, <2>3, <3>1
      <3>. QED BY <1>2, <3>2
    <2>14. /\ c.at = "comment" /\ c.delivery = call[w].delivery /\ c.task = call[w].task
           /\ c.page = call[w].page + 1 /\ c.cursor = x /\ c.newer = y
      BY <2>2, <2>11
    <2>15. Passed(c, changes, comments) /\ Paging(c)
      BY <2>1, <2>3, <2>14 DEF Passed, Paging
    <2>16. /\ c = [at |-> c.at, delivery |-> c.delivery, task |-> c.task, page |-> c.page,
                   cursor |-> c.cursor, newer |-> c.newer]
           /\ c.delivery \in DOMAIN changes /\ c.page \in Nat /\ c.page < MaxPages /\ c.newer \in Nat
           /\ c.task \in Tasks /\ changes[c.delivery].on # Task
      <3>1. /\ call[w].delivery \in DOMAIN changes /\ call[w].page \in Nat
            /\ call[w].task \in Tasks /\ changes[call[w].delivery].on # Task
        BY <1>1, <1>2, InACall
      <3>2. c = [at |-> c.at, delivery |-> c.delivery, task |-> c.task, page |-> c.page,
                 cursor |-> c.cursor, newer |-> c.newer]
        BY <2>11, <2>14
      <3>. QED BY <1>4, <2>1, <2>3, <2>14, <3>1, <3>2
    <2>17. CallOK(c, changes, comments)
      BY <2>14, <2>15, <2>16 DEF CallOK
    <2>18. Beside(c) = Beside(call[w])
      BY <2>14 DEF Beside
    <2>19. RecentIsFound' /\ UNCHANGED <<world, records, done>>
      BY <1>1, <1>4 DEF HydrateInv, RecentIsFound
    <2>. QED BY <1>1, <2>13, <2>17, <2>18, <2>19, NothingReadKeeps
  <1>5. ASSUME NEW cut \in BOOLEAN, found = {}, GiveUp(w, cut),
               ~ cut => Len(page) < PageSize \/ call[w].page + 1 = MaxPages
        PROVE  HydrateInv'
    <2>. HIDE DEF page
    <2>1. /\ Len(page) = PageSize /\ Newer(w) \in Nat
          /\ \E k, j \in DOMAIN comments :
                 /\ k < j
                 /\ Newer(w) >= (call[w].page + 1) * PageSize + (j - k - 1)
      BY <1>1, <1>5, NotOnPage DEF page
    <2>2. PICK s \in Nat, p \in Nat : s = PageSize /\ p = call[w].page + 1
      BY <1>2, InACall, ClickUpAssumption
    <2>3. PICK k, j \in DOMAIN comments : k < j /\ Newer(w) >= p * s + (j - k - 1)
      BY <2>1, <2>2
    <2>4. k \in Nat /\ j \in Nat /\ p * s \in Nat /\ p * s = s * p
      BY WorldNats
    <2>5. Newer(w) >= s * p
      BY <2>1, <2>3, <2>4
    <2>6. ~ cut => p = MaxPages
      BY <1>5, <2>1, <2>2
    <2>7. PICK g : g = [newer |-> Newer(w), pages |-> p, cut |-> cut]
      OBVIOUS
    <2>8. g.newer = Newer(w) /\ g.pages = p /\ g.cut = cut /\ gaveUp' = gaveUp \cup {g} /\ Return(w)
      BY <1>5, <2>2, <2>7 DEF GiveUp
    <2>9. g.newer >= PageSize * (IF g.cut THEN g.pages ELSE MaxPages)
      BY <2>2, <2>5, <2>6, <2>8
    <2>10. RecentIsFound'
      BY <2>8, <2>9 DEF HydrateInv, RecentIsFound
    <2>. QED BY <1>1, <2>8, <2>10, ReturnKeeps
  <1>6. CASE found = {} /\ (Len(page) < PageSize \/ call[w].page + 1 = MaxPages) /\ GiveUp(w, FALSE)
    BY <1>5, <1>6
  <1>7. CASE found = {} /\ Len(page) = PageSize /\ GiveUp(w, TRUE)
    BY <1>5, <1>7
  <1>. QED BY <1>3, <1>4, <1>6, <1>7 DEF CommentsAnswer

-----------------------------------------------------------------------------
(* The invariant, and what follows from it *)

LEMMA HydrateInvStep == HydrateInv /\ [ClickUpNext]_clickUpVars => HydrateInv'
  <1>. SUFFICES ASSUME HydrateInv, [ClickUpNext]_clickUpVars PROVE HydrateInv'
    OBVIOUS
  <1>1. CASE UNCHANGED <<world, call, done, records, gaveUp>>
    <2>1. UNCHANGED <<task, comments, changes, call, done, records, gaveUp>>
      BY <1>1 DEF world
    <2>2. CommentsOK(comments, Len(changes))' /\ ChangesOK' /\ TaskOK' /\ CallsOK'
      BY <2>1 DEF HydrateInv, ChangesOK, TaskOK, CallsOK, Now
    <2>3. ReadSoFar' = ReadSoFar
      BY <2>1 DEF ReadSoFar
    <2>4. \A r : ReadOK(r) => ReadOK(r)'
      BY <2>1 DEF ReadOK, Outdated, Current, SeenOf, Now
    <2>5. \A r, s : Agree(r, s) => Agree(r, s)'
      BY <2>1 DEF Agree, KeptVersion
    <2>6. ReadSoFarOK' /\ StoredOK' /\ RecentIsFound'
      BY <2>1, <2>3, <2>4, <2>5 DEF HydrateInv, ReadSoFarOK, StoredOK, MadeBy, RecentIsFound
    <2>. QED BY <2>2, <2>6 DEF HydrateInv
  <1>2. CASE EditTask \/ \E list \in Lists : MoveTask(list)
    BY <1>2, TaskKeeps
  <1>3. CASE PostComment
    BY <1>3, PostKeeps
  <1>4. ASSUME NEW i \in DOMAIN comments, EditComment(i)
        PROVE  HydrateInv'
    BY <1>4, EditKeeps
  <1>5. ASSUME NEW w \in Workers,
               \/ \E d \in DOMAIN changes : Hydrate(w, d)
               \/ Token(w) \/ GetTask(w) \/ GetComments(w) \/ GetFails(w)
               \/ TaskAnswer(w) \/ CommentsAnswer(w)
        PROVE  HydrateInv'
    BY <1>5, HydrateKeeps, RequestKeeps, TaskAnswerKeeps, CommentsAnswerKeeps
  <1>. QED BY <1>1, <1>2, <1>3, <1>4, <1>5 DEF ClickUpNext, clickUpVars, world

(* version, for ADR 4: in whatever order deliveries are hydrated, retried   *)
(* and replayed, the newest version of an entity whose last change is seen, *)
(* by its own time or the event's, is its content now.                      *)
THEOREM NewestIsCurrent == ClickUpSpec => []LatestIsCurrent
  <1>1. HydrateInv => LatestIsCurrent
    <2>. SUFFICES ASSUME HydrateInv, done = DOMAIN changes, NEW r \in records, SeenOf(r.of),
                         \A s \in records : s.of = r.of => s.version <= r.version
                  PROVE  Current(r)
      BY DEF LatestIsCurrent, Current
    <2>1. ReadOK(r)
      BY DEF HydrateInv, ReadSoFarOK, ReadSoFar
    <2>2. ~ Outdated(r)
      <3>. SUFFICES ASSUME NEW d \in DOMAIN changes, changes[d].on = r.of, changes[d].shown, r.version < Old + d
                    PROVE  FALSE
        BY DEF Outdated
      <3>1. PICK s \in records : s.of = r.of /\ Old + d <= s.version
        BY DEF HydrateInv, StoredOK
      <3>2. s \in RecordsAre /\ r \in RecordsAre
        BY DEF HydrateInv, ReadSoFarOK, ReadSoFar, ReadOK
      <3>3. s.version \in Nat /\ r.version \in Nat /\ Old + d \in Nat
        BY <3>2, DeliveryIs DEF RecordsAre
      <3>. QED BY <3>1, <3>3
    <2>. QED BY <2>1, <2>2 DEF ReadOK
  <1>. QED BY <1>1, HydrateInvInit, HydrateInvStep, PTL DEF ClickUpSpec

(* The record id: two records of one entity, version and scope say the      *)
(* same, so that the ledger may skip an id it knows; all but those of a     *)
(* comment at its own date that was edited with no event time to be read.   *)
THEOREM IdsNameContent == ClickUpSpec => []IdNamesContent
  <1>1. HydrateInv => IdNamesContent
    BY DEF HydrateInv, ReadSoFarOK, ReadSoFar, Agree, IdNamesContent
  <1>. QED BY <1>1, HydrateInvInit, HydrateInvStep, PTL DEF ClickUpSpec

(* api.comment: whatever is posted while it pages, a comment is not found   *)
(* only behind MaxPages whole pages of newer ones, or behind all the pages  *)
(* read, when the oldest comment of the last has no id or date to go on by. *)
THEOREM RecentFound == ClickUpSpec => []RecentIsFound
  <1>1. HydrateInv => RecentIsFound
    BY DEF HydrateInv
  <1>. QED BY <1>1, HydrateInvInit, HydrateInvStep, PTL DEF ClickUpSpec

(* api.get: however many goroutines hydrate, they are to the limiter a      *)
(* sequence of calls of allow, each asked before its request is sent.       *)
LEMMA HydrateIsMetered == ClickUpSpec => LimiterSpec
  <1>1. ClickUpInit => LimiterInit
    BY DEF ClickUpInit
  <1>2. [ClickUpNext]_clickUpVars => [LimiterNext]_limiterVars
    <2>. SUFFICES ASSUME [ClickUpNext]_clickUpVars PROVE [LimiterNext]_limiterVars
      OBVIOUS
    <2>1. CASE Tick
      BY <2>1 DEF LimiterNext
    <2>2. CASE EditTask \/ PostComment \/ \E list \in Lists : MoveTask(list)
      BY <2>2 DEF EditTask, PostComment, MoveTask, Change
    <2>3. CASE \E i \in DOMAIN comments : EditComment(i)
      BY <2>3 DEF EditComment, Change
    <2>4. CASE \E w \in Workers : GetTask(w) \/ GetComments(w)
      BY <2>4 DEF GetTask, GetComments, Get, LimiterNext
    <2>5. CASE \E w \in Workers : (\E d \in DOMAIN changes : Hydrate(w, d)) \/ Token(w) \/ GetFails(w)
      BY <2>5 DEF Hydrate, Token, GetFails
    <2>6. CASE \E w \in Workers : TaskAnswer(w) \/ CommentsAnswer(w)
      BY <2>6 DEF TaskAnswer, CommentsAnswer
    <2>7. CASE UNCHANGED clickUpVars
      BY <2>7 DEF clickUpVars
    <2>. QED BY <2>1, <2>2, <2>3, <2>4, <2>5, <2>6, <2>7 DEF ClickUpNext
  <1>. QED BY <1>1, <1>2, PTL DEF ClickUpSpec, LimiterSpec

(* Options.PerMinute: the requests of all the goroutines together keep to   *)
(* the rate and its burst, whoever sends them and whatever is answered.     *)
THEOREM HydrateKeepsRate == ClickUpSpec => []RateHolds
  BY HydrateIsMetered, RateHeld

-----------------------------------------------------------------------------
(* Durations *)

(* A second count is compared as the duration it stands for.                *)
LEMMA ScaleLess ==
    ASSUME NEW a \in Int, NEW b \in Int, NEW p \in Nat \ {0}, a * p < b * p
    PROVE  a < b
  OBVIOUS

(* Adding and taking away seconds, as durations.                            *)
LEMMA ScaleSum ==
    ASSUME NEW a \in Int, NEW b \in Int, NEW c \in Int, NEW p \in Nat
    PROVE  a * p + b * p - c * p = (a + b - c) * p
  OBVIOUS

(* A duration that fits is what it is.                                      *)
LEMMA NoWrap ==
    ASSUME NEW n \in Nat, NEW w \in Nat, n < w
    PROVE  ((n + w) % (2 * w)) - w = n
  OBVIOUS

-----------------------------------------------------------------------------
(* The invariant *)

Credentials == [of : Slots \cup {"nothing"}, n : Nat, until : Int]

Envelopes == [form : {"none", "whole", "damaged", "plain"}, key : Keys \cup {"none"},
              slot : Slots \cup {"none"}, holds : Credentials]

Fetches == [at : {"idle", "open", "asked", "issued"}, slot : Slots \cup {"none"}, since : Nat,
            row : Envelopes, had : SUBSET Credentials, token : Credentials, lifetime : Int]

VaultTypeOK ==
    /\ key \in Keys
    /\ rows \in [Slots -> Envelopes]
    /\ conns \in [Slots -> Credentials]
    /\ cache \in [Slots -> [token : Credentials, until : Int]]
    /\ fetch \in [Callers -> Fetches]
    /\ time \in Nat /\ made \in Nat

(* What is sealed in a whole envelope was made for the slot on its tag,     *)
(* wherever the envelope was moved to since.                                *)
EnvelopeSound(env) == env.form = "whole" => env.holds.of = env.slot

(* A cached token is its slot's, and its time in the cache is a count of    *)
(* seconds that ends the leeway, less the way of its answer, before its     *)
(* issuer stops honouring it.                                               *)
CacheSound(s) ==
    cache[s] # NotCached =>
        /\ cache[s].token.of = s
        /\ \E e \in Int : /\ cache[s].until = e * PerSecond
                          /\ e + (Leeway - Transit) <= cache[s].token.until

(* What a call knows at each place of its Fetch.                            *)
FetchSound(c) ==
    LET q == fetch[c] IN
    /\ q.at # "idle" => q.slot \in Slots
    /\ q.at = "open" => EnvelopeSound(q.row) /\ q.row.holds \in q.had
    /\ q.at = "asked" /\ backend = "nango" /\ conns[q.slot] # Nothing => conns[q.slot] \in q.had
    /\ q.at = "issued" =>
          /\ backend = "azure" /\ q.token.of = q.slot
          /\ q.token.until = q.since + q.lifetime
          /\ q.since <= time /\ time <= q.since + Transit

VaultInv ==
    /\ VaultTypeOK
    /\ \A s \in Slots : EnvelopeSound(rows[s])
    /\ \A s \in Slots : conns[s] # Nothing => conns[s].of = s
    /\ \A s \in Slots : CacheSound(s)
    /\ \A c \in Callers : FetchSound(c)
    /\ FetchIsOwn

(* A call that has ended, or was never made, knows nothing.                 *)
LEMMA IdleSound ==
    /\ Nothing \in Credentials /\ NoRow \in Envelopes /\ EnvelopeSound(NoRow)
    /\ NoFetch \in Fetches /\ NoFetch.at = "idle"
  BY DEF Nothing, Credentials, NoRow, Envelopes, EnvelopeSound, NoFetch, Fetches

(* Credentials and envelopes that are made are of their kind.               *)
LEMMA MadeSound ==
    ASSUME VaultInv, NEW s \in Slots, NEW until \in Int
    PROVE  /\ Credential(s, until) \in Credentials /\ Credential(s, until) # Nothing
           /\ Credential(s, until).of = s /\ Credential(s, until).until = until
           /\ seal(key, s, Credential(s, until)) \in Envelopes
           /\ EnvelopeSound(seal(key, s, Credential(s, until)))
  BY DEF VaultInv, VaultTypeOK, Credential, Credentials, Nothing, seal, Envelopes, EnvelopeSound

(* A credential that is stored or connected is its slot's, and the calls of *)
(* that slot may see it.                                                    *)
LEMMA VaultStores ==
    ASSUME VaultInv, NEW s \in Slots, Store(s) \/ Connect(s)
    PROVE  VaultInv'
  <1>1. PICK new : new = Credential(s, 0)
    OBVIOUS
  <1>2. /\ new \in Credentials /\ new # Nothing /\ new.of = s
        /\ seal(key, s, new) \in Envelopes /\ EnvelopeSound(seal(key, s, new))
    BY <1>1, MadeSound
  <1>3. /\ Seen(s, new) /\ made' = made + 1
        /\ UNCHANGED <<backend, key, cache, time>> /\ out' = NoAnswer
    BY <1>1 DEF Store, Connect, New, Silent
  <1>4. ASSUME NEW c \in Callers
        PROVE  /\ fetch'[c] \in Fetches
               /\ fetch'[c].at = fetch[c].at /\ fetch'[c].slot = fetch[c].slot
               /\ fetch'[c].row = fetch[c].row /\ fetch'[c].token = fetch[c].token
               /\ fetch'[c].since = fetch[c].since /\ fetch'[c].lifetime = fetch[c].lifetime
               /\ fetch[c].had \subseteq fetch'[c].had
               /\ fetch[c].at # "idle" /\ fetch[c].slot = s => new \in fetch'[c].had
    BY <1>2, <1>3 DEF Seen, VaultInv, VaultTypeOK, Fetches
  <1>5. fetch' \in [Callers -> Fetches]
    BY <1>3, <1>4 DEF Seen
  <1>6. FetchIsOwn'
    BY <1>3 DEF NoAnswer, FetchIsOwn
  <1>7. \A u \in Slots : CacheSound(u)'
    BY <1>3 DEF VaultInv, CacheSound
  <1>8. CASE Store(s)
    <2>1. rows' = [rows EXCEPT ![s] = seal(key, s, new)] /\ conns' = conns
      BY <1>1, <1>8 DEF Store
    <2>2. \A u \in Slots : rows'[u] = IF u = s THEN seal(key, s, new) ELSE rows[u]
      BY <2>1 DEF VaultInv, VaultTypeOK
    <2>3. VaultTypeOK'
      BY <1>2, <1>3, <1>5, <2>1 DEF VaultInv, VaultTypeOK
    <2>4. \A c \in Callers : FetchSound(c)'
      BY <1>3, <1>4, <2>1 DEF VaultInv, FetchSound
    <2>. QED BY <1>2, <1>6, <1>7, <2>1, <2>2, <2>3, <2>4 DEF VaultInv, EnvelopeSound
  <1>9. CASE Connect(s)
    <2>1. conns' = [conns EXCEPT ![s] = new] /\ rows' = rows
      BY <1>1, <1>9 DEF Connect
    <2>2. \A u \in Slots : conns'[u] = IF u = s THEN new ELSE conns[u]
      BY <2>1 DEF VaultInv, VaultTypeOK
    <2>3. VaultTypeOK'
      BY <1>2, <1>3, <1>5, <2>1 DEF VaultInv, VaultTypeOK
    <2>4. \A c \in Callers : FetchSound(c)'
      BY <1>3, <1>4, <2>2 DEF VaultInv, FetchSound
    <2>. QED BY <1>2, <1>6, <1>7, <2>1, <2>2, <2>3, <2>4 DEF VaultInv, EnvelopeSound
  <1>. QED BY <1>8, <1>9

(* What is removed, damaged or moved to another slot stays sound.           *)
LEMMA VaultRemovals ==
    ASSUME VaultInv,
           \/ \E s \in Slots : Revoke(s) \/ Delete(s)
           \/ Tamper
    PROVE  VaultInv'
  <1>1. UNCHANGED <<backend, key, cache, time, made, fetch>> /\ out' = NoAnswer
    BY DEF Revoke, Delete, Tamper, Silent
  <1>2. FetchIsOwn' /\ \A u \in Slots : CacheSound(u)'
    BY <1>1 DEF NoAnswer, FetchIsOwn, VaultInv, CacheSound
  <1>3. ASSUME NEW s \in Slots, Revoke(s) PROVE VaultInv'
    <2>1. rows' = [rows EXCEPT ![s] = NoRow] /\ conns' = conns
      BY <1>3 DEF Revoke
    <2>2. \A u \in Slots : rows'[u] = IF u = s THEN NoRow ELSE rows[u]
      BY <2>1 DEF VaultInv, VaultTypeOK
    <2>. QED BY <1>1, <1>2, <2>1, <2>2, IdleSound DEF VaultInv, VaultTypeOK, FetchSound, EnvelopeSound
  <1>4. ASSUME NEW s \in Slots, Delete(s) PROVE VaultInv'
    <2>1. conns' = [conns EXCEPT ![s] = Nothing] /\ rows' = rows
      BY <1>4 DEF Delete
    <2>2. \A u \in Slots : conns'[u] = IF u = s THEN Nothing ELSE conns[u]
      BY <2>1 DEF VaultInv, VaultTypeOK
    <2>3. VaultTypeOK'
      BY <1>1, <2>1, IdleSound DEF VaultInv, VaultTypeOK
    <2>4. \A c \in Callers : FetchSound(c)'
      BY <1>1, <2>2 DEF VaultInv, FetchSound
    <2>. QED BY <1>1, <1>2, <2>1, <2>2, <2>3, <2>4 DEF VaultInv, EnvelopeSound
  <1>5. CASE Tamper
    <2>1. /\ conns' = conns
          /\ \E s \in Slots :
                \/ \E other \in Slots : rows' = [rows EXCEPT ![other] = rows[s]]
                \/ \E form \in {"damaged", "plain"} : rows' = [rows EXCEPT ![s].form = form]
      BY <1>5 DEF Tamper
    <2>2. PICK s \in Slots :
                \/ \E other \in Slots : rows' = [rows EXCEPT ![other] = rows[s]]
                \/ \E form \in {"damaged", "plain"} : rows' = [rows EXCEPT ![s].form = form]
      BY <2>1
    <2>3. \A form \in {"damaged", "plain"} :
             LET env == [rows[s] EXCEPT !.form = form]
             IN  env \in Envelopes /\ EnvelopeSound(env)
      BY DEF VaultInv, VaultTypeOK, Envelopes, EnvelopeSound
    <2>4. rows' \in [Slots -> Envelopes] /\ \A u \in Slots : EnvelopeSound(rows'[u])
      BY <2>2, <2>3 DEF VaultInv, VaultTypeOK
    <2>. QED BY <1>1, <1>2, <2>1, <2>4 DEF VaultInv, VaultTypeOK, FetchSound
  <1>. QED BY <1>3, <1>4, <1>5

(* A step of one call, which answers and fills the cache as it may.         *)
LEMMA OneCall ==
    ASSUME VaultInv, NEW c \in Callers, NEW q \in Fetches, fetch' = [fetch EXCEPT ![c] = q],
           UNCHANGED <<backend, key, rows, conns, time>>, made' \in Nat,
           cache' \in [Slots -> [token : Credentials, until : Int]],
           \A s \in Slots : CacheSound(s)',
           fetch'[c] = q => FetchSound(c)', FetchIsOwn'
    PROVE  VaultInv'
  <1>1. fetch'[c] = q /\ \A d \in Callers : d # c => fetch'[d] = fetch[d]
    BY DEF VaultInv, VaultTypeOK
  <1>2. \A d \in Callers : FetchSound(d)'
    BY <1>1 DEF VaultInv, FetchSound
  <1>3. VaultTypeOK'
    BY DEF VaultInv, VaultTypeOK
  <1>. QED BY <1>2, <1>3 DEF VaultInv, EnvelopeSound

(* The end of a call that leaves the cache alone.                           *)
LEMMA CallEnds ==
    ASSUME VaultInv, NEW c \in Callers, NEW says, NEW got, Answer(c, says, got),
           says = "ok" => got.of = fetch[c].slot /\ got \in fetch[c].had,
           UNCHANGED <<backend, key, rows, conns, cache, time, made>>
    PROVE  VaultInv'
  <1>1. fetch' = [fetch EXCEPT ![c] = NoFetch]
    BY DEF Answer
  <1>2. FetchIsOwn'
    BY DEF Answer, FetchIsOwn
  <1>3. cache' \in [Slots -> [token : Credentials, until : Int]] /\ made' \in Nat
    BY DEF VaultInv, VaultTypeOK
  <1>4. \A s \in Slots : CacheSound(s)'
    BY DEF VaultInv, CacheSound
  <1>5. ASSUME fetch'[c] = NoFetch PROVE FetchSound(c)'
    BY <1>5, IdleSound DEF FetchSound
  <1>. QED BY <1>1, <1>2, <1>3, <1>4, <1>5, IdleSound, OneCall

(* Local.Fetch and Nango.Fetch begin by asking for what the slot has now.   *)
LEMMA VaultCalls ==
    ASSUME VaultInv, NEW c \in Callers, NEW s \in Slots, ReadRow(c, s) \/ Ask(c, s)
    PROVE  VaultInv'
  <1>1. /\ UNCHANGED <<backend, key, rows, conns, time, cache, made>> /\ out' = NoAnswer
        /\ \A u \in Slots : CacheSound(u)'
        /\ cache' \in [Slots -> [token : Credentials, until : Int]] /\ made' \in Nat
    BY DEF ReadRow, Ask, Silent, VaultInv, VaultTypeOK, CacheSound
  <1>2. FetchIsOwn'
    BY <1>1 DEF NoAnswer, FetchIsOwn
  <1>3. CASE ReadRow(c, s)
    <2>. DEFINE q == [NoFetch EXCEPT !.at = "open", !.slot = s, !.row = rows[s],
                                     !.had = {rows[s].holds}]
    <2>1. fetch' = [fetch EXCEPT ![c] = q]
      BY <1>3 DEF ReadRow
    <2>2. rows[s] \in Envelopes /\ rows[s].holds \in Credentials
      BY DEF VaultInv, VaultTypeOK, Envelopes
    <2>3. q \in Fetches
      BY <2>2, IdleSound DEF Fetches
    <2>4. q.at = "open" /\ q.slot = s /\ q.row = rows[s] /\ q.had = {rows[s].holds}
      BY DEF NoFetch
    <2>. HIDE DEF q
    <2>5. ASSUME fetch'[c] = q PROVE FetchSound(c)'
      BY <2>4, <2>5 DEF FetchSound, VaultInv
    <2>. QED BY <1>1, <1>2, <2>1, <2>3, <2>5, OneCall
  <1>4. CASE Ask(c, s)
    <2>. DEFINE q == [NoFetch EXCEPT !.at = "asked", !.slot = s, !.had = {conns[s]}]
    <2>1. fetch' = [fetch EXCEPT ![c] = q]
      BY <1>4 DEF Ask
    <2>2. conns[s] \in Credentials
      BY DEF VaultInv, VaultTypeOK
    <2>3. q \in Fetches
      BY <2>2, IdleSound DEF Fetches
    <2>4. q.at = "asked" /\ q.slot = s /\ q.had = {conns[s]}
      BY DEF NoFetch
    <2>. HIDE DEF q
    <2>5. ASSUME fetch'[c] = q PROVE FetchSound(c)'
      BY <1>1, <2>4, <2>5 DEF FetchSound
    <2>. QED BY <1>1, <1>2, <2>1, <2>3, <2>5, OneCall
  <1>. QED BY <1>3, <1>4

(* sealer.open and connection: only what is the slot's own is handed out.   *)
LEMMA VaultAnswers ==
    ASSUME VaultInv, NEW c \in Callers, Open(c) \/ Connection(c) \/ NoUse(c)
    PROVE  VaultInv'
  <1>0. UNCHANGED <<backend, key, rows, conns, cache, time, made>>
    BY DEF Open, Connection, NoUse
  <1>1. CASE Open(c)
    <2>1. fetch[c].at = "open"
      BY <1>1 DEF Open, In
    <2>2. PICK verdict : verdict = open(fetch[c].row, fetch[c].slot)
      OBVIOUS
    <2>3. Answer(c, verdict, IF verdict = "ok" THEN fetch[c].row.holds ELSE Nothing)
      BY <1>1, <2>2 DEF Open
    <2>4. verdict = "ok" => Authentic(fetch[c].row, fetch[c].slot)
      BY <2>2 DEF open
    <2>5. verdict = "ok" => fetch[c].row.holds.of = fetch[c].slot /\ fetch[c].row.holds \in fetch[c].had
      BY <2>1, <2>4 DEF Authentic, VaultInv, FetchSound, EnvelopeSound
    <2>. QED BY <1>0, <2>3, <2>5, CallEnds
  <1>2. CASE Connection(c)
    <2>1. backend = "nango" /\ fetch[c].at = "asked"
      BY <1>2 DEF Connection, In
    <2>2. ASSUME NEW s \in Slots, conns[s] # Nothing, IsOurs(fetch[c].slot, conns[s]),
                 Answer(c, "ok", conns[s])
          PROVE  VaultInv'
      <3>1. conns[s].of = s /\ fetch[c].slot = s
        BY <2>2 DEF IsOurs, VaultInv
      <3>2. conns[s] \in fetch[c].had
        BY <2>1, <2>2, <3>1 DEF VaultInv, FetchSound
      <3>. QED BY <1>0, <2>2, <3>1, <3>2, CallEnds
    <2>3. ASSUME NEW why \in {"unavailable", "not_found"}, Refuse(c, why)
          PROVE  VaultInv'
      BY <1>0, <2>3, CallEnds DEF Refuse
    <2>. QED BY <1>2, <2>2, <2>3 DEF Connection
  <1>3. CASE NoUse(c)
    <2>1. Answer(c, "unavailable", Nothing)
      BY <1>3 DEF NoUse, Refuse
    <2>. QED BY <1>0, <2>1, CallEnds
  <1>. QED BY <1>1, <1>2, <1>3

(* AzureApp.remember keeps a token for as long as the leeway allows.        *)
LEMMA RememberSound ==
    ASSUME VaultInv, NEW c \in Callers, fetch[c].at = "issued", Usable(fetch[c].lifetime),
           cache' = remembered(fetch[c].slot, fetch[c].token, Duration(fetch[c].lifetime))
    PROVE  /\ cache' \in [Slots -> [token : Credentials, until : Int]]
           /\ \A s \in Slots : CacheSound(s)'
  <1>1. PICK q : q = fetch[c]
    OBVIOUS
  <1>2. /\ q \in Fetches /\ q.slot \in Slots /\ q.token.of = q.slot /\ q.token \in Credentials
        /\ q.token.until = q.since + q.lifetime
        /\ time <= q.since + Transit /\ time \in Nat /\ q.since \in Nat
    BY <1>1 DEF VaultInv, VaultTypeOK, FetchSound, Fetches
  <1>3. q.lifetime \in Nat /\ q.lifetime <= MaxLifetime
    BY <1>1, <1>2, VaultAssumption DEF Usable, Fetches
  <1>4. Duration(q.lifetime) = q.lifetime * PerSecond
    <2>1. q.lifetime * PerSecond \in Nat /\ q.lifetime * PerSecond <= MaxLifetime * PerSecond
      BY <1>3, VaultAssumption
    <2>2. q.lifetime * PerSecond < Width
      <3>1. MaxLifetime * PerSecond \in Nat
        BY VaultAssumption
      <3>. QED BY <2>1, <3>1, VaultAssumption
    <2>. QED BY <2>1, <2>2, NoWrap, VaultAssumption DEF Duration
  <1>. DEFINE e == time + q.lifetime - Leeway
              kept == [token |-> q.token, until |-> e * PerSecond]
  <1>5. e \in Int /\ e + (Leeway - Transit) <= q.token.until
    BY <1>2, <1>3, VaultAssumption
  <1>6. time * PerSecond + q.lifetime * PerSecond - Leeway * PerSecond = e * PerSecond
    BY <1>2, <1>3, ScaleSum, VaultAssumption
  <1>7. cache' = cache \/ cache' = [cache EXCEPT ![q.slot] = kept]
    BY <1>1, <1>4, <1>6 DEF remembered
  <1>8. e * PerSecond \in Int
    BY <1>5, VaultAssumption
  <1>. HIDE DEF e
  <1>9. cache' \in [Slots -> [token : Credentials, until : Int]]
    <2>1. kept \in [token : Credentials, until : Int]
      BY <1>2, <1>8
    <2>2. cache \in [Slots -> [token : Credentials, until : Int]]
      BY DEF VaultInv, VaultTypeOK
    <2>. HIDE DEF kept
    <2>. QED BY <1>7, <2>1, <2>2
  <1>10. ASSUME NEW s \in Slots PROVE CacheSound(s)'
    <2>1. cache'[s] = cache[s] \/ (s = q.slot /\ cache'[s] = kept)
      BY <1>2, <1>7 DEF VaultInv, VaultTypeOK
    <2>. QED BY <1>2, <1>5, <2>1 DEF CacheSound, VaultInv
  <1>. QED BY <1>9, <1>10

(* AzureApp: a token is made for its slot, and its answer takes at most     *)
(* Transit.                                                                 *)
LEMMA VaultTokens ==
    ASSUME VaultInv, NEW c \in Callers,
           \/ \E s \in Slots : FetchToken(c, s)
           \/ Issue(c) \/ TokenAnswer(c)
    PROVE  VaultInv'
  <1>0. /\ UNCHANGED <<backend, key, rows, conns, time>> /\ time \in Nat
        /\ fetch \in [Callers -> Fetches] /\ fetch[c] \in Fetches
        /\ fetch[c].at # "idle" => fetch[c].slot \in Slots
    BY DEF FetchToken, Issue, TokenAnswer, Refuse, Answer, VaultInv, VaultTypeOK, FetchSound
  <1>1. cache' = cache => /\ cache' \in [Slots -> [token : Credentials, until : Int]]
                          /\ \A s \in Slots : CacheSound(s)'
    BY <1>0 DEF VaultInv, VaultTypeOK, CacheSound
  <1>2. out' = NoAnswer => FetchIsOwn'
    BY DEF NoAnswer, FetchIsOwn
  <1>3. ASSUME NEW s, NEW t, t.of = s,
               out' = [NoAnswer EXCEPT !.slot = s, !.says = "ok", !.got = t, !.had = {t}]
        PROVE  FetchIsOwn'
    <2>1. out'.slot = s /\ out'.got = t /\ out'.had = {t}
      BY <1>3 DEF NoAnswer
    <2>. QED BY <1>3, <2>1 DEF FetchIsOwn
  <1>4. ASSUME NEW s \in Slots, FetchToken(c, s)
        PROVE  VaultInv'
    <2>1. backend = "azure" /\ cache' = cache /\ made' = made /\ made' \in Nat
      BY <1>4 DEF FetchToken, VaultInv, VaultTypeOK
    <2>2. CASE cached(s)
      <3>1. /\ fetch' = fetch
            /\ out' = [NoAnswer EXCEPT !.slot = s, !.says = "ok", !.got = cache[s].token,
                                       !.had = {cache[s].token}]
        BY <1>4, <2>2 DEF FetchToken
      <3>2. cache[s].token.of = s
        BY <2>2 DEF cached, VaultInv, CacheSound
      <3>3. FetchIsOwn'
        BY <1>3, <3>1, <3>2
      <3>. QED BY <1>0, <2>1, <3>1, <3>3
               DEF VaultInv, VaultTypeOK, FetchSound, CacheSound, EnvelopeSound
    <2>3. CASE ~cached(s)
      <3>. DEFINE q == [NoFetch EXCEPT !.at = "asked", !.slot = s]
      <3>1. fetch' = [fetch EXCEPT ![c] = q] /\ out' = NoAnswer
        BY <1>4, <2>3 DEF FetchToken, Silent
      <3>2. q \in Fetches
        BY IdleSound DEF Fetches
      <3>3. q.at = "asked" /\ q.slot = s
        BY DEF NoFetch
      <3>. HIDE DEF q
      <3>4. ASSUME fetch'[c] = q PROVE FetchSound(c)'
        BY <1>0, <2>1, <3>3, <3>4 DEF FetchSound
      <3>. QED BY <1>0, <1>1, <1>2, <2>1, <3>1, <3>2, <3>4, OneCall
    <2>. QED BY <2>2, <2>3
  <1>5. CASE Issue(c)
    <2>1. backend = "azure" /\ cache' = cache /\ out' = NoAnswer /\ fetch[c].at = "asked"
      BY <1>5 DEF Issue, Silent, In
    <2>2. made' \in Nat
      <3>1. made' = made + 1
        BY <1>5 DEF Issue, New
      <3>2. made \in Nat
        BY DEF VaultInv, VaultTypeOK
      <3>. QED BY <3>1, <3>2
    <2>3. PICK n \in Lifetimes :
             fetch' = [fetch EXCEPT ![c].at = "issued", ![c].since = time, ![c].lifetime = n,
                                    ![c].token = Credential(fetch[c].slot, time + n)]
      BY <1>5 DEF Issue
    <2>4. n \in Int /\ time + n \in Int
      BY <1>0, VaultAssumption
    <2>5. PICK token : token = Credential(fetch[c].slot, time + n)
      OBVIOUS
    <2>6. token \in Credentials /\ token.of = fetch[c].slot /\ token.until = time + n
      BY <1>0, <2>1, <2>4, <2>5, MadeSound
    <2>. DEFINE q == [fetch[c] EXCEPT !.at = "issued", !.since = time, !.lifetime = n,
                                      !.token = token]
    <2>7. fetch' = [fetch EXCEPT ![c] = q]
      BY <1>0, <2>3, <2>5
    <2>8. q \in Fetches
      BY <1>0, <2>4, <2>6 DEF Fetches
    <2>9. /\ q.at = "issued" /\ q.since = time /\ q.lifetime = n /\ q.token = token
          /\ q.slot = fetch[c].slot
      BY <1>0 DEF Fetches
    <2>. HIDE DEF q
    <2>10. ASSUME fetch'[c] = q PROVE FetchSound(c)'
      <3>1. time <= time + Transit
        BY <1>0, VaultAssumption
      <3>. QED BY <1>0, <2>1, <2>6, <2>9, <2>10, <3>1 DEF FetchSound
    <2>. QED BY <1>0, <1>1, <1>2, <2>1, <2>2, <2>7, <2>8, <2>10, OneCall
  <1>6. CASE TokenAnswer(c)
    <2>1. made' = made /\ fetch[c].at = "issued"
      BY <1>6 DEF TokenAnswer, In
    <2>2. CASE Usable(fetch[c].lifetime)
      <3>1. /\ cache' = remembered(fetch[c].slot, fetch[c].token, Duration(fetch[c].lifetime))
            /\ fetch' = [fetch EXCEPT ![c] = NoFetch]
            /\ out' = [NoAnswer EXCEPT !.slot = fetch[c].slot, !.says = "ok",
                              !.got = fetch[c].token, !.had = {fetch[c].token}]
        BY <1>6, <2>2 DEF TokenAnswer
      <3>2. fetch[c].token.of = fetch[c].slot
        BY <2>1 DEF VaultInv, FetchSound
      <3>3. FetchIsOwn'
        BY <1>3, <3>1, <3>2
      <3>4. ASSUME fetch'[c] = NoFetch PROVE FetchSound(c)'
        BY <3>4, IdleSound DEF FetchSound
      <3>5. made' \in Nat
        BY <2>1 DEF VaultInv, VaultTypeOK
      <3>. QED BY <1>0, <2>1, <2>2, <3>1, <3>3, <3>4, <3>5, IdleSound, RememberSound, OneCall
    <2>3. CASE ~Usable(fetch[c].lifetime)
      <3>1. Answer(c, "unavailable", Nothing) /\ cache' = cache
        BY <1>6, <2>3 DEF TokenAnswer, Refuse
      <3>. QED BY <1>0, <2>1, <3>1, CallEnds
    <2>. QED BY <2>2, <2>3
  <1>. QED BY <1>4, <1>5, <1>6

(* The clock goes on only while no answer is overdue, and a process that is *)
(* started again has neither calls nor a cache.                             *)
LEMMA VaultClock ==
    ASSUME VaultInv, SecondPasses \/ Restart
    PROVE  VaultInv'
  <1>1. /\ UNCHANGED <<backend, rows, conns, made>> /\ FetchIsOwn'
    BY DEF SecondPasses, Restart, Silent, NoAnswer, FetchIsOwn
  <1>2. CASE SecondPasses
    <2>1. UNCHANGED <<key, cache, fetch>> /\ time' = time + 1 /\ time \in Nat
      BY <1>2 DEF SecondPasses, VaultInv, VaultTypeOK
    <2>2. ASSUME NEW c \in Callers, fetch[c].at = "issued"
          PROVE  fetch[c].since <= time' /\ time' <= fetch[c].since + Transit
      <3>1. fetch[c].since \in Nat /\ fetch[c].since <= time /\ time < fetch[c].since + Transit
        BY <1>2, <2>2 DEF SecondPasses, In, VaultInv, VaultTypeOK, FetchSound, Fetches
      <3>. QED BY <2>1, <3>1, VaultAssumption
    <2>3. \A c \in Callers : FetchSound(c)'
      BY <1>1, <2>1, <2>2 DEF VaultInv, FetchSound
    <2>. QED BY <1>1, <2>1, <2>3 DEF VaultInv, VaultTypeOK, CacheSound, EnvelopeSound
  <1>3. CASE Restart
    <2>1. /\ key' \in Keys /\ time' = time
          /\ cache' = [s \in Slots |-> NotCached] /\ fetch' = [c \in Callers |-> NoFetch]
      BY <1>3 DEF Restart, VaultInv, VaultTypeOK
    <2>2. NotCached \in [token : Credentials, until : Int]
      BY IdleSound DEF NotCached
    <2>3. \A c \in Callers : FetchSound(c)'
      BY <2>1, IdleSound DEF FetchSound
    <2>4. VaultTypeOK' /\ \A s \in Slots : CacheSound(s)'
      BY <1>1, <2>1, <2>2, IdleSound DEF VaultInv, VaultTypeOK, CacheSound
    <2>. QED BY <1>1, <2>3, <2>4 DEF VaultInv, EnvelopeSound
  <1>. QED BY <1>2, <1>3

-----------------------------------------------------------------------------
(* The theorems *)

(* Every answer, envelope, connection and cached token is its slot's.       *)
LEMMA VaultInductive == VaultSpec => []VaultInv
  <1>1. VaultInit => VaultInv
    <2>. SUFFICES ASSUME VaultInit PROVE VaultInv
      OBVIOUS
    <2>1. NotCached \in [token : Credentials, until : Int]
      BY IdleSound DEF NotCached
    <2>2. VaultTypeOK
      BY <2>1, IdleSound DEF VaultInit, VaultTypeOK
    <2>3. FetchIsOwn
      BY DEF VaultInit, NoAnswer, FetchIsOwn
    <2>4. \A c \in Callers : FetchSound(c)
      BY IdleSound DEF VaultInit, FetchSound
    <2>. QED BY <2>2, <2>3, <2>4, IdleSound DEF VaultInit, VaultInv, CacheSound
  <1>2. VaultInv /\ [VaultNext]_vaultVars => VaultInv'
    <2>1. VaultInv /\ UNCHANGED vaultVars => VaultInv'
      BY DEF vaultVars, VaultInv, VaultTypeOK, FetchSound, CacheSound, EnvelopeSound, FetchIsOwn
    <2>. QED BY <2>1, VaultStores, VaultRemovals, VaultCalls, VaultAnswers, VaultTokens, VaultClock
             DEF VaultNext
  <1>. QED BY <1>1, <1>2, PTL DEF VaultSpec

(* Vault's contract: what a Fetch hands out was made for the slot it names, *)
(* and was that slot's while it ran: not after rows were moved, keys were   *)
(* changed, connections mixed up, or calls of several slots raced.          *)
THEOREM OwnCredential == VaultSpec => []FetchIsOwn
  <1>1. VaultInv => FetchIsOwn
    BY DEF VaultInv
  <1>. QED BY <1>1, VaultInductive, PTL

(* azureExpiryLeeway: with answers faster than the leeway, and durations    *)
(* that fit their width, a token is never served so late that its leeway is *)
(* used up by more than the way of its own answer.                          *)
THEOREM TokenOutlivesCache == VaultSpec => []TokenLives
  <1>1. VaultInv => TokenLives
    <2>. SUFFICES ASSUME VaultInv, NEW s \in Slots, cached(s)
                  PROVE  cache[s].token.until - time > Leeway - Transit
      BY DEF TokenLives
    <2>1. PICK e \in Int : /\ cache[s].until = e * PerSecond
                           /\ e + (Leeway - Transit) <= cache[s].token.until
      BY DEF cached, VaultInv, CacheSound
    <2>2. time \in Int /\ cache[s].token.until \in Int
      BY DEF VaultInv, VaultTypeOK, Credentials
    <2>3. time < e
      BY <2>1, <2>2, ScaleLess, VaultAssumption DEF cached
    <2>. QED BY <2>1, <2>2, <2>3, VaultAssumption
  <1>. QED BY <1>1, VaultInductive, PTL

=============================================================================
