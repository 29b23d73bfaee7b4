---------------------------- MODULE OutboxProofs ----------------------------
(***************************************************************************)
(* Theorems about Outbox, for any number of tenants, deliveries, keys,     *)
(* records, tokens and attempts.                                           *)
(***************************************************************************)
EXTENDS Outbox, WellFoundedInduction, TLAPS

-----------------------------------------------------------------------------
(* The queue of one key *)

(* A nonempty set of sequence numbers has a least one: what ORDER BY seq    *)
(* LIMIT 1 returns exists.                                                  *)
LEMMA LeastSeq ==
    ASSUME NEW S \in SUBSET Nat, S # {}
    PROVE  \E m \in S : \A n \in S : m <= n
  <1>1. PICK m \in S : \A n \in S : ~(<<n, m>> \in OpToRel(<, Nat))
    BY WFMin, NatLessThanWellFounded, Zenon
  <1>2. \A n \in S : ~(n < m)
    BY <1>1, Zenon DEF OpToRel
  <1>. QED BY <1>2

(* A step that keeps every row's key, seq and marker, and which rows are    *)
(* unfinished, keeps every queue.                                           *)
LEMMA QuietQueue ==
    ASSUME QueueInv,
           \A r \in RowId :
              /\ outbox'[r].ordering_key = outbox[r].ordering_key
              /\ outbox'[r].seq = outbox[r].seq
              /\ outbox'[r].is_head = outbox[r].is_head
              /\ IsUnfinished(r)' <=> IsUnfinished(r)
              /\ Stored(r)' <=> Stored(r)
    PROVE  QueueInv'
  BY DEF QueueInv, DistinctSeq, HeadIsUnfinished, OneHead, HeadIsFirst, HasHead,
         SameKey, KeyOf, RowId

(* Accept and Replay: a row joins the back of its key's queue.              *)
LEMMA Enqueue ==
    ASSUME TypeOK, QueueInv,
           NEW r \in RowId, ~IsUnfinished(r), IsUnfinished(r)', outbox'[r].seq \in Nat,
           NEW key, key = KeyOf(r)', Stored(r) => KeyOf(r) = key,
           \A u \in RowId : KeyOf(u) = key /\ Stored(u) => outbox[u].seq < outbox'[r].seq,
           outbox'[r].is_head <=> KeyIsIdle(key),
           \A u \in RowId : u # r => outbox'[u] = outbox[u]
    PROVE  QueueInv'
  <1>. USE DEF SameKey, Stored, IsUnfinished, Unfinished
  <1>0. \A u \in RowId : outbox[u].seq \in Nat /\ outbox[u].is_head \in BOOLEAN
    BY BoundAssumption DEF TypeOK, Row
  <1>1. \A u \in RowId : u # r => KeyOf(u)' = KeyOf(u)
    BY DEF KeyOf
  <1>2. DistinctSeq'
    BY <1>0, <1>1 DEF QueueInv, DistinctSeq
  <1>3. HeadIsUnfinished'
    BY <1>1 DEF QueueInv, HeadIsUnfinished
  <1>4. OneHead'
    BY <1>0, <1>1 DEF QueueInv, OneHead, HeadIsUnfinished, KeyIsIdle
  <1>5. HeadIsFirst'
    BY <1>0, <1>1 DEF QueueInv, HeadIsFirst, HeadIsUnfinished, KeyIsIdle
  <1>6. HasHead'
    BY <1>0, <1>1 DEF QueueInv, HasHead, HeadIsUnfinished, KeyIsIdle
  <1>. QED BY <1>2, <1>3, <1>4, <1>5, <1>6 DEF QueueInv

(* finishIn: the head of a key finishes, and the earliest row behind it     *)
(* becomes the head.                                                        *)
LEMMA FinishQueue ==
    ASSUME TypeOK, QueueInv,
           NEW r \in RowId, IsUnfinished(r), outbox[r].is_head,
           NEW done \in Row, done.state \in Finished, ~done.is_head,
           done.seq = outbox[r].seq, done.ordering_key = outbox[r].ordering_key,
           Finish(r, done)
    PROVE  QueueInv'
  <1>. USE DEF SameKey, Stored, IsUnfinished, Unfinished, Finished
  <1>0. \A u \in RowId : outbox[u].seq \in Nat /\ outbox[u] \in Row
    BY BoundAssumption DEF TypeOK, Row
  <1>1. outbox'[r] = done
    BY DEF Finish
  <1>2. \A u \in RowId :
           u # r => outbox'[u] = IF NextHead(r, u)
                                 THEN [outbox[u] EXCEPT !.is_head = TRUE] ELSE outbox[u]
    BY DEF Finish
  <1>3. \A u \in RowId : u # r =>
           /\ outbox'[u].state = outbox[u].state
           /\ outbox'[u].seq = outbox[u].seq
           /\ outbox'[u].ordering_key = outbox[u].ordering_key
           /\ outbox'[u].is_head <=> outbox[u].is_head \/ NextHead(r, u)
    BY <1>0, <1>2 DEF Row
  <1>4. \A u \in RowId : KeyOf(u)' = KeyOf(u)
    BY <1>1, <1>3 DEF KeyOf
  <1>5. DistinctSeq'
    BY <1>0, <1>1, <1>3, <1>4 DEF QueueInv, DistinctSeq
  <1>6. HeadIsUnfinished'
    BY <1>1, <1>3 DEF QueueInv, HeadIsUnfinished, NextHead
  <1>7. \A u \in RowId : u # r /\ outbox[u].is_head => ~SameKey(r, u)
    BY DEF QueueInv, OneHead
  <1>8. OneHead'
    <2>. SUFFICES ASSUME NEW u \in RowId, NEW v \in RowId, SameKey(u, v)',
                         outbox'[u].is_head, outbox'[v].is_head, u # v
                  PROVE  FALSE
      BY DEF OneHead
    <2>1. u # r /\ v # r
      BY <1>1
    <2>2. SameKey(u, v)
      BY <1>3, <1>4, <2>1
    <2>3. CASE NextHead(r, u) /\ NextHead(r, v)
      BY <1>0, <2>1, <2>2, <2>3 DEF NextHead, QueueInv, DistinctSeq
    <2>4. CASE ~NextHead(r, u) /\ ~NextHead(r, v)
      BY <1>3, <2>1, <2>2, <2>4 DEF QueueInv, OneHead
    <2>5. CASE NextHead(r, u) /\ ~NextHead(r, v)
      BY <1>3, <1>7, <2>1, <2>2, <2>5 DEF NextHead
    <2>6. CASE ~NextHead(r, u) /\ NextHead(r, v)
      BY <1>3, <1>7, <2>1, <2>2, <2>6 DEF NextHead
    <2>. QED BY <2>3, <2>4, <2>5, <2>6
  <1>9. HeadIsFirst'
    <2>. SUFFICES ASSUME NEW u \in RowId, NEW v \in RowId, outbox'[u].is_head,
                         SameKey(u, v)', IsUnfinished(v)'
                  PROVE  outbox'[u].seq <= outbox'[v].seq
      BY DEF HeadIsFirst
    <2>1. u # r /\ v # r
      BY <1>1
    <2>2. SameKey(u, v) /\ IsUnfinished(v)
      BY <1>3, <1>4, <2>1
    <2>3. CASE NextHead(r, u)
      BY <1>3, <2>1, <2>2, <2>3 DEF NextHead
    <2>4. CASE ~NextHead(r, u)
      BY <1>3, <2>1, <2>2, <2>4 DEF QueueInv, HeadIsFirst
    <2>. QED BY <2>3, <2>4
  <1>10. HasHead'
    <2>. SUFFICES ASSUME NEW u \in RowId, IsUnfinished(u)'
                  PROVE  \E h \in RowId : SameKey(h, u)' /\ outbox'[h].is_head
      BY DEF HasHead
    <2>1. u # r /\ IsUnfinished(u)
      BY <1>1, <1>3
    <2>2. CASE ~SameKey(r, u)
      <3>1. PICK h \in RowId : SameKey(h, u) /\ outbox[h].is_head
        BY <2>1 DEF QueueInv, HasHead
      <3>2. h # r
        BY <2>2, <3>1
      <3>. QED BY <1>3, <1>4, <2>1, <3>1, <3>2
    <2>3. CASE SameKey(r, u)
      <3>. DEFINE W == {w \in RowId : w # r /\ SameKey(r, w) /\ IsUnfinished(w)}
                  Q == {outbox[w].seq : w \in W}
      <3>1. Q \in SUBSET Nat /\ Q # {}
        BY <1>0, <2>1, <2>3
      <3>2. PICK m \in Q : \A n \in Q : m <= n
        BY <3>1, LeastSeq
      <3>3. PICK h \in W : outbox[h].seq = m
        BY <3>2
      <3>4. NextHead(r, h)
        BY <3>2, <3>3 DEF NextHead
      <3>5. SameKey(h, u)'
        BY <1>3, <1>4, <2>1, <2>3, <3>3
      <3>. QED BY <1>3, <3>3, <3>4, <3>5
    <2>. QED BY <2>2, <2>3
  <1>. QED BY <1>5, <1>6, <1>8, <1>9, <1>10 DEF QueueInv

-----------------------------------------------------------------------------
(* One lemma per action *)

(* What the proofs use of a row that was just stored.                       *)
IsNew(row, k, n, head) ==
    /\ row \in Row
    /\ row.state = "pending" /\ row.ordering_key = k /\ row.seq = n
    /\ row.is_head = head /\ row.lease_token = NoToken /\ row.prepared_at = FALSE

(* The fields of a row as Accept inserts it.                                *)
LEMMA NewRowFacts ==
    ASSUME NEW k \in OrderingKeys \cup Deliveries, NEW n \in 0..MaxSeq, NEW head \in BOOLEAN
    PROVE  IsNew(NewRow(k, n, head), k, n, head)
  <1>1. 0 \in 0..MaxAttempts
    BY BoundAssumption
  <1>. QED BY <1>1 DEF IsNew, NewRow, Row, LastErrors, DeadReasons, Unfinished

(* The empty tables satisfy the invariant.                                  *)
LEMMA InitInv == Init => IInv
  <1>. SUFFICES ASSUME Init PROVE IInv
    OBVIOUS
  <1>1. \A r \in RowId : AbsentRow(r) \in Row /\ AbsentRow(r).state = "absent"
                         /\ ~AbsentRow(r).is_head /\ ~AbsentRow(r).prepared_at
                         /\ AbsentRow(r).lease_token = NoToken
                         /\ AbsentRow(r).ordering_key = r[2]
    <2>. TAKE r \in RowId
    <2>. DEFINE new == NewRow(r[2], 0, FALSE)
    <2>0. r[2] \in OrderingKeys \cup Deliveries /\ 0 \in 0..MaxSeq /\ FALSE \in BOOLEAN
      BY BoundAssumption DEF RowId
    <2>1. /\ new \in Row /\ new.ordering_key = r[2] /\ new.is_head = FALSE
          /\ new.lease_token = NoToken /\ new.prepared_at = FALSE
      BY <2>0, NewRowFacts DEF IsNew
    <2>2. AbsentRow(r) = [new EXCEPT !.state = "absent"]
      BY DEF AbsentRow
    <2>. HIDE DEF new
    <2>. QED BY <2>1, <2>2 DEF Row
  <1>2. \A r \in RowId : outbox[r] = AbsentRow(r)
    BY DEF Init
  <1>3. TypeOK
    BY <1>1 DEF Init, TypeOK, RecordState
  <1>4. RowConsistent
    BY <1>1, <1>2 DEF RowConsistent, IsUnfinished, Unfinished
  <1>5. QueueInv
    BY <1>1, <1>2 DEF QueueInv, DistinctSeq, HeadIsUnfinished, OneHead, HeadIsFirst,
                      HasHead, SameKey, Stored, IsUnfinished, Unfinished
  <1>6. ClaimIsCurrent
    BY DEF Init, ClaimIsCurrent
  <1>7. RecordsFollowRow
    BY <1>1, <1>2 DEF Init, RecordsFollowRow, DeadRecords
  <1>. QED BY <1>3, <1>4, <1>5, <1>6, <1>7 DEF IInv

(* Accept keeps it: a row that is not the head joins the back of a queue.   *)
LEMMA AcceptInv ==
    ASSUME IInv, NEW t \in Tenants, NEW d \in Deliveries, NEW k \in OrderingKeys,
           Accept(t, d, k)
    PROVE  IInv'
  <1>. DEFINE r == <<t, d>>
  <1>1. r \in RowId /\ r[1] = t /\ r[1] # Sentinel
    BY SentinelAssumption DEF RowId
  <1>2. PICK n \in 1..MaxSeq :
           /\ NextSeq(<<t, k>>, n)
           /\ outbox' = [outbox EXCEPT ![r] = NewRow(k, n, KeyIsIdle(<<t, k>>))]
    BY DEF Accept
  <1>3. /\ outbox[r].state = "absent"
        /\ UNCHANGED <<outbox_record, claims>>
    BY DEF Accept
  <1>4. PICK head \in BOOLEAN : head <=> KeyIsIdle(<<t, k>>)
    OBVIOUS
  <1>5. outbox' = [outbox EXCEPT ![r] = NewRow(k, n, head)]
    <2>1. KeyIsIdle(<<t, k>>) \in BOOLEAN
      BY DEF KeyIsIdle
    <2>. QED BY <1>2, <1>4, <2>1
  <1>6. k \in OrderingKeys \cup Deliveries /\ n \in 0..MaxSeq
    BY BoundAssumption
  <1>7. /\ outbox'[r] \in Row
        /\ outbox'[r].state = "pending" /\ outbox'[r].ordering_key = k
        /\ outbox'[r].seq = n /\ outbox'[r].is_head = head
        /\ outbox'[r].lease_token = NoToken /\ outbox'[r].prepared_at = FALSE
        /\ \A u \in RowId : u # r => outbox'[u] = outbox[u]
    <2>1. outbox'[r] = NewRow(k, n, head) /\ \A u \in RowId : u # r => outbox'[u] = outbox[u]
      BY <1>1, <1>5 DEF IInv, TypeOK
    <2>2. head \in BOOLEAN
      BY <1>4
    <2>3. IsNew(outbox'[r], k, n, head)
      BY <1>6, <2>1, <2>2, NewRowFacts, Zenon
    <2>. QED BY <2>1, <2>3, Zenon DEF IsNew
  <1>8. TypeOK'
    BY <1>1, <1>3, <1>5, <1>7 DEF IInv, TypeOK
  <1>9. RowConsistent'
    BY <1>1, <1>7 DEF IInv, RowConsistent, IsUnfinished, Unfinished
  <1>10. QueueInv'
    <2>1. KeyOf(r)' = <<t, k>> /\ IsUnfinished(r)' /\ ~Stored(r) /\ ~IsUnfinished(r)
      BY <1>1, <1>3, <1>7 DEF KeyOf, IsUnfinished, Unfinished, Stored
    <2>2. outbox'[r].seq = n /\ (outbox'[r].is_head <=> KeyIsIdle(<<t, k>>)) /\ n \in Nat
      BY <1>4, <1>7, BoundAssumption
    <2>3. \A u \in RowId :
             KeyOf(u) = <<t, k>> /\ Stored(u) => outbox[u].seq < outbox'[r].seq
      BY <1>2, <2>2 DEF NextSeq
    <2>. QED BY <1>1, <1>7, <2>1, <2>2, <2>3, Enqueue DEF IInv
  <1>11. ClaimIsCurrent'
    BY <1>1, <1>3, <1>7, TokenAssumption
       DEF IInv, ClaimIsCurrent, IsUnfinished, Unfinished, TypeOK, Claimed
  <1>12. RecordsFollowRow'
    BY <1>1, <1>3, <1>7
       DEF IInv, RecordsFollowRow, RowConsistent, Waiting, DeadRecords
  <1>. QED BY <1>8, <1>9, <1>10, <1>11, <1>12 DEF IInv

(* Park keeps it: a parked row is finished and belongs to no queue.         *)
LEMMA ParkInv ==
    ASSUME IInv, NEW d \in Deliveries, Park(d)
    PROVE  IInv'
  <1>. DEFINE r == <<Sentinel, d>>
              row == [NewRow(d, 0, FALSE) EXCEPT
                        !.state = "dead", !.dead_reason = "unattributable"]
  <1>1. r \in RowId /\ r[1] = Sentinel /\ r[2] = d
    BY DEF RowId
  <1>2. row \in Row /\ row.state = "dead" /\ ~row.is_head /\ ~row.prepared_at
        /\ row.lease_token = NoToken /\ row.ordering_key = d
    <2>. DEFINE new == NewRow(d, 0, FALSE)
    <2>0. d \in OrderingKeys \cup Deliveries /\ 0 \in 0..MaxSeq /\ FALSE \in BOOLEAN
      BY BoundAssumption
    <2>1. /\ new \in Row /\ new.ordering_key = d /\ new.is_head = FALSE
          /\ new.lease_token = NoToken /\ new.prepared_at = FALSE
      BY <2>0, NewRowFacts DEF IsNew
    <2>2. row = [new EXCEPT !.state = "dead", !.dead_reason = "unattributable"]
      OBVIOUS
    <2>. HIDE DEF new, row
    <2>. QED BY <2>1, <2>2 DEF Row, Finished, DeadReasons
  <1>3. /\ outbox[r].state = "absent"
        /\ outbox' = [outbox EXCEPT ![r] = row]
        /\ UNCHANGED <<outbox_record, claims>>
    BY DEF Park
  <1>. HIDE DEF row
  <1>4. outbox'[r] = row /\ \A u \in RowId : u # r => outbox'[u] = outbox[u]
    BY <1>1, <1>3 DEF IInv, TypeOK
  <1>5. TypeOK'
    BY <1>1, <1>2, <1>3 DEF IInv, TypeOK
  <1>6. RowConsistent'
    BY <1>1, <1>2, <1>4 DEF IInv, RowConsistent, IsUnfinished, Unfinished
  <1>7. \A u \in RowId : u # r => ~SameKey(u, r)' /\ ~SameKey(r, u)'
    BY <1>1, <1>2, <1>4 DEF IInv, RowConsistent, SameKey, KeyOf, RowId
  <1>8. QueueInv'
    BY <1>1, <1>2, <1>3, <1>4, <1>7
       DEF IInv, QueueInv, DistinctSeq, HeadIsUnfinished, OneHead, HeadIsFirst, HasHead,
           SameKey, KeyOf, Stored, IsUnfinished, Unfinished
  <1>9. ClaimIsCurrent'
    BY <1>1, <1>2, <1>3, <1>4, TokenAssumption
       DEF IInv, ClaimIsCurrent, IsUnfinished, TypeOK, Claimed
  <1>10. RecordsFollowRow'
    BY <1>1, <1>2, <1>3, <1>4
       DEF IInv, RecordsFollowRow, RowConsistent, Waiting, DeadRecords
  <1>. QED BY <1>5, <1>6, <1>8, <1>9, <1>10 DEF IInv

(* Release, Halt, Retry and Elapse: one row changes its timing, its lease   *)
(* or its attempts, and nothing about its place in the queue.               *)
LEMMA LocalStep ==
    ASSUME IInv, NEW r \in RowId, NEW row \in Row,
           outbox' = [outbox EXCEPT ![r] = row], UNCHANGED <<outbox_record, claims>>,
           row.state = outbox[r].state, row.ordering_key = outbox[r].ordering_key,
           row.seq = outbox[r].seq, row.is_head = outbox[r].is_head,
           row.prepared_at = outbox[r].prepared_at,
           \/ row.lease_token = NoToken
           \/ row.lease_token = outbox[r].lease_token /\ row.attempts = outbox[r].attempts
    PROVE  IInv'
  <1>1. outbox'[r] = row /\ \A u \in RowId : u # r => outbox'[u] = outbox[u]
    BY DEF IInv, TypeOK
  <1>2. TypeOK'
    BY DEF IInv, TypeOK
  <1>3. RowConsistent'
    BY <1>1 DEF IInv, RowConsistent, IsUnfinished
  <1>4. QueueInv'
    BY <1>1, QuietQueue DEF IInv, IsUnfinished, Stored
  <1>5. ClaimIsCurrent'
    BY <1>1, TokenAssumption DEF IInv, ClaimIsCurrent, IsUnfinished, TypeOK, Claimed
  <1>6. RecordsFollowRow'
    BY <1>1 DEF IInv, RecordsFollowRow, Waiting, DeadRecords
  <1>. QED BY <1>2, <1>3, <1>4, <1>5, <1>6 DEF IInv

(* What a Claimed is, and what its holding the lease means.                 *)
LEMMA HeldFacts ==
    ASSUME IInv, NEW c \in claims
    PROVE  /\ c.row \in RowId /\ c.token \in Tokens
           /\ outbox[c.row] \in Row
           /\ Held(c) => IsUnfinished(c.row) /\ outbox[c.row].is_head
  <1>1. c.row \in RowId /\ c.token \in Tokens /\ outbox[c.row] \in Row
    BY DEF IInv, TypeOK, Claimed
  <1>2. Held(c) => IsUnfinished(c.row) /\ outbox[c.row].is_head
    BY <1>1, TokenAssumption DEF Held, IInv, RowConsistent
  <1>. QED BY <1>1, <1>2

(* What giving an attempt back leaves of a row.                             *)
LEMMA GiveBackFacts ==
    ASSUME NEW row \in Row
    PROVE  /\ GiveAttemptBack(row) \in Row
           /\ GiveAttemptBack(row).state = row.state
           /\ GiveAttemptBack(row).ordering_key = row.ordering_key
           /\ GiveAttemptBack(row).seq = row.seq
           /\ GiveAttemptBack(row).is_head = row.is_head
           /\ GiveAttemptBack(row).prepared_at = row.prepared_at
           /\ GiveAttemptBack(row).lease_token = NoToken
  <1>1. row.attempts \in 0..MaxAttempts
    BY DEF Row
  <1>2. (IF row.attempts > 0 THEN row.attempts - 1 ELSE 0) \in 0..MaxAttempts
    BY <1>1, BoundAssumption
  <1>. QED BY <1>2 DEF GiveAttemptBack, Row

(* Release keeps it.                                                        *)
LEMMA ReleaseInv ==
    ASSUME IInv, NEW c \in claims, Release(c)
    PROVE  IInv'
  <1>. DEFINE r == c.row
              back == GiveAttemptBack(outbox[r])
              row == [back EXCEPT !.due = TRUE]
  <1>1. r \in RowId /\ outbox[r] \in Row
    BY HeldFacts
  <1>2. /\ back \in Row /\ back.state = outbox[r].state
        /\ back.ordering_key = outbox[r].ordering_key /\ back.seq = outbox[r].seq
        /\ back.is_head = outbox[r].is_head /\ back.prepared_at = outbox[r].prepared_at
        /\ back.lease_token = NoToken
    BY <1>1, GiveBackFacts
  <1>3. outbox' = [outbox EXCEPT ![r] = row] /\ UNCHANGED <<outbox_record, claims>>
    BY DEF Release
  <1>. HIDE DEF r, back
  <1>4. /\ row \in Row /\ row.state = outbox[r].state
        /\ row.ordering_key = outbox[r].ordering_key /\ row.seq = outbox[r].seq
        /\ row.is_head = outbox[r].is_head /\ row.prepared_at = outbox[r].prepared_at
        /\ row.lease_token = NoToken
    BY <1>2 DEF Row
  <1>. HIDE DEF row
  <1>. QED BY <1>1, <1>3, <1>4, LocalStep

(* Halt keeps it.                                                           *)
LEMMA HaltInv ==
    ASSUME IInv, NEW c \in claims, Halt(c)
    PROVE  IInv'
  <1>. DEFINE r == c.row
              back == GiveAttemptBack(outbox[r])
              row == [back EXCEPT !.due = FALSE, !.last_error = "reported"]
  <1>1. r \in RowId /\ outbox[r] \in Row
    BY HeldFacts
  <1>2. /\ back \in Row /\ back.state = outbox[r].state
        /\ back.ordering_key = outbox[r].ordering_key /\ back.seq = outbox[r].seq
        /\ back.is_head = outbox[r].is_head /\ back.prepared_at = outbox[r].prepared_at
        /\ back.lease_token = NoToken
    BY <1>1, GiveBackFacts
  <1>3. outbox' = [outbox EXCEPT ![r] = row] /\ UNCHANGED <<outbox_record, claims>>
    BY DEF Halt
  <1>. HIDE DEF r, back
  <1>4. /\ row \in Row /\ row.state = outbox[r].state
        /\ row.ordering_key = outbox[r].ordering_key /\ row.seq = outbox[r].seq
        /\ row.is_head = outbox[r].is_head /\ row.prepared_at = outbox[r].prepared_at
        /\ row.lease_token = NoToken
    BY <1>2 DEF Row, LastErrors
  <1>. HIDE DEF row
  <1>. QED BY <1>1, <1>3, <1>4, LocalStep

(* The query Retry keeps it.                                                *)
LEMMA RetryInv ==
    ASSUME IInv, NEW c \in claims, Retry(c)
    PROVE  IInv'
  <1>. DEFINE r == c.row
              row == [outbox[r] EXCEPT !.lease_token = NoToken, !.due = FALSE,
                                       !.last_error = "reported"]
  <1>1. r \in RowId /\ outbox[r] \in Row
    BY HeldFacts
  <1>2. outbox' = [outbox EXCEPT ![r] = row] /\ UNCHANGED <<outbox_record, claims>>
    BY <1>1 DEF Retry, IInv, TypeOK
  <1>. HIDE DEF r
  <1>3. /\ row \in Row /\ row.state = outbox[r].state
        /\ row.ordering_key = outbox[r].ordering_key /\ row.seq = outbox[r].seq
        /\ row.is_head = outbox[r].is_head /\ row.prepared_at = outbox[r].prepared_at
        /\ row.lease_token = NoToken
    BY <1>1 DEF Row, LastErrors
  <1>. HIDE DEF row
  <1>. QED BY <1>1, <1>2, <1>3, LocalStep

(* The clock keeps it.                                                      *)
LEMMA ElapseInv ==
    ASSUME IInv, NEW r \in RowId, Elapse(r)
    PROVE  IInv'
  <1>. DEFINE row == [outbox[r] EXCEPT !.due = TRUE]
  <1>1. outbox[r] \in Row
    BY DEF IInv, TypeOK
  <1>2. outbox' = [outbox EXCEPT ![r] = row] /\ UNCHANGED <<outbox_record, claims>>
    BY <1>1 DEF Elapse, IInv, TypeOK
  <1>3. /\ row \in Row /\ row.state = outbox[r].state
        /\ row.ordering_key = outbox[r].ordering_key /\ row.seq = outbox[r].seq
        /\ row.is_head = outbox[r].is_head /\ row.prepared_at = outbox[r].prepared_at
        /\ row.lease_token = outbox[r].lease_token /\ row.attempts = outbox[r].attempts
    BY <1>1 DEF Row
  <1>. HIDE DEF row
  <1>. QED BY <1>1, <1>2, <1>3, LocalStep

(* Forgetting claims keeps it.                                              *)
LEMMA DropInv ==
    ASSUME IInv, NEW C \in SUBSET claims, Drop(C)
    PROVE  IInv'
  BY DEF IInv, Drop, TypeOK, RowConsistent, QueueInv, DistinctSeq, HeadIsUnfinished,
         OneHead, HeadIsFirst, HasHead, ClaimIsCurrent, RecordsFollowRow, SameKey, KeyOf,
         Stored, IsUnfinished, Waiting, DeadRecords

(* PrepareIn keeps it: only a row with no records gets records.             *)
LEMMA PrepareInv ==
    ASSUME IInv, NEW c \in claims, NEW R \in SUBSET Records, PrepareIn(c, R)
    PROVE  IInv'
  <1>. DEFINE r == c.row
              row == [outbox[r] EXCEPT !.state = "prepared", !.prepared_at = TRUE]
              recs == [x \in Records |-> IF x \in R THEN "prepared" ELSE outbox_record[r][x]]
  <1>1. /\ r \in RowId /\ outbox[r] \in Row
        /\ Held(c) /\ outbox[r].state = "pending"
    BY HeldFacts DEF PrepareIn
  <1>2. /\ outbox' = [outbox EXCEPT ![r] = row]
        /\ outbox_record' = [outbox_record EXCEPT ![r] = recs]
        /\ claims' = claims
    BY <1>1 DEF PrepareIn, IInv, TypeOK
  <1>. HIDE DEF r
  <1>3. /\ row \in Row /\ row.state = "prepared" /\ row.prepared_at = TRUE
        /\ row.ordering_key = outbox[r].ordering_key /\ row.seq = outbox[r].seq
        /\ row.is_head = outbox[r].is_head /\ row.lease_token = outbox[r].lease_token
        /\ row.attempts = outbox[r].attempts
    BY <1>1 DEF Row, Unfinished
  <1>4. recs \in [Records -> RecordState]
    BY <1>1 DEF IInv, TypeOK, RecordState
  <1>5. \A x \in Records : recs[x] # "dead"
    BY <1>1 DEF IInv, RecordsFollowRow, RowConsistent
  <1>. HIDE DEF row, recs
  <1>6. /\ outbox'[r] = row /\ \A u \in RowId : u # r => outbox'[u] = outbox[u]
        /\ outbox_record'[r] = recs
        /\ \A u \in RowId : u # r => outbox_record'[u] = outbox_record[u]
    BY <1>1, <1>2 DEF IInv, TypeOK
  <1>7. TypeOK'
    BY <1>1, <1>2, <1>3, <1>4 DEF IInv, TypeOK
  <1>8. RowConsistent'
    BY <1>1, <1>3, <1>6 DEF IInv, RowConsistent, IsUnfinished, Unfinished
  <1>9. QueueInv'
    BY <1>1, <1>3, <1>6, QuietQueue DEF IInv, IsUnfinished, Unfinished, Stored
  <1>10. ClaimIsCurrent'
    BY <1>1, <1>2, <1>3, <1>6 DEF IInv, ClaimIsCurrent, IsUnfinished, Unfinished, TypeOK, Claimed
  <1>11. RecordsFollowRow'
    BY <1>1, <1>3, <1>5, <1>6 DEF IInv, RecordsFollowRow, Waiting, DeadRecords
  <1>. QED BY <1>7, <1>8, <1>9, <1>10, <1>11 DEF IInv

(* Claim keeps it: a fresh token outdates every older claim of the row.     *)
LEMMA ClaimInv ==
    ASSUME IInv, NEW S \in SUBSET RowId, NEW tok \in Tokens, Claim(S, tok)
    PROVE  IInv'
  <1>1. /\ \A r \in S : outbox[r].is_head /\ outbox[r].attempts < MaxAttempts
        /\ \A c \in claims : c.token # tok
        /\ outbox_record' = outbox_record
    BY DEF Claim, DueHead, UsedTokens
  <1>2. \A r \in RowId : outbox[r] \in Row /\ outbox[r].attempts \in 0..MaxAttempts
    BY DEF IInv, TypeOK, Row
  <1>3. \A r \in S : /\ AttemptOf(outbox[r]) \in 1..MaxAttempts
                     /\ AttemptOf(outbox[r]) \in 0..MaxAttempts
    BY <1>1, <1>2, BoundAssumption DEF AttemptOf
  <1>4. \A r \in RowId : outbox'[r] =
           IF r \in S
           THEN [outbox[r] EXCEPT !.lease_token = tok, !.due = FALSE,
                                  !.attempts = AttemptOf(outbox[r])]
           ELSE outbox[r]
    BY DEF Claim
  <1>5. \A r \in RowId :
           /\ outbox'[r] \in Row
           /\ outbox'[r].state = outbox[r].state
           /\ outbox'[r].ordering_key = outbox[r].ordering_key
           /\ outbox'[r].seq = outbox[r].seq
           /\ outbox'[r].is_head = outbox[r].is_head
           /\ outbox'[r].prepared_at = outbox[r].prepared_at
    <2>. TAKE r \in RowId
    <2>1. CASE r \in S
      <3>. DEFINE a == AttemptOf(outbox[r])
      <3>1. a \in 0..MaxAttempts /\ outbox[r] \in Row
        BY <1>2, <1>3, <2>1
      <3>2. outbox'[r] = [outbox[r] EXCEPT !.lease_token = tok, !.due = FALSE, !.attempts = a]
        BY <1>4, <2>1
      <3>. HIDE DEF a
      <3>. QED BY <3>1, <3>2 DEF Row
    <2>2. CASE r \notin S
      BY <1>2, <1>4, <2>2
    <2>. QED BY <2>1, <2>2
  <1>6. \A r \in S : /\ outbox'[r].lease_token = tok
                     /\ outbox'[r].attempts = AttemptOf(outbox[r])
    BY <1>2, <1>4 DEF Row
  <1>7. \A r \in RowId : r \notin S => outbox'[r] = outbox[r]
    BY <1>4
  <1>8. claims' = claims \cup
          {[row |-> r, attempt |-> AttemptOf(outbox[r]), token |-> tok] : r \in S}
    BY DEF Claim
  <1>9. TypeOK'
    <2>1. outbox' \in [RowId -> Row]
      <3>1. outbox' = [r \in RowId |-> outbox'[r]]
        BY DEF Claim
      <3>. QED BY <1>5, <3>1
    <2>2. claims' \subseteq Claimed
      BY <1>3, <1>8 DEF Claimed, IInv, TypeOK
    <2>. QED BY <1>1, <2>1, <2>2 DEF IInv, TypeOK
  <1>10. RowConsistent'
    <2>. SUFFICES ASSUME NEW r \in RowId
                  PROVE  /\ outbox'[r].state = "pending" => ~outbox'[r].prepared_at
                         /\ outbox'[r].state = "prepared" => outbox'[r].prepared_at
                         /\ outbox'[r].state = "absent" => ~outbox'[r].prepared_at
                         /\ outbox'[r].lease_token # NoToken => outbox'[r].is_head
                         /\ r[1] = Sentinel => /\ ~(outbox'[r].state \in Unfinished)
                                               /\ outbox'[r].ordering_key = r[2]
      BY DEF RowConsistent, IsUnfinished
    <2>. QED BY <1>1, <1>5, <1>7 DEF IInv, RowConsistent, IsUnfinished
  <1>11. QueueInv'
    BY <1>5, QuietQueue DEF IInv, IsUnfinished, Stored
  <1>12. ClaimIsCurrent'
    <2>. SUFFICES ASSUME NEW c \in claims', outbox'[c.row].lease_token = c.token
                  PROVE  outbox'[c.row].state \in Unfinished /\ outbox'[c.row].attempts = c.attempt
      BY DEF ClaimIsCurrent, IsUnfinished
    <2>1. CASE c \in claims
      <3>1. c.row \in RowId /\ c.row \notin S
        BY <1>1, <1>6, <2>1 DEF IInv, TypeOK, Claimed
      <3>. QED BY <1>7, <2>1, <3>1 DEF IInv, ClaimIsCurrent, IsUnfinished
    <2>2. CASE c \notin claims
      <3>1. PICK r \in S : c = [row |-> r, attempt |-> AttemptOf(outbox[r]), token |-> tok]
        BY <1>8, <2>2
      <3>2. r \in RowId /\ outbox[r].state \in Unfinished
        BY <1>1 DEF IInv, QueueInv, HeadIsUnfinished, IsUnfinished
      <3>. QED BY <1>5, <1>6, <3>1, <3>2
    <2>. QED BY <2>1, <2>2
  <1>13. RecordsFollowRow'
    BY <1>1, <1>5 DEF IInv, RecordsFollowRow, Waiting, DeadRecords
  <1>. QED BY <1>9, <1>10, <1>11, <1>12, <1>13 DEF IInv

(* The four conjuncts of IInv that a finishing transition keeps whatever it *)
(* writes to the records of its row.                                        *)
LEMMA FinishInv ==
    ASSUME IInv, NEW r \in RowId, IsUnfinished(r), outbox[r].is_head,
           NEW done \in Row, done.state \in Finished, ~done.is_head,
           done.seq = outbox[r].seq, done.ordering_key = outbox[r].ordering_key,
           done.lease_token = NoToken,
           Finish(r, done), claims' = claims,
           outbox_record' \in [RowId -> [Records -> RecordState]]
    PROVE  /\ TypeOK' /\ RowConsistent' /\ QueueInv' /\ ClaimIsCurrent'
           /\ outbox'[r] = done
           /\ \A u \in RowId : u # r => /\ outbox'[u].state = outbox[u].state
                                        /\ outbox'[u].prepared_at = outbox[u].prepared_at
  <1>1. outbox'[r] = done
    BY DEF Finish
  <1>2. \A u \in RowId : outbox[u] \in Row
    BY DEF IInv, TypeOK
  <1>3. \A u \in RowId : u # r =>
           outbox'[u] = IF NextHead(r, u)
                        THEN [outbox[u] EXCEPT !.is_head = TRUE] ELSE outbox[u]
    BY DEF Finish
  <1>4. \A u \in RowId : u # r =>
           /\ outbox'[u] \in Row
           /\ outbox'[u].state = outbox[u].state
           /\ outbox'[u].ordering_key = outbox[u].ordering_key
           /\ outbox'[u].prepared_at = outbox[u].prepared_at
           /\ outbox'[u].lease_token = outbox[u].lease_token
           /\ outbox'[u].attempts = outbox[u].attempts
           /\ outbox[u].is_head => outbox'[u].is_head
    <2>. TAKE u \in RowId
    <2>. HAVE u # r
    <2>1. CASE NextHead(r, u)
      <3>1. outbox'[u] = [outbox[u] EXCEPT !.is_head = TRUE]
        BY <1>3, <2>1
      <3>. QED BY <1>2, <3>1 DEF Row
    <2>2. CASE ~NextHead(r, u)
      BY <1>2, <1>3, <2>2
    <2>. QED BY <2>1, <2>2
  <1>5. TypeOK'
    <2>1. outbox' = [u \in RowId |-> outbox'[u]]
      BY DEF Finish
    <2>2. outbox' \in [RowId -> Row]
      BY <1>1, <1>4, <2>1
    <2>. QED BY <2>2 DEF IInv, TypeOK
  <1>6. RowConsistent'
    BY <1>1, <1>4 DEF IInv, RowConsistent, IsUnfinished, Unfinished, Finished
  <1>7. QueueInv'
    BY FinishQueue DEF IInv
  <1>8. ClaimIsCurrent'
    BY <1>1, <1>4, TokenAssumption DEF IInv, ClaimIsCurrent, IsUnfinished, TypeOK, Claimed
  <1>. QED BY <1>1, <1>4, <1>5, <1>6, <1>7, <1>8

(* markDead keeps it: the next row becomes the head.                        *)
LEMMA ParkDeadInv ==
    ASSUME IInv, NEW c \in claims, NEW why \in DeadReasons, NEW err \in LastErrors,
           ParkDead(c, why, err)
    PROVE  IInv'
  <1>. DEFINE r == c.row
              done == FinishedRow(r, "dead", why, err)
  <1>1. r \in RowId /\ outbox[r] \in Row /\ IsUnfinished(r) /\ outbox[r].is_head
    BY HeldFacts DEF ParkDead
  <1>2. Finish(r, done) /\ outbox_record' = outbox_record /\ claims' = claims
    BY DEF ParkDead
  <1>3. "dead" \in Finished
    BY DEF Finished
  <1>4. /\ done \in Row /\ done.state = "dead" /\ done.is_head = FALSE
        /\ done.seq = outbox[r].seq /\ done.ordering_key = outbox[r].ordering_key
        /\ done.lease_token = NoToken /\ done.prepared_at = outbox[r].prepared_at
    BY <1>1, <1>3 DEF FinishedRow, Row
  <1>5. outbox_record' \in [RowId -> [Records -> RecordState]]
    BY <1>2 DEF IInv, TypeOK
  <1>. HIDE DEF r, done
  <1>6. /\ TypeOK' /\ RowConsistent' /\ QueueInv' /\ ClaimIsCurrent'
        /\ outbox'[r] = done
        /\ \A u \in RowId : u # r => /\ outbox'[u].state = outbox[u].state
                                     /\ outbox'[u].prepared_at = outbox[u].prepared_at
    BY <1>1, <1>2, <1>3, <1>4, <1>5, FinishInv
  <1>7. RecordsFollowRow'
    BY <1>1, <1>2, <1>4, <1>6
       DEF IInv, RecordsFollowRow, Waiting, DeadRecords, IsUnfinished, Unfinished
  <1>. QED BY <1>6, <1>7 DEF IInv

(* MarkDelivered keeps it: no record of the row is left waiting.            *)
LEMMA MarkDeliveredInv ==
    ASSUME IInv, NEW c \in claims, NEW refused \in SUBSET Records,
           MarkDelivered(c, refused)
    PROVE  IInv'
  <1>. DEFINE r == c.row
              done == FinishedRow(r, "delivered", outbox[r].dead_reason, "")
              recs == Answered(outbox_record[r], refused)
  <1>1. /\ r \in RowId /\ outbox[r] \in Row /\ IsUnfinished(r) /\ outbox[r].is_head
        /\ refused \subseteq Waiting(r)
    BY HeldFacts DEF MarkDelivered
  <1>2. /\ Finish(r, done) /\ claims' = claims
        /\ outbox_record' = [outbox_record EXCEPT ![r] = recs]
    BY <1>1 DEF MarkDelivered, IInv, TypeOK
  <1>3. /\ "delivered" \in Finished /\ "" \in LastErrors
        /\ outbox[r].dead_reason \in DeadReasons
    BY <1>1 DEF Finished, LastErrors, Row
  <1>4. /\ done \in Row /\ done.state = "delivered" /\ done.is_head = FALSE
        /\ done.seq = outbox[r].seq /\ done.ordering_key = outbox[r].ordering_key
        /\ done.lease_token = NoToken /\ done.prepared_at = outbox[r].prepared_at
    BY <1>1, <1>3 DEF FinishedRow, Row
  <1>. HIDE DEF r, done
  <1>5. outbox_record[r] \in [Records -> RecordState]
    BY <1>1 DEF IInv, TypeOK
  <1>6. /\ recs \in [Records -> RecordState]
        /\ \A x \in Records : recs[x] # "prepared"
        /\ \A x \in Records : outbox_record[r][x] = "none" => recs[x] = "none"
    BY <1>1, <1>5 DEF Answered, RecordState, Waiting
  <1>. HIDE DEF recs
  <1>7. outbox_record' \in [RowId -> [Records -> RecordState]]
    BY <1>1, <1>2, <1>6 DEF IInv, TypeOK
  <1>8. /\ TypeOK' /\ RowConsistent' /\ QueueInv' /\ ClaimIsCurrent'
        /\ outbox'[r] = done
        /\ \A u \in RowId : u # r => /\ outbox'[u].state = outbox[u].state
                                     /\ outbox'[u].prepared_at = outbox[u].prepared_at
    BY <1>1, <1>2, <1>3, <1>4, <1>7, FinishInv
  <1>9. /\ outbox_record'[r] = recs
        /\ \A u \in RowId : u # r => outbox_record'[u] = outbox_record[u]
    BY <1>1, <1>2 DEF IInv, TypeOK
  <1>10. RecordsFollowRow'
    BY <1>1, <1>4, <1>6, <1>8, <1>9 DEF IInv, RecordsFollowRow, Waiting, DeadRecords
  <1>. QED BY <1>8, <1>10 DEF IInv

(* Replay keeps it: the row goes to the back of its queue.                  *)
LEMMA ReplayInv ==
    ASSUME IInv, NEW r \in RowId, Replay(r)
    PROVE  IInv'
  <1>1. PICK n \in 1..MaxSeq :
           /\ NextSeq(KeyOf(r), n)
           /\ outbox' = [outbox EXCEPT ![r] =
                [@ EXCEPT !.seq = n, !.is_head = KeyIsIdle(KeyOf(r)),
                          !.state = ReplayState(outbox[r]), !.attempts = 0,
                          !.due = TRUE, !.dead_reason = ""]]
    BY DEF Replay
  <1>2. PICK head \in BOOLEAN : head <=> KeyIsIdle(KeyOf(r))
    OBVIOUS
  <1>3. head = KeyIsIdle(KeyOf(r))
    BY <1>2 DEF KeyIsIdle
  <1>. DEFINE row == [outbox[r] EXCEPT !.seq = n, !.is_head = head,
                          !.state = ReplayState(outbox[r]), !.attempts = 0,
                          !.due = TRUE, !.dead_reason = ""]
              recs == Revived(outbox_record[r])
  <1>4. /\ outbox[r] \in Row /\ outbox_record[r] \in [Records -> RecordState]
        /\ n \in 0..MaxSeq /\ n \in Nat /\ 0 \in 0..MaxAttempts
    BY BoundAssumption DEF IInv, TypeOK
  <1>5. /\ outbox' = [outbox EXCEPT ![r] = row]
        /\ outbox_record' = [outbox_record EXCEPT ![r] = recs]
        /\ claims' = claims
    BY <1>1, <1>3, <1>4 DEF Replay, IInv, TypeOK
  <1>6. /\ r[1] \in Tenants /\ outbox[r].state \in Finished
    BY DEF Replay, Replayable, Finished
  <1>7. outbox[r].lease_token = NoToken /\ ~IsUnfinished(r) /\ Stored(r)
    BY <1>6 DEF IInv, RowConsistent, QueueInv, HeadIsUnfinished, IsUnfinished, Unfinished,
                Finished, Stored
  <1>8. /\ row \in Row /\ row.ordering_key = outbox[r].ordering_key
        /\ row.seq = n /\ (row.is_head <=> head)
        /\ row.lease_token = outbox[r].lease_token
        /\ row.prepared_at = outbox[r].prepared_at
        /\ row.state = ReplayState(outbox[r])
    <2>1. ReplayState(outbox[r]) \in Unfinished
      BY DEF ReplayState, Unfinished
    <2>2. "" \in DeadReasons
      BY DEF DeadReasons
    <2>. QED BY <1>4, <2>1, <2>2 DEF Row
  <1>9. /\ recs \in [Records -> RecordState]
        /\ \A x \in Records : recs[x] # "dead"
        /\ \A x \in Records : outbox_record[r][x] = "none" => recs[x] = "none"
    BY <1>4 DEF Revived, RecordState
  <1>. HIDE DEF row, recs
  <1>10. /\ outbox'[r] = row /\ \A u \in RowId : u # r => outbox'[u] = outbox[u]
         /\ outbox_record'[r] = recs
         /\ \A u \in RowId : u # r => outbox_record'[u] = outbox_record[u]
    BY <1>5 DEF IInv, TypeOK
  <1>11. TypeOK'
    BY <1>5, <1>8, <1>9 DEF IInv, TypeOK
  <1>12. RowConsistent'
    BY <1>6, <1>7, <1>8, <1>10, SentinelAssumption
       DEF IInv, RowConsistent, ReplayState, IsUnfinished, Unfinished
  <1>13. QueueInv'
    <2>1. /\ KeyOf(r)' = KeyOf(r) /\ IsUnfinished(r)'
          /\ outbox'[r].seq = n /\ (outbox'[r].is_head <=> KeyIsIdle(KeyOf(r)))
      BY <1>2, <1>8, <1>10 DEF KeyOf, IsUnfinished, Unfinished, ReplayState
    <2>2. \A u \in RowId :
             KeyOf(u) = KeyOf(r) /\ Stored(u) => outbox[u].seq < outbox'[r].seq
      BY <1>1, <2>1 DEF NextSeq
    <2>. QED BY <1>4, <1>7, <1>10, <2>1, <2>2, Enqueue DEF IInv
  <1>14. ClaimIsCurrent'
    BY <1>5, <1>7, <1>8, <1>10, TokenAssumption
       DEF IInv, ClaimIsCurrent, IsUnfinished, TypeOK, Claimed
  <1>15. RecordsFollowRow'
    BY <1>6, <1>8, <1>9, <1>10
       DEF IInv, RecordsFollowRow, Waiting, DeadRecords, ReplayState
  <1>. QED BY <1>11, <1>12, <1>13, <1>14, <1>15 DEF IInv

-----------------------------------------------------------------------------
(* Safety *)

(* IInv is inductive: every committed transaction of every operation, in    *)
(* any interleaving, keeps it.                                              *)
LEMMA StepInv ==
    ASSUME IInv, [Next]_vars
    PROVE  IInv'
  <1>1. CASE UNCHANGED vars
    BY <1>1 DEF vars, IInv, TypeOK, RowConsistent, QueueInv, DistinctSeq,
                HeadIsUnfinished, OneHead, HeadIsFirst, HasHead, ClaimIsCurrent,
                RecordsFollowRow, SameKey, KeyOf, Stored, IsUnfinished, Waiting, DeadRecords
  <1>2. CASE \E t \in Tenants, d \in Deliveries, k \in OrderingKeys : Accept(t, d, k)
    BY <1>2, AcceptInv
  <1>3. CASE \E d \in Deliveries : Park(d)
    BY <1>3, ParkInv
  <1>4. CASE \E S \in SUBSET RowId, tok \in Tokens : Claim(S, tok)
    BY <1>4, ClaimInv
  <1>5. CASE \E c \in claims : Transition(c)
    <2>. PICK c \in claims : Transition(c)
      BY <1>5
    <2>1. CASE \E R \in SUBSET Records : PrepareIn(c, R)
      BY <2>1, PrepareInv
    <2>2. CASE \E refused \in SUBSET Records : MarkDelivered(c, refused)
      BY <2>2, MarkDeliveredInv
    <2>3. CASE Release(c) \/ Halt(c)
      BY <2>3, ReleaseInv, HaltInv
    <2>4. CASE Fail(c) \/ MarkDead(c) \/ MarkAbandoned(c)
      <3>1. {"retries exhausted", "not retryable", "abandoned"} \subseteq DeadReasons
            /\ {"reported", "worker lost"} \subseteq LastErrors
        BY DEF DeadReasons, LastErrors
      <3>. QED BY <2>4, <3>1, RetryInv, ParkDeadInv DEF Fail, MarkDead, MarkAbandoned
    <2>. QED BY <2>1, <2>2, <2>3, <2>4 DEF Transition
  <1>6. CASE \E r \in RowId : Replay(r) \/ Elapse(r)
    BY <1>6, ReplayInv, ElapseInv
  <1>7. CASE \E C \in SUBSET claims : Drop(C)
    BY <1>7, DropInv
  <1>. QED BY <1>1, <1>2, <1>3, <1>4, <1>5, <1>6, <1>7 DEF Next

(* The invariant of the committed tables.                                   *)
THEOREM Inductive == Spec => []IInv
  <1>1. IInv /\ [Next]_vars => IInv'
    BY StepInv
  <1>. QED BY <1>1, InitInv, PTL DEF Spec

(* The tables and the claims keep their types.                              *)
THEOREM TypeCorrect == Spec => []TypeOK
  <1>1. IInv => TypeOK
    BY DEF IInv
  <1>. QED BY <1>1, Inductive, PTL

(* ADR 10: is_head is always the earliest unfinished row of its key, one    *)
(* per key, and no key is ever stranded.                                    *)
THEOREM HeadMarkerCorrect == Spec => []HeadInvariant
  <1>1. IInv => NoStrandedKey
    BY DEF IInv, QueueInv, HasHead, NoStrandedKey, StrandedKeys
  <1>2. IInv => HeadInvariant
    BY <1>1 DEF IInv, QueueInv, HeadInvariant
  <1>. QED BY <1>2, Inductive, PTL

(* Never two versions of one entity in flight.                              *)
THEOREM OneVersionInFlight == Spec => []OneInFlight
  <1>1. IInv => OneInFlight
    BY DEF IInv, RowConsistent, QueueInv, OneHead, OneInFlight
  <1>. QED BY <1>1, Inductive, PTL

(* A worker that still holds its lease holds the attempt the row records.   *)
THEOREM ClaimsCurrent == Spec => []ClaimIsCurrent
  <1>1. IInv => ClaimIsCurrent
    BY DEF IInv
  <1>. QED BY <1>1, Inductive, PTL

(* Rows and records agree, and every dead letter can be replayed.           *)
THEOREM RecordsConsistent == Spec => []RecordsFollowRow
  <1>1. IInv => RecordsFollowRow
    BY DEF IInv
  <1>. QED BY <1>1, Inductive, PTL

-----------------------------------------------------------------------------
(* What a step may never do *)

(* Only a claim grants a lease.                                             *)
LEMMA OnlyClaimLeases ==
    ASSUME IInv, Next, ~\E S \in SUBSET RowId, tok \in Tokens : Claim(S, tok),
           NEW r \in RowId
    PROVE  outbox'[r].lease_token \in {NoToken, outbox[r].lease_token}
  <1>0. \A u \in RowId : outbox[u] \in Row
    BY DEF IInv, TypeOK
  <1>1. CASE \E t \in Tenants, d \in Deliveries, k \in OrderingKeys : Accept(t, d, k)
    <2>1. PICK t \in Tenants, d \in Deliveries, k \in OrderingKeys : Accept(t, d, k)
      BY <1>1
    <2>2. PICK n \in 1..MaxSeq :
             outbox' = [outbox EXCEPT ![<<t, d>>] = NewRow(k, n, KeyIsIdle(<<t, k>>))]
      BY <2>1 DEF Accept
    <2>3. NewRow(k, n, KeyIsIdle(<<t, k>>)).lease_token = NoToken
      BY DEF NewRow
    <2>. QED BY <2>2, <2>3 DEF IInv, TypeOK
  <1>2. CASE \E d \in Deliveries : Park(d)
    BY <1>0, <1>2 DEF Park, NewRow, IInv, TypeOK
  <1>3. CASE \E c \in claims : Transition(c)
    <2>. PICK c \in claims : Transition(c)
      BY <1>3
    <2>1. ASSUME NEW done \in Row, done.lease_token = NoToken, Finish(c.row, done)
          PROVE  outbox'[r].lease_token \in {NoToken, outbox[r].lease_token}
      <3>1. CASE r = c.row
        BY <2>1, <3>1 DEF Finish
      <3>2. CASE r # c.row /\ NextHead(c.row, r)
        BY <1>0, <2>1, <3>2 DEF Finish, Row
      <3>3. CASE r # c.row /\ ~NextHead(c.row, r)
        BY <2>1, <3>3 DEF Finish
      <3>. QED BY <3>1, <3>2, <3>3
    <2>2. c.row \in RowId /\ outbox[c.row] \in Row /\ outbox[c.row].dead_reason \in DeadReasons
      BY <1>0, HeldFacts DEF Row
    <2>3. ASSUME NEW st \in Finished, NEW why \in DeadReasons, NEW err \in LastErrors,
                 Finish(c.row, FinishedRow(c.row, st, why, err))
          PROVE  outbox'[r].lease_token \in {NoToken, outbox[r].lease_token}
      <3>1. FinishedRow(c.row, st, why, err) \in Row
            /\ FinishedRow(c.row, st, why, err).lease_token = NoToken
        BY <2>2 DEF FinishedRow, Row
      <3>. QED BY <2>1, <2>3, <3>1
    <2>4. CASE \E R \in SUBSET Records : PrepareIn(c, R)
      BY <1>0, <2>2, <2>4 DEF PrepareIn, IInv, TypeOK, Row
    <2>5. CASE \E refused \in SUBSET Records : MarkDelivered(c, refused)
      BY <2>2, <2>3, <2>5 DEF MarkDelivered, Finished, LastErrors
    <2>6. CASE Release(c) \/ Halt(c)
      <3>. DEFINE back == GiveAttemptBack(outbox[c.row])
      <3>1. back \in Row /\ back.lease_token = NoToken
        BY <2>2, GiveBackFacts
      <3>2. CASE Release(c)
        <4>1. outbox' = [outbox EXCEPT ![c.row] = [back EXCEPT !.due = TRUE]]
          BY <3>2 DEF Release
        <4>. HIDE DEF back
        <4>. QED BY <2>2, <3>1, <4>1 DEF IInv, TypeOK, Row
      <3>3. CASE Halt(c)
        <4>1. outbox' = [outbox EXCEPT ![c.row] =
                            [back EXCEPT !.due = FALSE, !.last_error = "reported"]]
          BY <3>3 DEF Halt
        <4>. HIDE DEF back
        <4>. QED BY <2>2, <3>1, <4>1 DEF IInv, TypeOK, Row
      <3>. QED BY <2>6, <3>2, <3>3
    <2>7. CASE Retry(c)
      BY <1>0, <2>2, <2>7 DEF Retry, IInv, TypeOK, Row
    <2>8. ASSUME NEW why \in DeadReasons, NEW err \in LastErrors, ParkDead(c, why, err)
          PROVE  outbox'[r].lease_token \in {NoToken, outbox[r].lease_token}
      BY <2>3, <2>8 DEF ParkDead, Finished
    <2>9. CASE Fail(c) \/ MarkDead(c) \/ MarkAbandoned(c)
      <3>1. {"retries exhausted", "not retryable", "abandoned"} \subseteq DeadReasons
            /\ {"reported", "worker lost"} \subseteq LastErrors
        BY DEF DeadReasons, LastErrors
      <3>. QED BY <2>7, <2>8, <2>9, <3>1 DEF Fail, MarkDead, MarkAbandoned
    <2>. QED BY <2>4, <2>5, <2>6, <2>9 DEF Transition
  <1>4. CASE \E u \in RowId : Replay(u)
    BY <1>0, <1>4 DEF Replay, IInv, TypeOK, Row
  <1>5. CASE \E u \in RowId : Elapse(u)
    BY <1>0, <1>5 DEF Elapse, IInv, TypeOK, Row
  <1>6. CASE \E C \in SUBSET claims : Drop(C)
    BY <1>6 DEF Drop
  <1>. QED BY <1>1, <1>2, <1>3, <1>4, <1>5, <1>6 DEF Next

(* Queue order is delivery order: a lease is only granted on the earliest   *)
(* unfinished row of its key, with nothing else of the key leased.          *)
THEOREM LeasesInOrder == Spec => LeasedInOrder
  <1>. DEFINE Ordered(r, s) ==
                 /\ outbox'[r].lease_token \notin {NoToken, outbox[r].lease_token}
                 /\ s # r /\ SameKey(r, s) /\ IsUnfinished(s)
                 => outbox[r].seq < outbox[s].seq /\ outbox[s].lease_token = NoToken
  <1>1. IInv /\ [Next]_vars => [\A r, s \in RowId : Ordered(r, s)]_vars
    <2>. SUFFICES ASSUME IInv, Next, NEW r \in RowId, NEW s \in RowId,
                         outbox'[r].lease_token \notin {NoToken, outbox[r].lease_token},
                         s # r, SameKey(r, s), IsUnfinished(s)
                  PROVE  outbox[r].seq < outbox[s].seq /\ outbox[s].lease_token = NoToken
      OBVIOUS
    <2>1. PICK S \in SUBSET RowId, tok \in Tokens : Claim(S, tok)
      BY OnlyClaimLeases
    <2>2. r \in S /\ outbox[r].is_head
      BY <2>1 DEF Claim, DueHead
    <2>3. outbox[r].seq \in Nat /\ outbox[s].seq \in Nat
      BY BoundAssumption DEF IInv, TypeOK, Row
    <2>4. outbox[r].seq < outbox[s].seq
      BY <2>2, <2>3 DEF IInv, QueueInv, HeadIsFirst, DistinctSeq
    <2>5. outbox[s].lease_token = NoToken
      BY <2>2 DEF IInv, QueueInv, OneHead, RowConsistent
    <2>. QED BY <2>4, <2>5
  <1>. QED BY <1>1, Inductive, PTL DEF Spec, LeasedInOrder

(* Everything a step does to a row that was prepared, and to the records    *)
(* that were delivered.                                                     *)
LEMMA StepKeepsPrepared ==
    ASSUME IInv, Next, NEW r \in RowId
    PROVE  /\ outbox[r].prepared_at =>
                 /\ outbox'[r].prepared_at /\ outbox'[r].state # "pending"
                 /\ \A x \in Records :
                       (outbox_record[r][x] = "none") <=> (outbox_record'[r][x] = "none")
           /\ \A x \in Records :
                 outbox_record[r][x] = "delivered" => outbox_record'[r][x] = "delivered"
  <1>. DEFINE Kept == /\ outbox[r].prepared_at => /\ outbox'[r].prepared_at
                                                  /\ outbox'[r].state # "pending"
              SameRecords == outbox_record' = outbox_record
  <1>0. /\ \A u \in RowId : outbox[u] \in Row
        /\ outbox[r].prepared_at => outbox[r].state \notin {"pending", "absent"}
        /\ outbox_record[r] \in [Records -> RecordState]
    BY DEF IInv, TypeOK, RowConsistent
  <1>1. CASE \E t \in Tenants, d \in Deliveries, k \in OrderingKeys : Accept(t, d, k)
    <2>1. PICK t \in Tenants, d \in Deliveries, k \in OrderingKeys : Accept(t, d, k)
      BY <1>1
    <2>2. PICK row : outbox' = [outbox EXCEPT ![<<t, d>>] = row]
      BY <2>1 DEF Accept
    <2>3. outbox[<<t, d>>].state = "absent" /\ outbox_record' = outbox_record
      BY <2>1 DEF Accept
    <2>. QED BY <1>0, <2>2, <2>3 DEF IInv, TypeOK
  <1>2. CASE \E d \in Deliveries : Park(d)
    BY <1>0, <1>2 DEF Park, IInv, TypeOK
  <1>3. CASE \E S \in SUBSET RowId, tok \in Tokens : Claim(S, tok)
    <2>1. PICK S \in SUBSET RowId, tok \in Tokens : Claim(S, tok)
      BY <1>3
    <2>2. outbox'[r] = IF r \in S
             THEN [outbox[r] EXCEPT !.lease_token = tok, !.due = FALSE,
                                    !.attempts = AttemptOf(outbox[r])]
             ELSE outbox[r]
      BY <2>1 DEF Claim
    <2>3. outbox_record' = outbox_record
      BY <2>1 DEF Claim
    <2>. QED BY <1>0, <2>2, <2>3 DEF Row
  <1>4. CASE \E c \in claims : Transition(c)
    <2>. PICK c \in claims : Transition(c)
      BY <1>4
    <2>1. c.row \in RowId /\ outbox[c.row] \in Row
      BY HeldFacts
    <2>2. ASSUME NEW st \in Finished, NEW why, NEW err,
                 Finish(c.row, FinishedRow(c.row, st, why, err))
          PROVE  Kept
      <3>1. CASE r = c.row
        <4>1. outbox'[r] = FinishedRow(r, st, why, err)
          BY <2>2, <3>1 DEF Finish
        <4>. QED BY <1>0, <4>1 DEF FinishedRow, Row, Finished
      <3>2. CASE r # c.row /\ NextHead(c.row, r)
        <4>1. outbox'[r] = [outbox[r] EXCEPT !.is_head = TRUE]
          BY <2>2, <3>2 DEF Finish
        <4>. QED BY <1>0, <4>1 DEF Row
      <3>3. CASE r # c.row /\ ~NextHead(c.row, r)
        BY <1>0, <2>2, <3>3 DEF Finish
      <3>. QED BY <3>1, <3>2, <3>3
    <2>3. CASE \E R \in SUBSET Records : PrepareIn(c, R)
      <3>1. PICK R \in SUBSET Records : PrepareIn(c, R)
        BY <2>3
      <3>2. ~outbox[c.row].prepared_at /\ \A x \in Records : outbox_record[c.row][x] = "none"
        BY <2>1, <3>1 DEF PrepareIn, IInv, RowConsistent, RecordsFollowRow
      <3>3. r # c.row => outbox'[r] = outbox[r] /\ outbox_record'[r] = outbox_record[r]
        BY <2>1, <3>1 DEF PrepareIn, IInv, TypeOK
      <3>. QED BY <1>0, <3>2, <3>3
    <2>4. CASE \E refused \in SUBSET Records : MarkDelivered(c, refused)
      <3>1. PICK refused \in SUBSET Records : MarkDelivered(c, refused)
        BY <2>4
      <3>2. Kept
        BY <2>2, <3>1 DEF MarkDelivered, Finished
      <3>3. /\ refused \subseteq Waiting(c.row)
            /\ outbox_record' = [outbox_record EXCEPT ![c.row] =
                                    Answered(outbox_record[c.row], refused)]
        BY <2>1, <3>1 DEF MarkDelivered, IInv, TypeOK
      <3>4. CASE r = c.row
        <4>1. outbox_record'[r] = Answered(outbox_record[r], refused)
          BY <2>1, <3>3, <3>4 DEF IInv, TypeOK
        <4>. QED BY <3>2, <3>3, <3>4, <4>1 DEF Answered, Waiting
      <3>5. CASE r # c.row
        <4>1. outbox_record'[r] = outbox_record[r]
          BY <2>1, <3>3, <3>5 DEF IInv, TypeOK
        <4>. QED BY <3>2, <4>1
      <3>. QED BY <3>4, <3>5
    <2>5. CASE Release(c) \/ Halt(c)
      <3>. DEFINE back == GiveAttemptBack(outbox[c.row])
      <3>1. /\ back \in Row /\ back.state = outbox[c.row].state
            /\ back.prepared_at = outbox[c.row].prepared_at
        BY <2>1, GiveBackFacts
      <3>2. PICK due \in BOOLEAN, err \in LastErrors :
               outbox' = [outbox EXCEPT ![c.row] = [back EXCEPT !.due = due, !.last_error = err]]
        <4>1. CASE Release(c)
          <5>1. outbox' = [outbox EXCEPT ![c.row] = [back EXCEPT !.due = TRUE]]
            BY <4>1 DEF Release
          <5>. HIDE DEF back
          <5>2. [back EXCEPT !.due = TRUE] =
                [back EXCEPT !.due = TRUE, !.last_error = back.last_error]
            BY <3>1 DEF Row
          <5>3. back.last_error \in LastErrors
            BY <3>1 DEF Row
          <5>. QED BY <5>1, <5>2, <5>3
        <4>2. CASE Halt(c)
          BY <4>2 DEF Halt, LastErrors
        <4>. QED BY <2>5, <4>1, <4>2
      <3>3. outbox_record' = outbox_record
        BY <2>5 DEF Release, Halt
      <3>. HIDE DEF back
      <3>4. Kept
        BY <1>0, <2>1, <3>1, <3>2 DEF IInv, TypeOK, Row
      <3>. QED BY <3>3, <3>4
    <2>7. CASE Retry(c)
      BY <1>0, <2>1, <2>7 DEF Retry, IInv, TypeOK, Row
    <2>8. ASSUME NEW why, NEW err, ParkDead(c, why, err)
          PROVE  Kept /\ SameRecords
      BY <2>2, <2>8 DEF ParkDead, Finished
    <2>9. CASE Fail(c) \/ MarkDead(c) \/ MarkAbandoned(c)
      <3>1. CASE Retry(c)
        BY <2>7, <3>1
      <3>2. CASE \E why, err : ParkDead(c, why, err)
        BY <2>8, <3>2
      <3>. QED BY <2>9, <3>1, <3>2 DEF Fail, MarkDead, MarkAbandoned
    <2>. QED BY <2>3, <2>4, <2>5, <2>9 DEF Transition
  <1>5. CASE \E u \in RowId : Replay(u)
    <2>1. PICK u \in RowId : Replay(u)
      BY <1>5
    <2>2. outbox_record' = [outbox_record EXCEPT ![u] = Revived(outbox_record[u])]
      BY <2>1 DEF Replay, IInv, TypeOK
    <2>3. Kept
      <3>1. CASE r = u
        <4>1. PICK n, head : outbox' = [outbox EXCEPT ![r] =
                [@ EXCEPT !.seq = n, !.is_head = head, !.state = ReplayState(outbox[r]),
                          !.attempts = 0, !.due = TRUE, !.dead_reason = ""]]
          BY <2>1, <3>1 DEF Replay
        <4>. QED BY <1>0, <4>1 DEF ReplayState, IInv, TypeOK, Row
      <3>2. CASE r # u
        BY <1>0, <2>1, <3>2 DEF Replay, IInv, TypeOK
      <3>. QED BY <3>1, <3>2
    <2>4. CASE r = u
      BY <1>0, <2>2, <2>3, <2>4 DEF Revived, IInv, TypeOK
    <2>5. CASE r # u
      BY <2>2, <2>3, <2>5 DEF IInv, TypeOK
    <2>. QED BY <2>4, <2>5
  <1>6. CASE \E u \in RowId : Elapse(u)
    BY <1>0, <1>6 DEF Elapse, IInv, TypeOK, Row
  <1>7. CASE \E C \in SUBSET claims : Drop(C)
    BY <1>0, <1>7 DEF Drop
  <1>. QED BY <1>1, <1>2, <1>3, <1>4, <1>5, <1>6, <1>7 DEF Next

(* Once prepared, a delivery is never prepared again.                       *)
THEOREM PreparedOnce == Spec => NeverPreparedTwice
  <1>. DEFINE Kept(r) ==
          outbox[r].prepared_at =>
             /\ outbox'[r].prepared_at /\ outbox'[r].state # "pending"
             /\ \A x \in Records :
                   (outbox_record[r][x] = "none") <=> (outbox_record'[r][x] = "none")
  <1>1. IInv /\ [Next]_vars => [\A r \in RowId : Kept(r)]_vars
    BY StepKeepsPrepared
  <1>. QED BY <1>1, Inductive, PTL DEF Spec, NeverPreparedTwice

(* A record the sink took stays delivered, replays included.                *)
THEOREM DeliveredIsFinal == Spec => DeliveredRecordIsFinal
  <1>1. IInv /\ [Next]_vars =>
           [\A r \in RowId, x \in Records :
               outbox_record[r][x] = "delivered" => outbox_record'[r][x] = "delivered"]_vars
    BY StepKeepsPrepared
  <1>. QED BY <1>1, Inductive, PTL DEF Spec, DeliveredRecordIsFinal

-----------------------------------------------------------------------------
(* What the ingress does to the rows *)

(* Outbox.Accept stores a row behind every other of its key.                *)
LEMMA AcceptRows ==
    ASSUME IInv, NEW t \in Tenants, NEW d \in Deliveries, NEW k \in OrderingKeys,
           Accept(t, d, k)
    PROVE  /\ <<t, d>> \in RowId /\ outbox[<<t, d>>].state = "absent"
           /\ outbox'[<<t, d>>].state = "pending"
           /\ outbox'[<<t, d>>].lease_token = NoToken
           /\ outbox'[<<t, d>>].ordering_key = k
           /\ outbox'[<<t, d>>].prepared_at = FALSE
           /\ outbox'[<<t, d>>].dead_reason = ""
           /\ NextSeq(<<t, k>>, outbox'[<<t, d>>].seq)
           /\ \A u \in RowId \ {<<t, d>>} : outbox'[u] = outbox[u]
           /\ UNCHANGED <<outbox_record, claims>>
  <1>1. <<t, d>> \in RowId /\ outbox \in [RowId -> Row]
    BY DEF RowId, IInv, TypeOK
  <1>2. PICK n \in 1..MaxSeq :
           /\ NextSeq(<<t, k>>, n)
           /\ outbox' = [outbox EXCEPT ![<<t, d>>] = NewRow(k, n, KeyIsIdle(<<t, k>>))]
    BY DEF Accept
  <1>. DEFINE new == NewRow(k, n, KeyIsIdle(<<t, k>>))
  <1>3. outbox'[<<t, d>>] = new
    BY <1>1, <1>2
  <1>4. /\ new.state = "pending" /\ new.lease_token = NoToken /\ new.ordering_key = k
        /\ new.prepared_at = FALSE /\ new.dead_reason = "" /\ new.seq = n
    BY DEF NewRow
  <1>. HIDE DEF new
  <1>5. /\ outbox'[<<t, d>>].state = "pending" /\ outbox'[<<t, d>>].lease_token = NoToken
        /\ outbox'[<<t, d>>].ordering_key = k /\ outbox'[<<t, d>>].prepared_at = FALSE
        /\ outbox'[<<t, d>>].dead_reason = ""
    BY <1>3, <1>4
  <1>6. NextSeq(<<t, k>>, outbox'[<<t, d>>].seq)
    BY <1>2, <1>3, <1>4
  <1>. QED BY <1>1, <1>2, <1>5, <1>6 DEF Accept

(* Outbox.Park stores a dead row, its own id as its key.                    *)
LEMMA ParkRows ==
    ASSUME IInv, NEW d \in Deliveries, Park(d)
    PROVE  /\ <<Sentinel, d>> \in RowId /\ outbox[<<Sentinel, d>>].state = "absent"
           /\ outbox'[<<Sentinel, d>>].state = "dead"
           /\ outbox'[<<Sentinel, d>>].lease_token = NoToken
           /\ \A u \in RowId \ {<<Sentinel, d>>} : outbox'[u] = outbox[u]
           /\ UNCHANGED <<outbox_record, claims>>
  <1>1. outbox \in [RowId -> Row] /\ <<Sentinel, d>> \in RowId
    BY DEF IInv, TypeOK, RowId
  <1>. QED BY <1>1 DEF Park, NewRow

=============================================================================
