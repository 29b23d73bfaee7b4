-------------------------- MODULE OutboxTxnProofs ---------------------------
(***************************************************************************)
(* The writers of the outbox, statement by statement, implement module     *)
(* Outbox: for every number of connections, rows, keys, workers and tokens,*)
(* every commit is one operation of Outbox, the head marker is free when it*)
(* is taken, and no transactions wait for each other.  The argument is the *)
(* locks': what a transaction has read or decided stands until it ends,    *)
(* because whoever could change it would need a lock it holds.             *)
(***************************************************************************)
EXTENDS OutboxTxn, OutboxProofs, FiniteSetTheorems

-----------------------------------------------------------------------------
(* The invariant *)

Operations == {"none", "accept", "replay", "claim"} \cup Leased

(* Statement s of the transaction t has run.                                *)
Past(t, s) == \E i \in 1..(t.pc - 1) : Program(t.op)[i] = s

LocksRow(t) == Past(t, "insert") \/ Past(t, "replay") \/ Past(t, "update")

(* The locks of a transaction that is no claim, by the statements it ran.   *)
HeldLocks(t) ==
    {l \in {KeyLock(t.key)} : Past(t, "lock")}
    \cup {l \in {RowLock(t.row)} : LocksRow(t)}
    \cup {l \in RecordLocks(t.row, t.recs) : Past(t, "records")}
    \cup {l \in {RowLock(t.next)} : t.next # NoRow}

(* What a transaction is about.                                             *)
Shaped(t) ==
    t = [op |-> t.op, pc |-> t.pc, row |-> t.row, key |-> t.key, claim |-> t.claim,
         set |-> t.set, recs |-> t.recs, tok |-> t.tok,
         seq |-> t.seq, head |-> t.head, next |-> t.next]

Aimed(t) ==
    /\ Shaped(t) /\ t.op \in Operations
    /\ IF t.op = "none" THEN t.pc = 0 ELSE t.pc \in 1..(Len(Program(t.op)) + 1)
    /\ t.op = "accept" =>
          \E u \in Tenants, d \in Deliveries, k \in OrderingKeys : t.row = <<u, d>> /\ t.key = <<u, k>>
    /\ t.op = "replay" => t.row \in RowId /\ t.row[1] \in Tenants
    /\ t.op \in Leased => t.claim \in claims /\ t.row = t.claim.row
    /\ t.op \in Leased \cup {"replay"} => Stored(t.row) /\ t.key = KeyOf(t.row)
    /\ t.op \in {"deliver", "prepare"} => t.set \subseteq Records
    /\ t.op \notin Leased => t.claim = NoClaim
    /\ t.op = "retry" => LadderHasNext(t.claim.attempt)

(* What the key's lock protects: the place in the queue of a row that comes,*)
(* and the row that moves up when one goes.                                 *)
Queued(t) ==
    /\ t.seq \in 1..MaxSeq /\ NextSeq(t.key, t.seq)
    /\ t.head = KeyIsIdle(t.key)

KeyDecided(t) ==
    /\ IF Past(t, "insert") \/ Past(t, "replay") THEN Queued(t) ELSE t.head = FALSE
    /\ IF Past(t, "promote")
       THEN \/ t.next \in Successor(t.row)
            \/ t.next = NoRow /\ Successor(t.row) = {}
       ELSE t.next = NoRow

(* What the row's lock protects.  The records a delivery locked before the  *)
(* row are still its waiting ones unless it has lost its lease.             *)
RowDecided(t) ==
    /\ Past(t, "insert") => outbox[t.row].state = "absent"
    /\ Past(t, "replay") => Replayable(t.row)
    /\ Past(t, "update") => Held(t.claim)
    /\ Past(t, "update") /\ t.op = "prepare" => outbox[t.row].state = "pending"
    /\ Past(t, "records") /\ t.op = "replay" => t.recs = DeadRecords(t.row)
    /\ Past(t, "records") /\ t.op = "deliver" =>
          /\ outbox[t.row].lease_token = t.claim.token
                => t.recs = Waiting(t.row) /\ t.set \subseteq t.recs
          /\ t.recs # {} => outbox[t.row].prepared_at

(* A claim: the rows it took are due heads, and its token is its own.       *)
TakenIn(L) == {r \in RowId : RowLock(r) \in L}
ClaimSound(t, L) ==
    t.op = "claim" =>
        /\ L = {RowLock(r) : r \in TakenIn(L)}
        /\ IsFiniteSet(TakenIn(L)) /\ Cardinality(TakenIn(L)) <= Batch
        /\ \A r \in TakenIn(L) : DueHead(r) /\ outbox[r].attempts < MaxAttempts
        /\ t.tok \in Tokens \ UsedTokens /\ t.next = NoRow /\ t.head = FALSE

TxnSound(t, L) ==
    /\ Aimed(t) /\ KeyDecided(t) /\ RowDecided(t) /\ ClaimSound(t, L)
    /\ t.op # "claim" => L = HeldLocks(t)

(* No lock has two holders, no Claimed two transactions, no token two claims*)
Apart(p, q) ==
    /\ locks[p] \cap locks[q] = {}
    /\ txn[p].claim # NoClaim => txn[p].claim # txn[q].claim
    /\ txn[p].op = "claim" /\ txn[q].op = "claim" => txn[p].tok # txn[q].tok

SeqsBounded ==
    /\ seq_last \in 0..MaxSeq
    /\ \A u \in RowId : outbox[u].seq <= seq_last
    /\ \A p \in Procs : txn[p].seq \in 0..seq_last

ClaimsStored == \A c \in claims : Stored(c.row)

TxnInv ==
    /\ IInv /\ ClaimsStored /\ SeqsBounded
    /\ txn = [p \in Procs |-> txn[p]] /\ locks = [p \in Procs |-> locks[p]]
    /\ \A p \in Procs : TxnSound(txn[p], locks[p])
    /\ \A p, q \in Procs : p # q => Apart(p, q)

-----------------------------------------------------------------------------
(* Where a transaction is *)

(* The programs, one by one.                                                *)
LEMMA Programs ==
    /\ Program("accept") = <<"lock", "insert">>
    /\ Program("replay") = <<"lock", "replay", "records">>
    /\ Program("deliver") = <<"lock", "records", "update", "promote">>
    /\ Program("dead") = <<"lock", "update", "promote">>
    /\ Program("abandon") = <<"lock", "update", "promote">>
    /\ Program("prepare") = <<"update", "records">>
    /\ Program("retry") = <<"update">>
    /\ Program("halt") = <<"update">>
    /\ Program("release") = <<"update">>
    /\ Program("claim") = <<"snapshot", "take">>
  BY DEF Program, Statements

(* Programs of one to four statements: what has run by each place.          *)
LEMMA PastOne ==
    ASSUME NEW t, NEW a, Program(t.op) = <<a>>, t.pc \in 1..(Len(Program(t.op)) + 1)
    PROVE  /\ t.pc \in 1..2 /\ Len(Program(t.op)) = 1 /\ Program(t.op)[1] = a
           /\ \A s : Past(t, s) <=> (s = a /\ t.pc > 1)
  BY DEF Past

LEMMA PastTwo ==
    ASSUME NEW t, NEW a, NEW b, Program(t.op) = <<a, b>>, t.pc \in 1..(Len(Program(t.op)) + 1)
    PROVE  /\ t.pc \in 1..3 /\ Len(Program(t.op)) = 2
           /\ Program(t.op)[1] = a /\ Program(t.op)[2] = b
           /\ \A s : Past(t, s) <=> (s = a /\ t.pc > 1) \/ (s = b /\ t.pc > 2)
  BY DEF Past

LEMMA PastThree ==
    ASSUME NEW t, NEW a, NEW b, NEW c, Program(t.op) = <<a, b, c>>,
           t.pc \in 1..(Len(Program(t.op)) + 1)
    PROVE  /\ t.pc \in 1..4 /\ Len(Program(t.op)) = 3
           /\ Program(t.op)[1] = a /\ Program(t.op)[2] = b /\ Program(t.op)[3] = c
           /\ \A s : Past(t, s) <=> (s = a /\ t.pc > 1) \/ (s = b /\ t.pc > 2) \/ (s = c /\ t.pc > 3)
  BY DEF Past

LEMMA PastFour ==
    ASSUME NEW t, NEW a, NEW b, NEW c, NEW d, Program(t.op) = <<a, b, c, d>>,
           t.pc \in 1..(Len(Program(t.op)) + 1)
    PROVE  /\ t.pc \in 1..5 /\ Len(Program(t.op)) = 4
           /\ Program(t.op)[1] = a /\ Program(t.op)[2] = b
           /\ Program(t.op)[3] = c /\ Program(t.op)[4] = d
           /\ \A s : Past(t, s) <=> \/ s = a /\ t.pc > 1
                                    \/ s = b /\ t.pc > 2
                                    \/ s = c /\ t.pc > 3
                                    \/ s = d /\ t.pc > 4
  BY DEF Past

(* The same, operation by operation.                                        *)
LEMMA InAccept ==
    ASSUME NEW t, t.op = "accept", t.pc \in 1..(Len(Program(t.op)) + 1)
    PROVE  /\ t.pc \in 1..3 /\ Len(Program(t.op)) = 2
           /\ Program(t.op)[1] = "lock"
           /\ Program(t.op)[2] = "insert"
           /\ Past(t, "lock") <=> t.pc > 1
           /\ Past(t, "insert") <=> t.pc > 2
           /\ ~Past(t, "replay")
           /\ ~Past(t, "update")
           /\ ~Past(t, "records")
           /\ ~Past(t, "promote")
  <1>1. Program(t.op) = <<"lock", "insert">>
    BY Programs
  <1>. QED BY <1>1, PastTwo

(* As above.                                                               *)
LEMMA InReplay ==
    ASSUME NEW t, t.op = "replay", t.pc \in 1..(Len(Program(t.op)) + 1)
    PROVE  /\ t.pc \in 1..4 /\ Len(Program(t.op)) = 3
           /\ Program(t.op)[1] = "lock"
           /\ Program(t.op)[2] = "replay"
           /\ Program(t.op)[3] = "records"
           /\ Past(t, "lock") <=> t.pc > 1
           /\ ~Past(t, "insert")
           /\ Past(t, "replay") <=> t.pc > 2
           /\ ~Past(t, "update")
           /\ Past(t, "records") <=> t.pc > 3
           /\ ~Past(t, "promote")
  <1>1. Program(t.op) = <<"lock", "replay", "records">>
    BY Programs
  <1>2. /\ t.pc \in 1..4 /\ Len(Program(t.op)) = 3
        /\ Program(t.op)[1] = "lock" /\ Program(t.op)[2] = "replay" /\ Program(t.op)[3] = "records"
        /\ \A x : Past(t, x) <=> (x = "lock" /\ t.pc > 1) \/ (x = "replay" /\ t.pc > 2) \/ (x = "records" /\ t.pc > 3)
    BY <1>1, PastThree, Zenon
  <1>. QED BY <1>2

(* As above.                                                               *)
LEMMA InDeliver ==
    ASSUME NEW t, t.op = "deliver", t.pc \in 1..(Len(Program(t.op)) + 1)
    PROVE  /\ t.pc \in 1..5 /\ Len(Program(t.op)) = 4
           /\ Program(t.op)[1] = "lock"
           /\ Program(t.op)[2] = "records"
           /\ Program(t.op)[3] = "update"
           /\ Program(t.op)[4] = "promote"
           /\ Past(t, "lock") <=> t.pc > 1
           /\ ~Past(t, "insert")
           /\ ~Past(t, "replay")
           /\ Past(t, "update") <=> t.pc > 3
           /\ Past(t, "records") <=> t.pc > 2
           /\ Past(t, "promote") <=> t.pc > 4
  <1>1. Program(t.op) = <<"lock", "records", "update", "promote">>
    BY Programs
  <1>. QED BY <1>1, PastFour

(* As above.                                                               *)
LEMMA InDead ==
    ASSUME NEW t, t.op \in {"dead", "abandon"}, t.pc \in 1..(Len(Program(t.op)) + 1)
    PROVE  /\ t.pc \in 1..4 /\ Len(Program(t.op)) = 3
           /\ Program(t.op)[1] = "lock"
           /\ Program(t.op)[2] = "update"
           /\ Program(t.op)[3] = "promote"
           /\ Past(t, "lock") <=> t.pc > 1
           /\ ~Past(t, "insert")
           /\ ~Past(t, "replay")
           /\ Past(t, "update") <=> t.pc > 2
           /\ ~Past(t, "records")
           /\ Past(t, "promote") <=> t.pc > 3
  <1>1. Program(t.op) = <<"lock", "update", "promote">>
    BY Programs
  <1>2. /\ t.pc \in 1..4 /\ Len(Program(t.op)) = 3
        /\ Program(t.op)[1] = "lock" /\ Program(t.op)[2] = "update" /\ Program(t.op)[3] = "promote"
        /\ \A x : Past(t, x) <=> (x = "lock" /\ t.pc > 1) \/ (x = "update" /\ t.pc > 2) \/ (x = "promote" /\ t.pc > 3)
    BY <1>1, PastThree, Zenon
  <1>. QED BY <1>2

(* As above.                                                               *)
LEMMA InPrepare ==
    ASSUME NEW t, t.op = "prepare", t.pc \in 1..(Len(Program(t.op)) + 1)
    PROVE  /\ t.pc \in 1..3 /\ Len(Program(t.op)) = 2
           /\ Program(t.op)[1] = "update"
           /\ Program(t.op)[2] = "records"
           /\ ~Past(t, "lock")
           /\ ~Past(t, "insert")
           /\ ~Past(t, "replay")
           /\ Past(t, "update") <=> t.pc > 1
           /\ Past(t, "records") <=> t.pc > 2
           /\ ~Past(t, "promote")
  <1>1. Program(t.op) = <<"update", "records">>
    BY Programs
  <1>. QED BY <1>1, PastTwo

(* As above.                                                               *)
LEMMA InLocal ==
    ASSUME NEW t, t.op \in {"retry", "halt", "release"}, t.pc \in 1..(Len(Program(t.op)) + 1)
    PROVE  /\ t.pc \in 1..2 /\ Len(Program(t.op)) = 1
           /\ Program(t.op)[1] = "update"
           /\ ~Past(t, "lock")
           /\ ~Past(t, "insert")
           /\ ~Past(t, "replay")
           /\ Past(t, "update") <=> t.pc > 1
           /\ ~Past(t, "records")
           /\ ~Past(t, "promote")
  <1>1. Program(t.op) = <<"update">>
    BY Programs
  <1>2. /\ t.pc \in 1..2 /\ Len(Program(t.op)) = 1
        /\ Program(t.op)[1] = "update"
        /\ \A x : Past(t, x) <=> (x = "update" /\ t.pc > 1)
    BY <1>1, PastOne, Zenon
  <1>. QED BY <1>2

(* As above.                                                               *)
LEMMA InClaim ==
    ASSUME NEW t, t.op = "claim", t.pc \in 1..(Len(Program(t.op)) + 1)
    PROVE  /\ t.pc \in 1..3 /\ Len(Program(t.op)) = 2
           /\ Program(t.op)[1] = "snapshot"
           /\ Program(t.op)[2] = "take"
           /\ ~Past(t, "lock")
           /\ ~Past(t, "insert")
           /\ ~Past(t, "replay")
           /\ ~Past(t, "update")
           /\ ~Past(t, "records")
           /\ ~Past(t, "promote")
  <1>1. Program(t.op) = <<"snapshot", "take">>
    BY Programs
  <1>. QED BY <1>1, PastTwo

(* Of the statements that write or lock, those in S have run.               *)
StatementNames == {"lock", "insert", "replay", "update", "records", "promote"}
Only(t, S) == \A x \in StatementNames : Past(t, x) <=> x \in S

(* A statement that runs next says which operation this is, and what it has *)
(* done.                                                                    *)
LEMMA AtPlace ==
    ASSUME NEW t, Aimed(t), t.op # "none", t.pc <= Len(Program(t.op)),
           NEW s, s = Program(t.op)[t.pc]
    PROVE  /\ s = "lock" => /\ t.op \in {"accept", "replay", "deliver", "dead", "abandon"}
                            /\ Only(t, {})
           /\ s = "insert" => t.op = "accept" /\ Only(t, {"lock"})
           /\ s = "replay" => t.op = "replay" /\ Only(t, {"lock"})
           /\ s = "update" =>
                \/ t.op = "deliver" /\ Only(t, {"lock", "records"})
                \/ t.op \in {"dead", "abandon"} /\ Only(t, {"lock"})
                \/ t.op \in {"prepare", "retry", "halt", "release"} /\ Only(t, {})
           /\ s = "records" =>
                \/ t.op = "replay" /\ Only(t, {"lock", "replay"})
                \/ t.op = "deliver" /\ Only(t, {"lock"})
                \/ t.op = "prepare" /\ Only(t, {"update"})
           /\ s = "promote" =>
                \/ t.op = "deliver" /\ Only(t, {"lock", "records", "update"})
                \/ t.op \in {"dead", "abandon"} /\ Only(t, {"lock", "update"})
           /\ s \in {"snapshot", "take"} => t.op = "claim"
           /\ s \in {"lock", "insert", "replay", "update", "records", "promote", "snapshot", "take"}
  <1>1. t.pc \in 1..(Len(Program(t.op)) + 1) /\ t.op \in Operations
    BY DEF Aimed
  <1>2. CASE t.op = "accept"
    BY <1>1, <1>2, InAccept DEF Only, StatementNames
  <1>3. CASE t.op = "replay"
    BY <1>1, <1>3, InReplay DEF Only, StatementNames
  <1>4. CASE t.op = "deliver"
    BY <1>1, <1>4, InDeliver DEF Only, StatementNames
  <1>5. CASE t.op \in {"dead", "abandon"}
    BY <1>1, <1>5, InDead DEF Only, StatementNames
  <1>6. CASE t.op = "prepare"
    BY <1>1, <1>6, InPrepare DEF Only, StatementNames
  <1>7. CASE t.op \in {"retry", "halt", "release"}
    BY <1>1, <1>7, InLocal DEF Only, StatementNames
  <1>8. CASE t.op = "claim"
    BY <1>1, <1>8, InClaim DEF Only, StatementNames
  <1>. QED BY <1>1, <1>2, <1>3, <1>4, <1>5, <1>6, <1>7, <1>8 DEF Operations, Leased

(* A transaction that is done has run every statement.                      *)
LEMMA AtEnd ==
    ASSUME NEW t, Aimed(t), t.op # "none", t.pc > Len(Program(t.op))
    PROVE  /\ t.op \in {"accept", "replay", "deliver", "dead", "abandon"} => Past(t, "lock")
           /\ t.op = "accept" => Past(t, "insert")
           /\ t.op = "replay" => Past(t, "replay") /\ Past(t, "records")
           /\ t.op \in Leased => Past(t, "update")
           /\ t.op = "deliver" => Past(t, "records")
           /\ t.op \in {"deliver", "dead", "abandon"} => Past(t, "promote")
  <1>1. t.pc \in 1..(Len(Program(t.op)) + 1) /\ t.op \in Operations
    BY DEF Aimed
  <1>2. CASE t.op = "accept"
    BY <1>1, <1>2, InAccept DEF Leased
  <1>3. CASE t.op = "replay"
    BY <1>1, <1>3, InReplay DEF Leased
  <1>4. CASE t.op = "deliver"
    BY <1>1, <1>4, InDeliver DEF Leased
  <1>5. CASE t.op \in {"dead", "abandon"}
    BY <1>1, <1>5, InDead DEF Leased
  <1>6. CASE t.op = "prepare"
    BY <1>1, <1>6, InPrepare DEF Leased
  <1>7. CASE t.op \in {"retry", "halt", "release"}
    BY <1>1, <1>7, InLocal DEF Leased
  <1>8. CASE t.op = "claim"
    BY <1>8 DEF Leased
  <1>. QED BY <1>1, <1>2, <1>3, <1>4, <1>5, <1>6, <1>7, <1>8 DEF Operations, Leased

(* What has run says which operation this is, and what ran before.          *)
LEMMA InPast ==
    ASSUME NEW t, Aimed(t)
    PROVE  /\ Past(t, "insert") => t.op = "accept" /\ Past(t, "lock")
           /\ Past(t, "replay") => t.op = "replay" /\ Past(t, "lock")
           /\ Past(t, "update") => t.op \in Leased
           /\ Past(t, "records") => t.op \in {"replay", "deliver", "prepare"}
           /\ Past(t, "records") /\ t.op = "deliver" => Past(t, "lock")
           /\ Past(t, "records") /\ t.op = "replay" => Past(t, "replay")
           /\ Past(t, "records") /\ t.op = "prepare" => Past(t, "update")
           /\ Past(t, "promote") =>
                 t.op \in {"deliver", "dead", "abandon"} /\ Past(t, "lock") /\ Past(t, "update")
           /\ Past(t, "lock") => t.op \in {"accept", "replay", "deliver", "dead", "abandon"}
           /\ Past(t, "update") /\ t.op \in {"deliver", "dead", "abandon"} => Past(t, "lock")
  <1>1. CASE t.op = "none"
    <2>1. \A x : ~Past(t, x)
      BY <1>1 DEF Aimed, Past
    <2>. QED BY <2>1
  <1>2. CASE t.op # "none"
    <2>1. t.pc \in 1..(Len(Program(t.op)) + 1) /\ t.op \in Operations
      BY <1>2 DEF Aimed
    <2>2. CASE t.op = "accept"
      BY <2>1, <2>2, InAccept
    <2>3. CASE t.op = "replay"
      BY <2>1, <2>3, InReplay
    <2>4. CASE t.op = "deliver"
      BY <2>1, <2>4, InDeliver DEF Leased
    <2>5. CASE t.op \in {"dead", "abandon"}
      BY <2>1, <2>5, InDead DEF Leased
    <2>6. CASE t.op = "prepare"
      BY <2>1, <2>6, InPrepare DEF Leased
    <2>7. CASE t.op \in {"retry", "halt", "release"}
      BY <2>1, <2>7, InLocal DEF Leased
    <2>8. CASE t.op = "claim"
      BY <2>1, <2>8, InClaim
    <2>. QED BY <1>2, <2>1, <2>2, <2>3, <2>4, <2>5, <2>6, <2>7, <2>8 DEF Operations, Leased
  <1>. QED BY <1>1, <1>2

(* The statement that ran is past.                                          *)
LEMMA NextPlace ==
    ASSUME NEW t, Aimed(t), t.op # "none", t.pc <= Len(Program(t.op)),
           NEW u, u.op = t.op, u.pc = t.pc + 1
    PROVE  /\ u.pc \in 1..(Len(Program(t.op)) + 1)
           /\ \A x : Past(u, x) <=> Past(t, x) \/ x = Program(t.op)[t.pc]
  <1>1. t.pc \in 1..(Len(Program(t.op)) + 1) /\ t.op \in Operations
    BY DEF Aimed
  <1>2. Len(Program(t.op)) \in Nat
    BY <1>1, Programs DEF Operations, Leased
  <1>3. u.pc \in 1..(Len(Program(t.op)) + 1)
    BY <1>1, <1>2
  <1>4. 1..(u.pc - 1) = 1..(t.pc - 1) \cup {t.pc}
    BY <1>1, <1>2
  <1>5. \A x : Past(u, x) <=> Past(t, x) \/ x = Program(t.op)[t.pc]
    BY <1>4 DEF Past
  <1>. QED BY <1>3, <1>5

-----------------------------------------------------------------------------
(* What a transaction needs the others to leave alone *)

(* A row whose lock is held: only the clock touches it.                     *)
RowStands(u) ==
    /\ outbox'[u].state = outbox[u].state
    /\ outbox'[u].lease_token = outbox[u].lease_token
    /\ outbox'[u].is_head = outbox[u].is_head
    /\ outbox'[u].attempts = outbox[u].attempts
    /\ outbox[u].due => outbox'[u].due
    /\ outbox_record'[u] = outbox_record[u]

(* A key whose lock is held: no row joins its queue, leaves it or moves.    *)
QueueStands(key) ==
    \A u \in RowId : Stored(u)' /\ KeyOf(u)' = key =>
        /\ Stored(u) /\ KeyOf(u) = key
        /\ outbox'[u].seq = outbox[u].seq
        /\ IsUnfinished(u)' <=> IsUnfinished(u)

(* No row is deleted, changes its key, or becomes unprepared.               *)
RowsStay ==
    \A u \in RowId : Stored(u) =>
        /\ Stored(u)' /\ KeyOf(u)' = KeyOf(u)
        /\ outbox[u].prepared_at => outbox'[u].prepared_at

(* What a step has to spare of the transaction t with the locks L.          *)
Spares(t, L) ==
    /\ t.claim \in claims => t.claim \in claims'
    /\ \A u \in RowId : RowLock(u) \in L => RowStands(u)
    /\ KeyLock(t.key) \in L => QueueStands(t.key)
    /\ t.claim \in claims /\ outbox'[t.claim.row].lease_token = t.claim.token =>
          /\ outbox[t.claim.row].lease_token = t.claim.token
          /\ outbox_record'[t.claim.row] = outbox_record[t.claim.row]
    /\ t.op = "claim" => t.tok \notin UsedTokens'

(* What a transaction holds, lock by lock.                                  *)
LEMMA HeldIn ==
    ASSUME NEW t, NEW L, L = HeldLocks(t)
    PROVE  \A l : l \in L <=> \/ l = KeyLock(t.key) /\ Past(t, "lock")
                              \/ l = RowLock(t.row) /\ LocksRow(t)
                              \/ l \in RecordLocks(t.row, t.recs) /\ Past(t, "records")
                              \/ l = RowLock(t.next) /\ t.next # NoRow
  BY DEF HeldLocks

(* Where the row of a transaction is.                                       *)
LEMMA RowOf ==
    ASSUME TypeOK, NEW t, Aimed(t)
    PROVE  /\ t.op \in Leased \cup {"accept", "replay"} => t.row \in RowId
           /\ t.op \in Leased => /\ t.claim \in Claimed /\ t.claim # NoClaim
                                 /\ t.claim \in claims /\ t.row = t.claim.row
           /\ t.op \notin Leased => t.claim = NoClaim
  BY NoneAssumption DEF Aimed, TypeOK, Claimed, RowId

(* What a queue that stands keeps of it.                                    *)
LEMMA QueueKept ==
    ASSUME TypeOK, RowsStay, NEW key, QueueStands(key)
    PROVE  /\ KeyIsIdle(key)' <=> KeyIsIdle(key)
           /\ \A n : NextSeq(key, n) => NextSeq(key, n)'
           /\ \A r \in RowId : Stored(r) /\ KeyOf(r) = key =>
                 \A s \in RowId : NextHead(r, s)' <=> NextHead(r, s)
  <1>1. \A u \in RowId : Stored(u)' /\ KeyOf(u)' = key <=> Stored(u) /\ KeyOf(u) = key
    BY DEF RowsStay, QueueStands
  <1>2. \A u \in RowId : IsUnfinished(u) => Stored(u)
    BY DEF IsUnfinished, Unfinished, Stored
  <1>3. \A u \in RowId : IsUnfinished(u)' => Stored(u)'
    BY DEF IsUnfinished, Unfinished, Stored
  <1>4. \A u \in RowId : Stored(u) /\ KeyOf(u) = key =>
           outbox'[u].seq = outbox[u].seq /\ (IsUnfinished(u)' <=> IsUnfinished(u))
    BY <1>1 DEF QueueStands
  <1>5. KeyIsIdle(key)' <=> KeyIsIdle(key)
    BY <1>1, <1>2, <1>3, <1>4 DEF KeyIsIdle
  <1>6. \A n : NextSeq(key, n) => NextSeq(key, n)'
    BY <1>1, <1>4 DEF NextSeq
  <1>7. ASSUME NEW r \in RowId, Stored(r), KeyOf(r) = key, NEW s \in RowId
        PROVE  NextHead(r, s)' <=> NextHead(r, s)
    <2>1. \A u \in RowId : SameKey(r, u)' <=> SameKey(r, u)
      BY <1>1, <1>7 DEF SameKey
    <2>2. \A u \in RowId : SameKey(r, u) =>
             outbox'[u].seq = outbox[u].seq /\ (IsUnfinished(u)' <=> IsUnfinished(u))
      BY <1>4, <1>7 DEF SameKey
    <2>. QED BY <2>1, <2>2 DEF NextHead
  <1>. QED BY <1>5, <1>6, <1>7

(* What a transaction has read and decided stands while it is spared.       *)
LEMMA SoundKept ==
    ASSUME IInv, RowsStay, NEW t, NEW L, TxnSound(t, L), Spares(t, L)
    PROVE  TxnSound(t, L)'
  <1>0. TypeOK /\ Aimed(t)
    BY DEF IInv, TxnSound
  <1>1. /\ t.op \in Leased \cup {"accept", "replay"} => t.row \in RowId
        /\ t.op \in Leased => /\ t.claim \in Claimed /\ t.claim # NoClaim
                              /\ t.claim \in claims /\ t.row = t.claim.row
        /\ t.op \notin Leased => t.claim = NoClaim
    BY <1>0, RowOf
  <1>2. t.op # "claim" => \A l : l \in L <=> \/ l = KeyLock(t.key) /\ Past(t, "lock")
                                             \/ l = RowLock(t.row) /\ LocksRow(t)
                                             \/ l \in RecordLocks(t.row, t.recs) /\ Past(t, "records")
                                             \/ l = RowLock(t.next) /\ t.next # NoRow
    BY HeldIn DEF TxnSound
  <1>3. /\ Past(t, "insert") => t.op = "accept" /\ Past(t, "lock")
        /\ Past(t, "replay") => t.op = "replay" /\ Past(t, "lock")
        /\ Past(t, "update") => t.op \in Leased
        /\ Past(t, "records") => t.op \in {"replay", "deliver", "prepare"}
        /\ Past(t, "records") /\ t.op = "replay" => Past(t, "replay")
        /\ Past(t, "promote") => t.op \in {"deliver", "dead", "abandon"} /\ Past(t, "lock")
    BY <1>0, InPast
  <1>4. Past(t, "lock") => t.op # "claim" /\ KeyLock(t.key) \in L /\ QueueStands(t.key)
    <2>1. Past(t, "lock") => t.op # "claim"
      BY <1>0, InPast
    <2>. QED BY <1>2, <2>1 DEF Spares
  <1>5. LocksRow(t) => t.op # "claim" /\ t.row \in RowId /\ RowLock(t.row) \in L /\ RowStands(t.row)
    <2>1. LocksRow(t) => t.op # "claim" /\ t.row \in RowId
      BY <1>1, <1>3 DEF LocksRow, Leased
    <2>. QED BY <1>2, <2>1 DEF Spares
  <1>6. Aimed(t)'
    <2>1. t.op \in Leased => t.claim \in claims'
      BY <1>1 DEF Spares
    <2>2. t.op \in Leased \cup {"replay"} => Stored(t.row)' /\ t.key = KeyOf(t.row)'
      BY <1>0, <1>1 DEF Aimed, RowsStay
    <2>. QED BY <1>0, <2>1, <2>2 DEF Aimed
  <1>7. KeyDecided(t)'
    <2>1. CASE Past(t, "insert") \/ Past(t, "replay")
      <3>1. Queued(t) /\ QueueStands(t.key) /\ ~Past(t, "promote") /\ t.next = NoRow
        BY <1>3, <1>4, <2>1 DEF TxnSound, KeyDecided
      <3>2. \A n : NextSeq(t.key, n) => NextSeq(t.key, n)'
        BY <1>0, <3>1, QueueKept
      <3>3. KeyIsIdle(t.key)' = KeyIsIdle(t.key)
        <4>1. KeyIsIdle(t.key)' <=> KeyIsIdle(t.key)
          BY <1>0, <3>1, QueueKept
        <4>. QED BY <4>1 DEF KeyIsIdle
      <3>4. NextSeq(t.key, t.seq)' /\ t.head = KeyIsIdle(t.key)'
        BY <3>1, <3>2, <3>3 DEF Queued
      <3>5. Queued(t)'
        BY <3>1, <3>4 DEF Queued
      <3>. QED BY <2>1, <3>1, <3>5 DEF KeyDecided
    <2>2. CASE Past(t, "promote")
      <3>0. ~Past(t, "insert") /\ ~Past(t, "replay")
        BY <1>3, <2>2
      <3>1. /\ t.head = FALSE
            /\ t.next \in Successor(t.row) \/ (t.next = NoRow /\ Successor(t.row) = {})
        BY <2>2, <3>0 DEF TxnSound, KeyDecided
      <3>2. Stored(t.row) /\ KeyOf(t.row) = t.key /\ t.row \in RowId /\ QueueStands(t.key)
        BY <1>0, <1>1, <1>3, <1>4, <2>2 DEF Aimed, Leased
      <3>3. \A s \in RowId : NextHead(t.row, s)' <=> NextHead(t.row, s)
        BY <1>0, <3>2, QueueKept
      <3>4. Successor(t.row)' = Successor(t.row)
        BY <3>3 DEF Successor
      <3>. QED BY <2>2, <3>0, <3>1, <3>4 DEF KeyDecided
    <2>3. CASE ~(Past(t, "insert") \/ Past(t, "replay")) /\ ~Past(t, "promote")
      BY <2>3 DEF TxnSound, KeyDecided
    <2>. QED BY <2>1, <2>2, <2>3
  <1>8. RowDecided(t)'
    <2>1. Past(t, "insert") => outbox'[t.row].state = "absent"
      BY <1>5 DEF LocksRow, RowStands, TxnSound, RowDecided
    <2>2. Past(t, "replay") => Replayable(t.row)' /\ DeadRecords(t.row)' = DeadRecords(t.row)
      BY <1>5 DEF LocksRow, RowStands, TxnSound, RowDecided, Replayable, DeadRecords
    <2>3. Past(t, "update") => Held(t.claim)'
      BY <1>1, <1>3, <1>5 DEF LocksRow, RowStands, TxnSound, RowDecided, Held, IsUnfinished
    <2>4. Past(t, "update") /\ t.op = "prepare" => outbox'[t.row].state = "pending"
      BY <1>5 DEF LocksRow, RowStands, TxnSound, RowDecided
    <2>5. Past(t, "records") /\ t.op = "replay" => t.recs = DeadRecords(t.row)'
      BY <1>3, <2>2 DEF TxnSound, RowDecided
    <2>6. Past(t, "records") /\ t.op = "deliver" =>
             /\ outbox'[t.row].lease_token = t.claim.token
                   => t.recs = Waiting(t.row)' /\ t.set \subseteq t.recs
             /\ t.recs # {} => outbox'[t.row].prepared_at
      BY <1>0, <1>1 DEF Leased, Spares, RowsStay, Aimed, TxnSound, RowDecided, Waiting
    <2>. QED BY <2>1, <2>2, <2>3, <2>4, <2>5, <2>6 DEF RowDecided
  <1>9. ClaimSound(t, L)'
    <2>. SUFFICES ASSUME t.op = "claim" PROVE ClaimSound(t, L)'
      BY DEF ClaimSound
    <2>1. \A r \in TakenIn(L) : RowStands(r)
      BY DEF Spares, TakenIn
    <2>2. \A r \in TakenIn(L) : DueHead(r)' /\ outbox'[r].attempts < MaxAttempts
      BY <2>1 DEF RowStands, DueHead, TxnSound, ClaimSound
    <2>3. t.tok \in Tokens \ UsedTokens'
      BY DEF Spares, TxnSound, ClaimSound
    <2>. QED BY <2>2, <2>3 DEF TxnSound, ClaimSound, TakenIn
  <1>. QED BY <1>6, <1>7, <1>8, <1>9 DEF TxnSound

-----------------------------------------------------------------------------
(* Steps that show nothing *)

(* A connection without a transaction owes nothing.                         *)
LEMMA IdleSound == TxnSound(NoTxn, {}) /\ TxnSound(NoTxn, {})'
  <1>1. \A x : ~Past(NoTxn, x)
    BY DEF Past, NoTxn
  <1>2. HeldLocks(NoTxn) = {}
    BY <1>1 DEF HeldLocks, LocksRow, NoTxn
  <1>3. Aimed(NoTxn) /\ Aimed(NoTxn)'
    BY DEF Aimed, Shaped, NoTxn, Operations, Leased
  <1>4. KeyDecided(NoTxn) /\ KeyDecided(NoTxn)'
    BY <1>1 DEF KeyDecided, NoTxn
  <1>5. RowDecided(NoTxn) /\ RowDecided(NoTxn)'
    BY <1>1 DEF RowDecided
  <1>6. ClaimSound(NoTxn, {}) /\ ClaimSound(NoTxn, {})'
    BY DEF ClaimSound, NoTxn
  <1>. QED BY <1>2, <1>3, <1>4, <1>5, <1>6 DEF TxnSound

(* A step that shows nothing disturbs no transaction.                       *)
LEMMA QuietSpares ==
    ASSUME UNCHANGED vars, NEW t, NEW L, TxnSound(t, L)
    PROVE  RowsStay /\ Spares(t, L)
  <1>1. RowsStay
    BY DEF vars, RowsStay, Stored, KeyOf
  <1>2. \A u \in RowId : RowStands(u)
    BY DEF vars, RowStands
  <1>3. \A key : QueueStands(key)
    BY DEF vars, QueueStands, Stored, KeyOf, IsUnfinished
  <1>4. t.op = "claim" => t.tok \notin UsedTokens'
    BY DEF vars, UsedTokens, TxnSound, ClaimSound
  <1>5. Spares(t, L)
    BY <1>2, <1>3, <1>4 DEF vars, Spares
  <1>. QED BY <1>1, <1>5

(* The transaction of p becomes t with the locks L, and the others are      *)
(* spared.                                                                  *)
LEMMA OneTxn ==
    ASSUME TxnInv, NEW p \in Procs, NEW t, NEW L,
           txn' = [txn EXCEPT ![p] = t], locks' = [locks EXCEPT ![p] = L],
           IInv', ClaimsStored', SeqsBounded', TxnSound(t, L)', RowsStay,
           \A q \in Procs \ {p} :
              /\ Spares(txn[q], locks[q]) /\ L \cap locks[q] = {}
              /\ t.claim # NoClaim => t.claim # txn[q].claim
              /\ t.op = "claim" /\ txn[q].op = "claim" => t.tok # txn[q].tok
    PROVE  TxnInv'
  <1>1. /\ txn = [q \in Procs |-> txn[q]] /\ locks = [q \in Procs |-> locks[q]]
        /\ \A q \in Procs : TxnSound(txn[q], locks[q])
        /\ \A q, s \in Procs : q # s => Apart(q, s)
    BY DEF TxnInv
  <1>2. txn'[p] = t /\ locks'[p] = L
    BY <1>1
  <1>3. \A q \in Procs \ {p} : txn'[q] = txn[q] /\ locks'[q] = locks[q]
    BY <1>1
  <1>4. txn' = [q \in Procs |-> txn'[q]] /\ locks' = [q \in Procs |-> locks'[q]]
    BY <1>1
  <1>5. ASSUME NEW q \in Procs
        PROVE  TxnSound(txn[q], locks[q])'
    <2>1. CASE q = p
      BY <1>2, <2>1
    <2>2. CASE q # p
      <3>1. PICK u : u = txn[q]
        OBVIOUS
      <3>2. PICK M : M = locks[q]
        OBVIOUS
      <3>3. TxnSound(u, M) /\ Spares(u, M)
        BY <1>1, <2>2, <3>1, <3>2
      <3>4. TxnSound(u, M)'
        BY <3>3, SoundKept DEF TxnInv
      <3>. QED BY <1>3, <2>2, <3>1, <3>2, <3>4
    <2>. QED BY <2>1, <2>2
  <1>6. ASSUME NEW q \in Procs, NEW s \in Procs, q # s
        PROVE  Apart(q, s)'
    BY <1>1, <1>2, <1>3, <1>6 DEF Apart
  <1>. QED BY <1>4, <1>5, <1>6 DEF TxnInv

(* The same for a step that shows nothing.                                  *)
LEMMA QuietTxn ==
    ASSUME TxnInv, UNCHANGED vars, NEW p \in Procs, NEW t, NEW L,
           txn' = [txn EXCEPT ![p] = t], locks' = [locks EXCEPT ![p] = L],
           SeqsBounded', TxnSound(t, L),
           \A q \in Procs \ {p} :
              /\ L \cap locks[q] = {}
              /\ t.claim # NoClaim => t.claim # txn[q].claim
              /\ t.op = "claim" /\ txn[q].op = "claim" => t.tok # txn[q].tok
    PROVE  TxnInv'
  <1>1. IInv /\ IInv'
    BY StepInv DEF TxnInv
  <1>2. ClaimsStored'
    BY DEF TxnInv, ClaimsStored, vars, Stored
  <1>3. RowsStay /\ TxnSound(t, L)'
    BY <1>1, QuietSpares, SoundKept
  <1>4. ASSUME NEW q \in Procs PROVE Spares(txn[q], locks[q])
    <2>1. PICK u : u = txn[q]
      OBVIOUS
    <2>2. PICK M : M = locks[q]
      OBVIOUS
    <2>3. TxnSound(u, M)
      BY <2>1, <2>2 DEF TxnInv
    <2>4. Spares(u, M)
      BY <2>3, QuietSpares
    <2>. QED BY <2>1, <2>2, <2>4
  <1>. QED BY <1>1, <1>2, <1>3, <1>4, OneTxn

-----------------------------------------------------------------------------
(* Beginning and giving up *)

(* A transaction that has run no statement holds and has decided nothing.   *)
LEMMA FreshSound ==
    ASSUME NEW t, Aimed(t), t.pc \in {0, 1}, t.head = FALSE, t.next = NoRow,
           t.op = "claim" => t.tok \in Tokens \ UsedTokens
    PROVE  TxnSound(t, {}) /\ HeldLocks(t) = {}
  <1>1. \A x : ~Past(t, x)
    BY DEF Past
  <1>2. HeldLocks(t) = {}
    BY <1>1 DEF HeldLocks, LocksRow
  <1>3. KeyDecided(t) /\ RowDecided(t)
    BY <1>1 DEF KeyDecided, RowDecided
  <1>4. ClaimSound(t, {})
    <2>1. TakenIn({}) = {}
      BY DEF TakenIn
    <2>2. IsFiniteSet({}) /\ Cardinality({}) = 0
      BY FS_EmptySet
    <2>. QED BY <2>1, <2>2, BoundAssumption DEF ClaimSound
  <1>. QED BY <1>2, <1>3, <1>4 DEF TxnSound

(* A connection without a transaction holds no lock.                        *)
LEMMA IdleHolds ==
    ASSUME TxnInv, NEW p \in Procs, ~Open(p)
    PROVE  locks[p] = {}
  <1>1. TxnSound(txn[p], locks[p])
    BY DEF TxnInv
  <1>2. \A x : ~Past(txn[p], x)
    BY <1>1 DEF TxnSound, Aimed, Open, Past
  <1>3. txn[p].next = NoRow /\ locks[p] = HeldLocks(txn[p])
    BY <1>1, <1>2 DEF TxnSound, KeyDecided, Open
  <1>. QED BY <1>2, <1>3 DEF HeldLocks, LocksRow

(* A new transaction on a connection that has none.                         *)
LEMMA BeginFresh ==
    ASSUME TxnInv, NEW p \in Procs, ~Open(p), NEW t, Aimed(t),
           t.pc = 1, t.seq = 0, t.head = FALSE, t.next = NoRow,
           t.op = "claim" => t.tok \in Tokens \ UsedTokens,
           \A q \in Procs :
              /\ t.claim # NoClaim => t.claim # txn[q].claim
              /\ t.op = "claim" => t.tok # txn[q].tok,
           txn' = [txn EXCEPT ![p] = t], UNCHANGED <<vars, locks, seq_last>>
    PROVE  TxnInv'
  <1>1. UNCHANGED vars
    BY DEF vars
  <1>2. locks' = [locks EXCEPT ![p] = {}]
    BY IdleHolds DEF TxnInv
  <1>3. SeqsBounded'
    <2>1. \A q \in Procs : txn'[q].seq \in {0, txn[q].seq}
      BY DEF TxnInv
    <2>. QED BY <2>1, BoundAssumption DEF TxnInv, SeqsBounded, vars
  <1>4. TxnSound(t, {})
    BY FreshSound
  <1>. QED BY <1>1, <1>2, <1>3, <1>4, QuietTxn

(* Every operation can be begun.                                            *)
LEMMA BeginInv ==
    ASSUME TxnInv, NEW p \in Procs, BeginAny(p)
    PROVE  UNCHANGED vars /\ TxnInv'
  <1>0. \A op \in Operations \ {"none"} : 1 \in 1..(Len(Program(op)) + 1)
    BY Programs DEF Operations, Leased
  <1>1. CASE \E u \in Tenants, d \in Deliveries, k \in OrderingKeys : BeginAccept(p, u, d, k)
    <2>1. PICK u \in Tenants, d \in Deliveries, k \in OrderingKeys : BeginAccept(p, u, d, k)
      BY <1>1
    <2>2. PICK t : t = [NoTxn EXCEPT !.op = "accept", !.row = <<u, d>>, !.key = <<u, k>>, !.pc = 1]
      OBVIOUS
    <2>3. /\ t.op = "accept" /\ t.row = <<u, d>> /\ t.key = <<u, k>> /\ t.claim = NoClaim
          /\ t.pc = 1 /\ t.seq = 0 /\ t.head = FALSE /\ t.next = NoRow /\ Shaped(t)
      BY <2>2 DEF NoTxn, Shaped
    <2>4. /\ ~Open(p) /\ txn' = [txn EXCEPT ![p] = t]
          /\ UNCHANGED <<vars, locks, seq_last>>
      BY <2>1, <2>2 DEF BeginAccept, Begin, NoTxn
    <2>5. Aimed(t)
      BY <1>0, <2>3 DEF Aimed, Operations, Leased
    <2>. QED BY <2>3, <2>4, <2>5, BeginFresh DEF vars
  <1>2. CASE \E r \in RowId : BeginReplay(p, r)
    <2>1. PICK r \in RowId : BeginReplay(p, r)
      BY <1>2
    <2>0. PICK u : u = [NoTxn EXCEPT !.op = "replay", !.row = r, !.key = KeyOf(r), !.pc = 1]
      OBVIOUS
    <2>2. /\ u.op = "replay" /\ u.row = r /\ u.key = KeyOf(r) /\ u.claim = NoClaim
          /\ u.pc = 1 /\ u.seq = 0 /\ u.head = FALSE /\ u.next = NoRow /\ Shaped(u)
      BY <2>0 DEF NoTxn, Shaped
    <2>3. /\ ~Open(p) /\ txn' = [txn EXCEPT ![p] = u]
          /\ UNCHANGED <<vars, locks, seq_last>> /\ r[1] \in Tenants /\ Stored(r)
      BY <2>0, <2>1 DEF BeginReplay, Begin, NoTxn
    <2>4. Aimed(u)
      BY <1>0, <2>2, <2>3 DEF Aimed, Operations, Leased
    <2>. QED BY <2>2, <2>3, <2>4, BeginFresh DEF vars
  <1>3. ASSUME NEW c \in claims, NEW op \in Leased, NEW set,
               op \in {"deliver", "prepare"} => set \subseteq Records, BeginLeased(p, op, c, set)
        PROVE  UNCHANGED vars /\ TxnInv'
    <2>0. PICK u : u = [NoTxn EXCEPT !.op = op, !.row = c.row, !.key = KeyOf(c.row), !.claim = c,
                                     !.set = set, !.pc = 1]
      OBVIOUS
    <2>2. /\ u.op = op /\ u.row = c.row /\ u.key = KeyOf(c.row) /\ u.claim = c /\ u.set = set
          /\ u.pc = 1 /\ u.seq = 0 /\ u.head = FALSE /\ u.next = NoRow /\ Shaped(u)
      BY <2>0 DEF NoTxn, Shaped
    <2>3. /\ ~Open(p) /\ txn' = [txn EXCEPT ![p] = u]
          /\ UNCHANGED <<vars, locks, seq_last>>
          /\ op = "retry" => LadderHasNext(c.attempt)
          /\ \A q \in Procs : txn[q].claim # c
      BY <1>3, <2>0 DEF BeginLeased, Begin, NoTxn
    <2>4. Stored(c.row)
      BY DEF TxnInv, ClaimsStored
    <2>5. Aimed(u)
      BY <1>0, <1>3, <2>2, <2>3, <2>4 DEF Aimed, Operations, Leased
    <2>6. u.op # "claim"
      BY <2>2 DEF Leased
    <2>. QED BY <2>2, <2>3, <2>5, <2>6, BeginFresh DEF vars
  <1>4. CASE \E tok \in Tokens : BeginClaim(p, tok)
    <2>1. PICK tok \in Tokens : BeginClaim(p, tok)
      BY <1>4
    <2>2. PICK t : t = [NoTxn EXCEPT !.op = "claim", !.tok = tok, !.pc = 1]
      OBVIOUS
    <2>3. /\ t.op = "claim" /\ t.tok = tok /\ t.claim = NoClaim
          /\ t.pc = 1 /\ t.seq = 0 /\ t.head = FALSE /\ t.next = NoRow /\ Shaped(t)
      BY <2>2 DEF NoTxn, Shaped
    <2>4. /\ ~Open(p) /\ txn' = [txn EXCEPT ![p] = t]
          /\ UNCHANGED <<vars, locks, seq_last>>
          /\ tok \notin UsedTokens /\ \A q \in Procs : tok # txn[q].tok
      BY <2>1, <2>2 DEF BeginClaim, Begin, NoTxn
    <2>5. Aimed(t)
      BY <1>0, <2>3 DEF Aimed, Operations, Leased
    <2>. QED BY <2>3, <2>4, <2>5, BeginFresh DEF vars
  <1>5. CASE \E c \in claims, op \in Leased \ {"deliver", "prepare"} : BeginLeased(p, op, c, {})
    BY <1>3, <1>5
  <1>6. CASE \E c \in claims, op \in {"deliver", "prepare"}, set \in SUBSET Records :
                BeginLeased(p, op, c, set)
    BY <1>3, <1>6 DEF Leased
  <1>. QED BY <1>1, <1>2, <1>4, <1>5, <1>6 DEF BeginAny

(* Ending a transaction without a write leaves nothing behind.              *)
LEMMA RollbackInv ==
    ASSUME TxnInv, NEW p \in Procs, Rollback(p)
    PROVE  UNCHANGED vars /\ TxnInv'
  <1>1. /\ UNCHANGED vars /\ seq_last' = seq_last
        /\ txn' = [txn EXCEPT ![p] = NoTxn] /\ locks' = [locks EXCEPT ![p] = {}]
    BY DEF Rollback, End
  <1>2. NoTxn.claim = NoClaim /\ NoTxn.op = "none" /\ NoTxn.seq = 0
    BY DEF NoTxn
  <1>3. SeqsBounded'
    <2>1. \A q \in Procs : txn'[q].seq \in {0, txn[q].seq}
      BY <1>1, <1>2 DEF TxnInv
    <2>. QED BY <1>1, <2>1, BoundAssumption DEF TxnInv, SeqsBounded, vars
  <1>. QED BY <1>1, <1>2, <1>3, IdleSound, QuietTxn

-----------------------------------------------------------------------------
(* Statements *)

(* What each statement has to lock.                                         *)
LEMMA WantsAt ==
    ASSUME NEW p, NEW s, AtStatement(p, s)
    PROVE  /\ s = "lock" => Wants(p) = {KeyLock(txn[p].key)}
           /\ s \in {"insert", "replay", "update"} => Wants(p) = {RowLock(txn[p].row)}
           /\ s = "records" => Wants(p) = RecordLocks(txn[p].row, RecordsWritten(p))
           /\ s = "promote" => Wants(p) = {RowLock(u) : u \in Successor(txn[p].row)}
           /\ s \in {"snapshot", "take"} => Wants(p) = {}
  <1>1. \A x : AtStatement(p, x) <=> x = s
    BY DEF AtStatement
  <1>. QED BY <1>1 DEF Wants

(* The place after the statement, and what the transaction is still about.  *)
LEMMA Advanced ==
    ASSUME TxnInv, NEW p \in Procs, NEW s, AtStatement(p, s), NEW o, o = txn[p],
           NEW t, t.op = o.op, t.pc = o.pc + 1, t.row = o.row, t.key = o.key,
           t.claim = o.claim, t.set = o.set \/ o.op = "claim", Shaped(t)
    PROVE  /\ TxnSound(o, locks[p]) /\ Aimed(o) /\ Aimed(t)
           /\ o.op # "none" /\ o.pc <= Len(Program(o.op)) /\ s = Program(o.op)[o.pc]
           /\ \A x : Past(t, x) <=> Past(o, x) \/ x = s
  <1>1. TxnSound(o, locks[p]) /\ Aimed(o)
    BY DEF TxnInv, TxnSound
  <1>2. o.op # "none" /\ o.pc <= Len(Program(o.op)) /\ s = Program(o.op)[o.pc]
    BY DEF AtStatement, Open, Statement
  <1>3. t.pc \in 1..(Len(Program(o.op)) + 1) /\ \A x : Past(t, x) <=> Past(o, x) \/ x = s
    BY <1>1, <1>2, NextPlace
  <1>4. Aimed(t)
    BY <1>1, <1>2, <1>3 DEF Aimed, Leased
  <1>. QED BY <1>1, <1>2, <1>3, <1>4

(* A statement that shows nothing, and whose new transaction is sound.      *)
LEMMA RanInv ==
    ASSUME TxnInv, NEW p \in Procs, NEW o, o = txn[p], NEW t, t.op = o.op,
           t.claim = o.claim, t.tok = o.tok,
           CanLock(p), txn' = [txn EXCEPT ![p] = t],
           locks' = [locks EXCEPT ![p] = locks[p] \cup Wants(p)], UNCHANGED vars,
           \/ seq_last' = seq_last /\ t.seq = o.seq
           \/ seq_last < MaxSeq /\ seq_last' = seq_last + 1 /\ t.seq = seq_last + 1,
           TxnSound(t, locks[p] \cup Wants(p))
    PROVE  TxnInv'
  <1>1. SeqsBounded'
    <2>1. /\ seq_last \in 0..MaxSeq /\ o.seq \in 0..seq_last
          /\ \A q \in Procs : txn[q].seq \in 0..seq_last
          /\ \A u \in RowId : outbox[u].seq <= seq_last /\ outbox[u].seq \in Nat
      BY BoundAssumption DEF TxnInv, SeqsBounded, IInv, TypeOK, Row
    <2>2. /\ seq_last' \in 0..MaxSeq /\ seq_last <= seq_last' /\ t.seq \in 0..seq_last'
      BY <2>1, BoundAssumption
    <2>3. \A q \in Procs : txn'[q].seq \in {t.seq, txn[q].seq}
      BY DEF TxnInv
    <2>4. \A q \in Procs : txn'[q].seq \in 0..seq_last'
      BY <2>1, <2>2, <2>3, BoundAssumption
    <2>5. \A u \in RowId : outbox[u].seq <= seq_last'
      BY <2>1, <2>2, BoundAssumption
    <2>. QED BY <2>2, <2>4, <2>5 DEF SeqsBounded, vars
  <1>2. ASSUME NEW q \in Procs \ {p}
        PROVE  /\ (locks[p] \cup Wants(p)) \cap locks[q] = {}
               /\ t.claim # NoClaim => t.claim # txn[q].claim
               /\ t.op = "claim" /\ txn[q].op = "claim" => t.tok # txn[q].tok
    <2>1. Apart(p, q)
      BY DEF TxnInv
    <2>. QED BY <2>1 DEF Apart, CanLock, Free
  <1>. QED BY <1>1, <1>2, QuietTxn

(* The locks a statement adds to those that are held: the key's lock.       *)
LEMMA GrowKey ==
    ASSUME NEW o, NEW t, NEW W, t.key = o.key, t.row = o.row,
           t.recs = o.recs, t.next = o.next,
           \A x : Past(t, x) <=> Past(o, x) \/ x = "lock",
           \A l : l \in W <=> l = KeyLock(o.key)
    PROVE  HeldLocks(t) = HeldLocks(o) \cup W
  <1>1. \A l : l \in HeldLocks(t) <=> \/ l = KeyLock(o.key) /\ Past(t, "lock")
                                      \/ l = RowLock(o.row) /\ LocksRow(t)
                                      \/ l \in RecordLocks(o.row, t.recs) /\ Past(t, "records")
                                      \/ l = RowLock(t.next) /\ t.next # NoRow
    BY HeldIn
  <1>2. \A l : l \in HeldLocks(o) <=> \/ l = KeyLock(o.key) /\ Past(o, "lock")
                                      \/ l = RowLock(o.row) /\ LocksRow(o)
                                      \/ l \in RecordLocks(o.row, o.recs) /\ Past(o, "records")
                                      \/ l = RowLock(o.next) /\ o.next # NoRow
    BY HeldIn
  <1>3. Past(t, "lock") /\ (LocksRow(t) <=> LocksRow(o)) /\ (Past(t, "records") <=> Past(o, "records"))
    BY DEF LocksRow
  <1>. QED BY <1>1, <1>2, <1>3

(* The lock of the row.                                                     *)
LEMMA GrowRow ==
    ASSUME NEW o, NEW t, NEW W, t.key = o.key, t.row = o.row,
           t.recs = o.recs, t.next = o.next,
           NEW s \in {"insert", "replay", "update"},
           \A x : Past(t, x) <=> Past(o, x) \/ x = s,
           \A l : l \in W <=> l = RowLock(o.row)
    PROVE  HeldLocks(t) = HeldLocks(o) \cup W
  <1>1. \A l : l \in HeldLocks(t) <=> \/ l = KeyLock(o.key) /\ Past(t, "lock")
                                      \/ l = RowLock(o.row) /\ LocksRow(t)
                                      \/ l \in RecordLocks(o.row, t.recs) /\ Past(t, "records")
                                      \/ l = RowLock(t.next) /\ t.next # NoRow
    BY HeldIn
  <1>2. \A l : l \in HeldLocks(o) <=> \/ l = KeyLock(o.key) /\ Past(o, "lock")
                                      \/ l = RowLock(o.row) /\ LocksRow(o)
                                      \/ l \in RecordLocks(o.row, o.recs) /\ Past(o, "records")
                                      \/ l = RowLock(o.next) /\ o.next # NoRow
    BY HeldIn
  <1>3. /\ LocksRow(t) /\ (Past(t, "lock") <=> Past(o, "lock"))
        /\ Past(t, "records") <=> Past(o, "records")
    BY DEF LocksRow
  <1>. QED BY <1>1, <1>2, <1>3

(* The locks of its records.                                                *)
LEMMA GrowRecords ==
    ASSUME NEW o, NEW t, NEW W, t.key = o.key, t.row = o.row,
           t.next = o.next, ~Past(o, "records"),
           \A x : Past(t, x) <=> Past(o, x) \/ x = "records",
           W = RecordLocks(o.row, t.recs)
    PROVE  HeldLocks(t) = HeldLocks(o) \cup W
  <1>1. \A l : l \in HeldLocks(t) <=> \/ l = KeyLock(o.key) /\ Past(t, "lock")
                                      \/ l = RowLock(o.row) /\ LocksRow(t)
                                      \/ l \in RecordLocks(o.row, t.recs) /\ Past(t, "records")
                                      \/ l = RowLock(t.next) /\ t.next # NoRow
    BY HeldIn
  <1>2. \A l : l \in HeldLocks(o) <=> \/ l = KeyLock(o.key) /\ Past(o, "lock")
                                      \/ l = RowLock(o.row) /\ LocksRow(o)
                                      \/ l \in RecordLocks(o.row, o.recs) /\ Past(o, "records")
                                      \/ l = RowLock(o.next) /\ o.next # NoRow
    BY HeldIn
  <1>3. /\ Past(t, "records") /\ (Past(t, "lock") <=> Past(o, "lock"))
        /\ LocksRow(t) <=> LocksRow(o)
    BY DEF LocksRow
  <1>. QED BY <1>1, <1>2, <1>3

(* The lock of the row that moves up.                                       *)
LEMMA GrowNext ==
    ASSUME NEW o, NEW t, NEW W, t.key = o.key, t.row = o.row,
           t.recs = o.recs, o.next = NoRow,
           \A x : Past(t, x) <=> Past(o, x) \/ x = "promote",
           \A l : l \in W <=> l = RowLock(t.next) /\ t.next # NoRow
    PROVE  HeldLocks(t) = HeldLocks(o) \cup W
  <1>1. \A l : l \in HeldLocks(t) <=> \/ l = KeyLock(o.key) /\ Past(t, "lock")
                                      \/ l = RowLock(o.row) /\ LocksRow(t)
                                      \/ l \in RecordLocks(o.row, t.recs) /\ Past(t, "records")
                                      \/ l = RowLock(t.next) /\ t.next # NoRow
    BY HeldIn
  <1>2. \A l : l \in HeldLocks(o) <=> \/ l = KeyLock(o.key) /\ Past(o, "lock")
                                      \/ l = RowLock(o.row) /\ LocksRow(o)
                                      \/ l \in RecordLocks(o.row, o.recs) /\ Past(o, "records")
                                      \/ l = RowLock(o.next) /\ o.next # NoRow
    BY HeldIn
  <1>3. /\ Past(t, "lock") <=> Past(o, "lock")
        /\ LocksRow(t) <=> LocksRow(o)
        /\ Past(t, "records") <=> Past(o, "records")
    BY DEF LocksRow
  <1>. QED BY <1>1, <1>2, <1>3

(* The key's lock, first of all.                                            *)
LEMMA LockKeyInv ==
    ASSUME TxnInv, NEW p \in Procs, LockKey(p)
    PROVE  TxnInv'
  <1>1. PICK o : o = txn[p]
    OBVIOUS
  <1>2. PICK t : t = [o EXCEPT !.pc = @ + 1]
    OBVIOUS
  <1>. DEFINE L == locks[p] \cup Wants(p)
  <1>3. /\ AtStatement(p, "lock") /\ CanLock(p) /\ UNCHANGED vars /\ seq_last' = seq_last
        /\ txn' = [txn EXCEPT ![p] = t] /\ locks' = [locks EXCEPT ![p] = L]
    BY <1>1, <1>2 DEF LockKey, Ran, TxnInv
  <1>4. Shaped(o)
    BY <1>1 DEF TxnInv, TxnSound, Aimed
  <1>5. /\ t.op = o.op /\ t.pc = o.pc + 1 /\ t.row = o.row /\ t.key = o.key /\ t.claim = o.claim
        /\ t.set = o.set /\ t.recs = o.recs /\ t.tok = o.tok /\ t.seq = o.seq
        /\ t.head = o.head /\ t.next = o.next /\ Shaped(t)
    BY <1>2, <1>4 DEF Shaped
  <1>6. /\ TxnSound(o, locks[p]) /\ Aimed(o) /\ Aimed(t)
        /\ o.op # "none" /\ o.pc <= Len(Program(o.op)) /\ "lock" = Program(o.op)[o.pc]
        /\ \A x : Past(t, x) <=> Past(o, x) \/ x = "lock"
    BY <1>1, <1>3, <1>5, Advanced
  <1>7. o.op \in {"accept", "replay", "deliver", "dead", "abandon"} /\ Only(o, {})
    BY <1>6, AtPlace
  <1>8. /\ o.op # "claim" /\ t.head = FALSE /\ t.next = NoRow
        /\ \A x \in StatementNames : Past(t, x) <=> x = "lock"
    BY <1>5, <1>6, <1>7 DEF Only, StatementNames, TxnSound, KeyDecided
  <1>9. KeyDecided(t) /\ RowDecided(t) /\ ClaimSound(t, L)
    BY <1>5, <1>8 DEF StatementNames, KeyDecided, RowDecided, ClaimSound
  <1>10. HeldLocks(t) = HeldLocks(o) \cup Wants(p)
    <2>1. \A l : l \in Wants(p) <=> l = KeyLock(o.key)
      BY <1>1, <1>3, WantsAt
    <2>2. PICK s : s = "lock"
      OBVIOUS
    <2>3. \A x : Past(t, x) <=> Past(o, x) \/ x = s
      BY <1>6, <2>2
    <2>. QED BY <1>5, <2>1, <2>2, <2>3, GrowKey
  <1>11. TxnSound(t, L)
    BY <1>6, <1>8, <1>9, <1>10 DEF TxnSound
  <1>. QED BY <1>1, <1>3, <1>5, <1>11, RanInv

(* The order of the identity column: its next value is above every other.   *)
LEMMA FreshSeq ==
    ASSUME TxnInv, seq_last < MaxSeq, NEW key
    PROVE  seq_last + 1 \in 1..MaxSeq /\ NextSeq(key, seq_last + 1)
  <1>1. seq_last \in Nat /\ MaxSeq \in Nat
    BY BoundAssumption DEF TxnInv, SeqsBounded
  <1>2. \A u \in RowId : outbox[u].seq \in Nat /\ outbox[u].seq <= seq_last
    BY BoundAssumption DEF TxnInv, SeqsBounded, IInv, TypeOK, Row
  <1>. QED BY <1>1, <1>2 DEF NextSeq

(* The INSERT of Accept.                                                    *)
LEMMA InsertInv ==
    ASSUME TxnInv, NEW p \in Procs, Insert(p)
    PROVE  TxnInv'
  <1>1. PICK o : o = txn[p]
    OBVIOUS
  <1>2. PICK head \in BOOLEAN : head = KeyIsIdle(o.key)
    BY DEF KeyIsIdle
  <1>3. PICK t : t = [[o EXCEPT !.seq = seq_last + 1, !.head = head] EXCEPT !.pc = @ + 1]
    OBVIOUS
  <1>. DEFINE L == locks[p] \cup Wants(p)
  <1>4. /\ AtStatement(p, "insert") /\ CanLock(p) /\ UNCHANGED vars
        /\ seq_last < MaxSeq /\ seq_last' = seq_last + 1 /\ outbox[o.row].state = "absent"
        /\ txn' = [txn EXCEPT ![p] = t] /\ locks' = [locks EXCEPT ![p] = L]
    BY <1>1, <1>2, <1>3 DEF Insert, Ran, TxnInv
  <1>5. Shaped(o)
    BY <1>1 DEF TxnInv, TxnSound, Aimed
  <1>6. /\ t.op = o.op /\ t.pc = o.pc + 1 /\ t.row = o.row /\ t.key = o.key /\ t.claim = o.claim
        /\ t.set = o.set /\ t.recs = o.recs /\ t.tok = o.tok /\ t.seq = seq_last + 1
        /\ t.head = head /\ t.next = o.next /\ Shaped(t)
    BY <1>3, <1>5 DEF Shaped
  <1>7. /\ TxnSound(o, locks[p]) /\ Aimed(o) /\ Aimed(t)
        /\ o.op # "none" /\ o.pc <= Len(Program(o.op)) /\ "insert" = Program(o.op)[o.pc]
        /\ \A x : Past(t, x) <=> Past(o, x) \/ x = "insert"
    BY <1>1, <1>4, <1>6, Advanced
  <1>8. o.op = "accept" /\ Only(o, {"lock"})
    BY <1>7, AtPlace
  <1>9. /\ o.op # "claim" /\ t.next = NoRow
        /\ \A x \in StatementNames : Past(t, x) <=> x \in {"lock", "insert"}
    BY <1>6, <1>7, <1>8 DEF Only, StatementNames, TxnSound, KeyDecided
  <1>10. Queued(t)
    BY <1>2, <1>4, <1>6, FreshSeq DEF Queued
  <1>11. KeyDecided(t) /\ RowDecided(t) /\ ClaimSound(t, L)
    BY <1>4, <1>6, <1>8, <1>9, <1>10 DEF StatementNames, KeyDecided, RowDecided, ClaimSound
  <1>12. HeldLocks(t) = HeldLocks(o) \cup Wants(p)
    <2>1. \A l : l \in Wants(p) <=> l = RowLock(o.row)
      BY <1>1, <1>4, WantsAt
    <2>2. PICK s : s = "insert"
      OBVIOUS
    <2>3. \A x : Past(t, x) <=> Past(o, x) \/ x = s
      BY <1>7, <2>2
    <2>. QED BY <1>6, <2>1, <2>2, <2>3, GrowRow
  <1>13. TxnSound(t, L)
    BY <1>6, <1>7, <1>9, <1>11, <1>12 DEF TxnSound
  <1>. QED BY <1>1, <1>4, <1>6, <1>13, RanInv

(* The UPDATE of Replay.                                                    *)
LEMMA UpdateReplayInv ==
    ASSUME TxnInv, NEW p \in Procs, UpdateReplay(p)
    PROVE  TxnInv'
  <1>1. PICK o : o = txn[p]
    OBVIOUS
  <1>2. PICK head \in BOOLEAN : head = KeyIsIdle(o.key)
    BY DEF KeyIsIdle
  <1>3. PICK t : t = [[o EXCEPT !.seq = seq_last + 1, !.head = head] EXCEPT !.pc = @ + 1]
    OBVIOUS
  <1>. DEFINE L == locks[p] \cup Wants(p)
  <1>4. /\ AtStatement(p, "replay") /\ CanLock(p) /\ UNCHANGED vars
        /\ seq_last < MaxSeq /\ seq_last' = seq_last + 1 /\ Replayable(o.row)
        /\ txn' = [txn EXCEPT ![p] = t] /\ locks' = [locks EXCEPT ![p] = L]
    BY <1>1, <1>2, <1>3 DEF UpdateReplay, Ran, TxnInv
  <1>5. Shaped(o)
    BY <1>1 DEF TxnInv, TxnSound, Aimed
  <1>6. /\ t.op = o.op /\ t.pc = o.pc + 1 /\ t.row = o.row /\ t.key = o.key /\ t.claim = o.claim
        /\ t.set = o.set /\ t.recs = o.recs /\ t.tok = o.tok /\ t.seq = seq_last + 1
        /\ t.head = head /\ t.next = o.next /\ Shaped(t)
    BY <1>3, <1>5 DEF Shaped
  <1>7. /\ TxnSound(o, locks[p]) /\ Aimed(o) /\ Aimed(t)
        /\ o.op # "none" /\ o.pc <= Len(Program(o.op)) /\ "replay" = Program(o.op)[o.pc]
        /\ \A x : Past(t, x) <=> Past(o, x) \/ x = "replay"
    BY <1>1, <1>4, <1>6, Advanced
  <1>8. o.op = "replay" /\ Only(o, {"lock"})
    BY <1>7, AtPlace
  <1>9. /\ o.op # "claim" /\ t.next = NoRow
        /\ \A x \in StatementNames : Past(t, x) <=> x \in {"lock", "replay"}
    BY <1>6, <1>7, <1>8 DEF Only, StatementNames, TxnSound, KeyDecided
  <1>10. Queued(t)
    BY <1>2, <1>4, <1>6, FreshSeq DEF Queued
  <1>11. KeyDecided(t) /\ RowDecided(t) /\ ClaimSound(t, L)
    BY <1>4, <1>6, <1>8, <1>9, <1>10 DEF StatementNames, KeyDecided, RowDecided, ClaimSound
  <1>12. HeldLocks(t) = HeldLocks(o) \cup Wants(p)
    <2>1. \A l : l \in Wants(p) <=> l = RowLock(o.row)
      BY <1>1, <1>4, WantsAt
    <2>2. PICK s : s = "replay"
      OBVIOUS
    <2>3. \A x : Past(t, x) <=> Past(o, x) \/ x = s
      BY <1>7, <2>2
    <2>. QED BY <1>6, <2>1, <2>2, <2>3, GrowRow
  <1>13. TxnSound(t, L)
    BY <1>6, <1>7, <1>9, <1>11, <1>12 DEF TxnSound
  <1>. QED BY <1>1, <1>4, <1>6, <1>13, RanInv

(* The lease-guarded UPDATE.                                                *)
LEMMA UpdateLeasedInv ==
    ASSUME TxnInv, NEW p \in Procs, UpdateLeased(p)
    PROVE  TxnInv'
  <1>1. PICK o : o = txn[p]
    OBVIOUS
  <1>2. PICK t : t = [o EXCEPT !.pc = @ + 1]
    OBVIOUS
  <1>. DEFINE L == locks[p] \cup Wants(p)
  <1>3. /\ AtStatement(p, "update") /\ CanLock(p) /\ UNCHANGED vars /\ seq_last' = seq_last
        /\ Held(o.claim) /\ (o.op = "prepare" => outbox[o.row].state = "pending")
        /\ txn' = [txn EXCEPT ![p] = t] /\ locks' = [locks EXCEPT ![p] = L]
    BY <1>1, <1>2 DEF UpdateLeased, Ran, TxnInv
  <1>4. Shaped(o)
    BY <1>1 DEF TxnInv, TxnSound, Aimed
  <1>5. /\ t.op = o.op /\ t.pc = o.pc + 1 /\ t.row = o.row /\ t.key = o.key /\ t.claim = o.claim
        /\ t.set = o.set /\ t.recs = o.recs /\ t.tok = o.tok /\ t.seq = o.seq
        /\ t.head = o.head /\ t.next = o.next /\ Shaped(t)
    BY <1>2, <1>4 DEF Shaped
  <1>6. /\ TxnSound(o, locks[p]) /\ Aimed(o) /\ Aimed(t)
        /\ o.op # "none" /\ o.pc <= Len(Program(o.op)) /\ "update" = Program(o.op)[o.pc]
        /\ \A x : Past(t, x) <=> Past(o, x) \/ x = "update"
    BY <1>1, <1>3, <1>5, Advanced
  <1>7. \/ o.op = "deliver" /\ Only(o, {"lock", "records"})
        \/ o.op \in {"dead", "abandon"} /\ Only(o, {"lock"})
        \/ o.op \in {"prepare", "retry", "halt", "release"} /\ Only(o, {})
    BY <1>6, AtPlace
  <1>8. /\ o.op \notin {"claim", "replay"}
        /\ ~Past(t, "insert") /\ ~Past(t, "replay") /\ ~Past(t, "promote")
        /\ Past(t, "records") <=> Past(o, "records")
        /\ Past(t, "records") => o.op = "deliver"
        /\ ~Past(o, "insert") /\ ~Past(o, "replay") /\ ~Past(o, "promote")
    BY <1>6, <1>7 DEF Only, StatementNames
  <1>9. KeyDecided(t) /\ t.next = NoRow
    BY <1>5, <1>6, <1>8 DEF TxnSound, KeyDecided
  <1>10. RowDecided(t)
    BY <1>3, <1>5, <1>6, <1>8 DEF TxnSound, RowDecided
  <1>11. HeldLocks(t) = HeldLocks(o) \cup Wants(p)
    <2>1. \A l : l \in Wants(p) <=> l = RowLock(o.row)
      BY <1>1, <1>3, WantsAt
    <2>2. PICK s : s = "update"
      OBVIOUS
    <2>3. \A x : Past(t, x) <=> Past(o, x) \/ x = s
      BY <1>6, <2>2
    <2>. QED BY <1>5, <2>1, <2>2, <2>3, GrowRow
  <1>12. ClaimSound(t, L)
    BY <1>5, <1>8 DEF ClaimSound
  <1>13. TxnSound(t, L)
    BY <1>5, <1>6, <1>8, <1>9, <1>10, <1>11, <1>12 DEF TxnSound
  <1>. QED BY <1>1, <1>3, <1>5, <1>13, RanInv

(* The rows of outbox_record that each operation writes.                    *)
LEMMA WriteRecordsInv ==
    ASSUME TxnInv, NEW p \in Procs, WriteRecords(p)
    PROVE  TxnInv'
  <1>1. PICK o : o = txn[p]
    OBVIOUS
  <1>2. PICK X : X = RecordsWritten(p)
    OBVIOUS
  <1>3. PICK t : t = [[o EXCEPT !.recs = X] EXCEPT !.pc = @ + 1]
    OBVIOUS
  <1>. DEFINE L == locks[p] \cup Wants(p)
  <1>4. /\ AtStatement(p, "records") /\ CanLock(p) /\ UNCHANGED vars /\ seq_last' = seq_last
        /\ o.op = "deliver" => o.set \subseteq Waiting(o.row)
        /\ txn' = [txn EXCEPT ![p] = t] /\ locks' = [locks EXCEPT ![p] = L]
    BY <1>1, <1>2, <1>3 DEF WriteRecords, Ran, TxnInv
  <1>5. Shaped(o)
    BY <1>1 DEF TxnInv, TxnSound, Aimed
  <1>6. /\ t.op = o.op /\ t.pc = o.pc + 1 /\ t.row = o.row /\ t.key = o.key /\ t.claim = o.claim
        /\ t.set = o.set /\ t.recs = X /\ t.tok = o.tok /\ t.seq = o.seq
        /\ t.head = o.head /\ t.next = o.next /\ Shaped(t)
    BY <1>3, <1>5 DEF Shaped
  <1>7. /\ TxnSound(o, locks[p]) /\ Aimed(o) /\ Aimed(t)
        /\ o.op # "none" /\ o.pc <= Len(Program(o.op)) /\ "records" = Program(o.op)[o.pc]
        /\ \A x : Past(t, x) <=> Past(o, x) \/ x = "records"
    BY <1>1, <1>4, <1>6, Advanced
  <1>8. \/ o.op = "replay" /\ Only(o, {"lock", "replay"})
        \/ o.op = "deliver" /\ Only(o, {"lock"})
        \/ o.op = "prepare" /\ Only(o, {"update"})
    BY <1>7, AtPlace
  <1>9. /\ o.op = "replay" => X = DeadRecords(o.row)
        /\ o.op = "deliver" => X = Waiting(o.row)
    BY <1>1, <1>2 DEF RecordsWritten
  <1>10. /\ o.op # "claim" /\ ~Past(o, "records")
         /\ \A x : x # "records" => (Past(t, x) <=> Past(o, x))
    BY <1>7, <1>8 DEF Only, StatementNames
  <1>11. KeyDecided(t)
    BY <1>6, <1>7, <1>10 DEF TxnSound, KeyDecided, Queued
  <1>12. o.op = "deliver" /\ X # {} => outbox[o.row].prepared_at
    <2>1. o.op = "deliver" => o.row \in RowId
      BY <1>7, RowOf DEF TxnInv, IInv, Leased
    <2>. QED BY <1>9, <2>1 DEF TxnInv, IInv, RecordsFollowRow, Waiting
  <1>13. RowDecided(t)
    BY <1>4, <1>6, <1>7, <1>9, <1>10, <1>12 DEF TxnSound, RowDecided
  <1>14. Wants(p) = RecordLocks(o.row, t.recs)
    BY <1>1, <1>2, <1>4, <1>6, WantsAt
  <1>15. HeldLocks(t) = HeldLocks(o) \cup Wants(p)
    <2>1. PICK s : s = "records"
      OBVIOUS
    <2>2. ~Past(o, s) /\ \A x : Past(t, x) <=> Past(o, x) \/ x = s
      BY <1>7, <1>10, <2>1
    <2>. QED BY <1>6, <1>14, <2>1, <2>2, GrowRecords
  <1>16. ClaimSound(t, L)
    BY <1>6, <1>10 DEF ClaimSound
  <1>17. TxnSound(t, L)
    BY <1>6, <1>7, <1>10, <1>11, <1>13, <1>15, <1>16 DEF TxnSound
  <1>. QED BY <1>1, <1>4, <1>6, <1>17, RanInv

(* The row to promote is one.                                               *)
LEMMA OneSuccessor ==
    ASSUME IInv, NEW r, NEW s \in Successor(r), NEW u \in Successor(r)
    PROVE  s = u
  <1>1. /\ s \in RowId /\ u \in RowId /\ SameKey(s, u)
        /\ outbox[s].seq <= outbox[u].seq /\ outbox[u].seq <= outbox[s].seq
    BY DEF Successor, NextHead, SameKey
  <1>2. outbox[s].seq \in Nat /\ outbox[u].seq \in Nat
    BY <1>1, BoundAssumption DEF IInv, TypeOK, Row
  <1>3. outbox[s].seq = outbox[u].seq
    BY <1>1, <1>2
  <1>. QED BY <1>1, <1>3 DEF IInv, QueueInv, DistinctSeq

(* PromoteNextHead.                                                         *)
LEMMA PromoteInv ==
    ASSUME TxnInv, NEW p \in Procs, Promote(p)
    PROVE  TxnInv'
  <1>1. PICK o : o = txn[p]
    OBVIOUS
  <1>2. AtStatement(p, "promote") /\ seq_last' = seq_last
    BY DEF Promote
  <1>3. /\ TxnSound(o, locks[p]) /\ Aimed(o) /\ Shaped(o)
        /\ o.op # "none" /\ o.pc <= Len(Program(o.op)) /\ "promote" = Program(o.op)[o.pc]
    BY <1>1, <1>2 DEF TxnInv, TxnSound, Aimed, AtStatement, Open, Statement
  <1>4. \/ o.op = "deliver" /\ Only(o, {"lock", "records", "update"})
        \/ o.op \in {"dead", "abandon"} /\ Only(o, {"lock", "update"})
    BY <1>3, AtPlace
  <1>5. o.head = FALSE /\ o.next = NoRow /\ o.op # "claim"
        /\ ~Past(o, "insert") /\ ~Past(o, "replay") /\ ~Past(o, "promote")
    BY <1>3, <1>4 DEF Only, StatementNames, TxnSound, KeyDecided
  <1>6. PICK s : /\ \/ s \in Successor(o.row)
                    \/ s = NoRow /\ Successor(o.row) = {}
                 /\ Ran(p, [o EXCEPT !.next = s])
    <2>1. CASE Successor(o.row) = {} /\ Ran(p, o)
      <3>1. [o EXCEPT !.next = NoRow] = o
        BY <1>3, <1>5 DEF Shaped
      <3>. QED BY <2>1, <3>1
    <2>2. CASE \E s \in Successor(o.row) : Ran(p, [o EXCEPT !.next = s])
      BY <2>2
    <2>. QED BY <1>1, <2>1, <2>2 DEF Promote
  <1>7. PICK t : t = [[o EXCEPT !.next = s] EXCEPT !.pc = @ + 1]
    OBVIOUS
  <1>. DEFINE L == locks[p] \cup Wants(p)
  <1>8. /\ CanLock(p) /\ UNCHANGED vars
        /\ txn' = [txn EXCEPT ![p] = t] /\ locks' = [locks EXCEPT ![p] = L]
    BY <1>6, <1>7 DEF Ran, TxnInv
  <1>9. /\ t.op = o.op /\ t.pc = o.pc + 1 /\ t.row = o.row /\ t.key = o.key /\ t.claim = o.claim
        /\ t.set = o.set /\ t.recs = o.recs /\ t.tok = o.tok /\ t.seq = o.seq
        /\ t.head = o.head /\ t.next = s /\ Shaped(t)
    BY <1>3, <1>7 DEF Shaped
  <1>10. Aimed(t) /\ \A x : Past(t, x) <=> Past(o, x) \/ x = "promote"
    BY <1>1, <1>2, <1>9, Advanced
  <1>11. KeyDecided(t)
    BY <1>5, <1>6, <1>9, <1>10 DEF KeyDecided
  <1>12. RowDecided(t) /\ ClaimSound(t, L)
    BY <1>3, <1>5, <1>9, <1>10 DEF TxnSound, RowDecided, ClaimSound
  <1>13. \A l : l \in Wants(p) <=> l = RowLock(t.next) /\ t.next # NoRow
    <2>1. Wants(p) = {RowLock(u) : u \in Successor(o.row)}
      BY <1>1, <1>2, WantsAt
    <2>2. CASE s \in Successor(o.row)
      <3>1. Successor(o.row) = {s}
        BY <2>2, OneSuccessor DEF TxnInv
      <3>2. s # NoRow
        BY <2>2, NoneAssumption DEF Successor
      <3>. QED BY <1>9, <2>1, <3>1, <3>2
    <2>3. CASE s = NoRow /\ Successor(o.row) = {}
      BY <1>9, <2>1, <2>3
    <2>. QED BY <1>6, <2>2, <2>3
  <1>14. HeldLocks(t) = HeldLocks(o) \cup Wants(p)
    <2>1. PICK x : x = "promote"
      OBVIOUS
    <2>2. \A y : Past(t, y) <=> Past(o, y) \/ y = x
      BY <1>10, <2>1
    <2>. QED BY <1>5, <1>9, <1>13, <2>1, <2>2, GrowNext
  <1>15. TxnSound(t, L)
    BY <1>3, <1>5, <1>9, <1>10, <1>11, <1>12, <1>14 DEF TxnSound
  <1>. QED BY <1>1, <1>2, <1>8, <1>9, <1>15, RanInv

(* What a claim is: nothing decided but the rows it took.                   *)
LEMMA ClaimFacts ==
    ASSUME NEW t, NEW L, t.op = "claim", Aimed(t), ClaimSound(t, L)
    PROVE  TxnSound(t, L)
  <1>1. t.pc \in 1..(Len(Program(t.op)) + 1)
    BY DEF Aimed
  <1>2. /\ ~Past(t, "insert") /\ ~Past(t, "replay") /\ ~Past(t, "update")
        /\ ~Past(t, "records") /\ ~Past(t, "promote")
    BY <1>1, InClaim
  <1>. QED BY <1>2 DEF TxnSound, KeyDecided, RowDecided, ClaimSound

(* The snapshot of a claim.                                                 *)
LEMMA SnapshotInv ==
    ASSUME TxnInv, NEW p \in Procs, Snapshot(p)
    PROVE  TxnInv'
  <1>1. PICK o : o = txn[p]
    OBVIOUS
  <1>2. PICK S : S = {r \in RowId : DueHead(r)}
    OBVIOUS
  <1>3. PICK t : t = [[o EXCEPT !.set = S] EXCEPT !.pc = @ + 1]
    OBVIOUS
  <1>. DEFINE L == locks[p] \cup Wants(p)
  <1>4. /\ AtStatement(p, "snapshot") /\ CanLock(p) /\ UNCHANGED vars /\ seq_last' = seq_last
        /\ txn' = [txn EXCEPT ![p] = t] /\ locks' = [locks EXCEPT ![p] = L]
    BY <1>1, <1>2, <1>3 DEF Snapshot, Ran, TxnInv
  <1>5. /\ TxnSound(o, locks[p]) /\ Aimed(o) /\ Shaped(o) /\ o.op = "claim"
    <2>1. /\ TxnSound(o, locks[p]) /\ Aimed(o) /\ Shaped(o)
          /\ o.op # "none" /\ o.pc <= Len(Program(o.op)) /\ "snapshot" = Program(o.op)[o.pc]
      BY <1>1, <1>4 DEF TxnInv, TxnSound, Aimed, AtStatement, Open, Statement
    <2>. QED BY <2>1, AtPlace
  <1>6. /\ t.op = o.op /\ t.pc = o.pc + 1 /\ t.row = o.row /\ t.key = o.key /\ t.claim = o.claim
        /\ t.recs = o.recs /\ t.tok = o.tok /\ t.seq = o.seq
        /\ t.head = o.head /\ t.next = o.next /\ Shaped(t)
    BY <1>3, <1>5 DEF Shaped
  <1>7. Aimed(t)
    BY <1>1, <1>4, <1>5, <1>6, Advanced
  <1>8. Wants(p) = {} /\ L = locks[p]
    BY <1>4, WantsAt
  <1>9. ClaimSound(t, L)
    BY <1>5, <1>6, <1>8 DEF TxnSound, ClaimSound
  <1>10. TxnSound(t, L)
    BY <1>5, <1>6, <1>7, <1>9, ClaimFacts
  <1>. QED BY <1>1, <1>4, <1>6, <1>10, RanInv

(* FOR UPDATE SKIP LOCKED.                                                  *)
LEMMA TakeInv ==
    ASSUME TxnInv, NEW p \in Procs, NEW r \in RowId, Take(p, r)
    PROVE  TxnInv'
  <1>1. PICK o : o = txn[p]
    OBVIOUS
  <1>2. PICK L : L = locks[p]
    OBVIOUS
  <1>. DEFINE M == L \cup {RowLock(r)}
  <1>3. /\ AtStatement(p, "take") /\ RowLock(r) \notin L /\ Free(p, RowLock(r))
        /\ DueHead(r) /\ outbox[r].attempts < MaxAttempts /\ Cardinality(TakenIn(L)) < Batch
        /\ UNCHANGED vars /\ seq_last' = seq_last /\ txn' = txn
        /\ locks' = [locks EXCEPT ![p] = M]
    BY <1>2 DEF Take, Recheck, Taken, TakenIn, TxnInv
  <1>4. /\ TxnSound(o, L) /\ Aimed(o) /\ o.op = "claim"
    <2>1. /\ TxnSound(o, L) /\ Aimed(o)
          /\ o.op # "none" /\ o.pc <= Len(Program(o.op)) /\ "take" = Program(o.op)[o.pc]
      BY <1>1, <1>2, <1>3 DEF TxnInv, TxnSound, AtStatement, Open, Statement
    <2>. QED BY <2>1, AtPlace
  <1>5. TakenIn(M) = TakenIn(L) \cup {r}
    BY DEF TakenIn, RowLock
  <1>6. /\ r \notin TakenIn(L) /\ IsFiniteSet(TakenIn(L)) /\ L = {RowLock(u) : u \in TakenIn(L)}
    BY <1>3, <1>4 DEF TxnSound, ClaimSound, TakenIn
  <1>7. /\ IsFiniteSet(TakenIn(M)) /\ Cardinality(TakenIn(M)) = Cardinality(TakenIn(L)) + 1
    BY <1>5, <1>6, FS_AddElement
  <1>8. Cardinality(TakenIn(M)) <= Batch
    BY <1>3, <1>6, <1>7, FS_CardinalityType, BoundAssumption
  <1>9. M = {RowLock(u) : u \in TakenIn(M)}
    BY <1>5, <1>6
  <1>10. ClaimSound(o, M)
    BY <1>3, <1>4, <1>5, <1>7, <1>8, <1>9 DEF TxnSound, ClaimSound
  <1>11. TxnSound(o, M)
    BY <1>4, <1>10, ClaimFacts
  <1>12. txn' = [txn EXCEPT ![p] = o] /\ SeqsBounded'
    BY <1>1, <1>3 DEF TxnInv, SeqsBounded, vars
  <1>13. ASSUME NEW q \in Procs \ {p}
         PROVE  /\ M \cap locks[q] = {}
                /\ o.claim # NoClaim => o.claim # txn[q].claim
                /\ o.op = "claim" /\ txn[q].op = "claim" => o.tok # txn[q].tok
    <2>1. Apart(p, q)
      BY DEF TxnInv
    <2>. QED BY <1>1, <1>2, <1>3, <2>1 DEF Apart, Free
  <1>. QED BY <1>3, <1>11, <1>12, <1>13, QuietTxn

(* No statement shows.                                                      *)
LEMMA StatementInv ==
    ASSUME TxnInv, NEW p \in Procs, Step(p)
    PROVE  UNCHANGED vars /\ TxnInv'
  <1>1. UNCHANGED vars
    BY DEF Step, LockKey, Insert, UpdateReplay, UpdateLeased, WriteRecords, Promote, Snapshot,
           Take, Ran
  <1>. QED BY <1>1, LockKeyInv, InsertInv, UpdateReplayInv, UpdateLeasedInv, WriteRecordsInv,
              PromoteInv, SnapshotInv, TakeInv DEF Step

-----------------------------------------------------------------------------
(* Commits *)

(* What the commit of p may do to the committed tables: it writes the rows  *)
(* of A, whose locks it holds, moves a row in a queue only under the key's  *)
(* lock, and leaves no other transaction's lease alive over other records.  *)
Writes(p, A) ==
    /\ \A u \in A : u \in RowId /\ RowLock(u) \in locks[p]
    /\ \A u \in RowId \ A : outbox'[u] = outbox[u] /\ outbox_record'[u] = outbox_record[u]
    /\ \A u \in A :
          /\ Stored(u) => /\ Stored(u)' /\ KeyOf(u)' = KeyOf(u)
                          /\ outbox[u].prepared_at => outbox'[u].prepared_at
          /\ \/ KeyLock(KeyOf(u)') \in locks[p]
             \/ /\ Stored(u) /\ outbox'[u].seq = outbox[u].seq
                /\ IsUnfinished(u)' <=> IsUnfinished(u)
          /\ outbox'[u].seq <= seq_last
          /\ \/ outbox'[u].lease_token \in {outbox[u].lease_token, NoToken}
             \/ txn[p].op = "claim" /\ outbox'[u].lease_token = txn[p].tok
    /\ \A c \in claims : c.row \in A /\ c # txn[p].claim => outbox'[c.row].lease_token # c.token
    /\ claims \subseteq claims'
    /\ \A c \in claims' \ claims :
          /\ txn[p].op = "claim" /\ c.token = txn[p].tok
          /\ c.row \in RowId /\ Stored(c.row)

(* Such a commit keeps every row, and spares every other transaction.       *)
LEMMA WritesSpare ==
    ASSUME TxnInv, NEW p \in Procs, NEW A, Writes(p, A),
           NEW q \in Procs, q # p, NEW t, t = txn[q], NEW M, M = locks[q]
    PROVE  RowsStay /\ Spares(t, M)
  <1>1. TypeOK /\ TxnSound(t, M) /\ Apart(q, p)
    BY DEF TxnInv, IInv
  <1>2. M \cap locks[p] = {}
    BY <1>1 DEF Apart
  <1>3. RowsStay
    BY DEF Writes, RowsStay, Stored, KeyOf
  <1>4. ASSUME NEW u \in RowId, RowLock(u) \in M PROVE RowStands(u)
    <2>1. u \notin A
      BY <1>2, <1>4 DEF Writes
    <2>. QED BY <2>1 DEF Writes, RowStands
  <1>5. ASSUME KeyLock(t.key) \in M PROVE QueueStands(t.key)
    <2>. SUFFICES ASSUME NEW u \in RowId, Stored(u)', KeyOf(u)' = t.key
                  PROVE  /\ Stored(u) /\ KeyOf(u) = t.key
                         /\ outbox'[u].seq = outbox[u].seq
                         /\ IsUnfinished(u)' <=> IsUnfinished(u)
      BY DEF QueueStands
    <2>1. CASE u \in A
      <3>1. KeyLock(KeyOf(u)') \notin locks[p]
        BY <1>2, <1>5
      <3>2. Stored(u) /\ outbox'[u].seq = outbox[u].seq /\ (IsUnfinished(u)' <=> IsUnfinished(u))
        BY <2>1, <3>1 DEF Writes
      <3>. QED BY <2>1, <3>2 DEF Writes
    <2>2. CASE u \notin A
      BY <2>2 DEF Writes, Stored, KeyOf, IsUnfinished
    <2>. QED BY <2>1, <2>2
  <1>6. ASSUME t.claim \in claims, outbox'[t.claim.row].lease_token = t.claim.token
        PROVE  /\ outbox[t.claim.row].lease_token = t.claim.token
               /\ outbox_record'[t.claim.row] = outbox_record[t.claim.row]
    <2>1. t.claim # NoClaim /\ t.claim.row \in RowId
      BY <1>1, <1>6, NoneAssumption DEF TypeOK, Claimed
    <2>2. t.claim # txn[p].claim
      BY <1>1, <2>1 DEF Apart
    <2>3. t.claim.row \notin A
      BY <1>6, <2>2 DEF Writes
    <2>. QED BY <1>6, <2>1, <2>3 DEF Writes
  <1>7. ASSUME t.op = "claim" PROVE t.tok \notin UsedTokens'
    <2>1. t.tok \in Tokens /\ t.tok \notin UsedTokens
      BY <1>1, <1>7 DEF TxnSound, ClaimSound
    <2>2. txn[p].op = "claim" => t.tok # txn[p].tok
      BY <1>1, <1>7 DEF Apart
    <2>3. \A c \in claims' : c.token # t.tok
      BY <2>1, <2>2 DEF Writes, UsedTokens
    <2>4. \A u \in RowId : outbox'[u].lease_token # t.tok
      BY <2>1, <2>2, TokenAssumption DEF Writes, UsedTokens
    <2>. QED BY <2>3, <2>4 DEF UsedTokens
  <1>8. t.claim \in claims => t.claim \in claims'
    BY DEF Writes
  <1>9. Spares(t, M)
    BY <1>4, <1>5, <1>6, <1>7, <1>8 DEF Spares
  <1>. QED BY <1>3, <1>9

(* A commit that is an operation of Outbox and writes what it may.          *)
LEMMA CommitKeeps ==
    ASSUME TxnInv, NEW p \in Procs, Next, End(p), NEW A, Writes(p, A)
    PROVE  TxnInv'
  <1>1. IInv'
    BY StepInv DEF TxnInv
  <1>2. RowsStay
    BY DEF Writes, RowsStay, Stored, KeyOf
  <1>3. ClaimsStored'
    <2>1. \A c \in claims' : c.row \in RowId /\ Stored(c.row)
      BY DEF TxnInv, IInv, TypeOK, Claimed, ClaimsStored, Writes
    <2>. QED BY <1>2, <2>1 DEF ClaimsStored, RowsStay
  <1>4. /\ seq_last' = seq_last
        /\ txn' = [txn EXCEPT ![p] = NoTxn] /\ locks' = [locks EXCEPT ![p] = {}]
    BY DEF End
  <1>5. NoTxn.claim = NoClaim /\ NoTxn.op = "none" /\ NoTxn.seq = 0
    BY DEF NoTxn
  <1>6. SeqsBounded'
    <2>1. \A q \in Procs : txn'[q].seq \in {0, txn[q].seq}
      BY <1>4, <1>5 DEF TxnInv
    <2>2. \A u \in RowId : outbox'[u].seq <= seq_last
      BY DEF TxnInv, SeqsBounded, Writes
    <2>3. seq_last \in 0..MaxSeq /\ \A q \in Procs : txn[q].seq \in 0..seq_last
      BY DEF TxnInv, SeqsBounded
    <2>4. \A q \in Procs : txn'[q].seq \in 0..seq_last
      BY <2>1, <2>3, BoundAssumption
    <2>. QED BY <1>4, <2>2, <2>3, <2>4 DEF SeqsBounded
  <1>7. ASSUME NEW q \in Procs \ {p} PROVE Spares(txn[q], locks[q])
    <2>1. PICK u : u = txn[q]
      OBVIOUS
    <2>2. PICK M : M = locks[q]
      OBVIOUS
    <2>3. Spares(u, M)
      BY <2>1, <2>2, WritesSpare
    <2>. QED BY <2>1, <2>2, <2>3
  <1>8. TxnSound(NoTxn, {})'
    BY IdleSound
  <1>. QED BY <1>1, <1>2, <1>3, <1>4, <1>5, <1>6, <1>7, <1>8, OneTxn

(* What a transaction that is done has locked and decided.                  *)
LEMMA DoneFacts ==
    ASSUME TxnInv, NEW p \in Procs, NEW op \in Operations \ {"none", "claim"}, Done(p, op),
           NEW t, t = txn[p]
    PROVE  /\ TxnSound(t, locks[p]) /\ Aimed(t) /\ t.op = op /\ t.row \in RowId
           /\ op # "prepare" /\ op \notin {"retry", "halt", "release"} => KeyLock(t.key) \in locks[p]
           /\ RowLock(t.row) \in locks[p]
           /\ t.next # NoRow => RowLock(t.next) \in locks[p]
           /\ op \in Leased => Held(t.claim) /\ t.claim \in claims /\ t.row = t.claim.row
           /\ op = "accept" => Past(t, "insert")
           /\ op = "replay" => Past(t, "replay") /\ Past(t, "records")
           /\ op = "deliver" => Past(t, "records")
           /\ op \in {"deliver", "dead", "abandon"} => Past(t, "promote")
           /\ op \in Leased => Past(t, "update")
  <1>1. /\ TxnSound(t, locks[p]) /\ Aimed(t) /\ t.op = op
        /\ t.op # "none" /\ t.pc > Len(Program(t.op))
    BY DEF TxnInv, TxnSound, Done
  <1>2. /\ t.op \in {"accept", "replay", "deliver", "dead", "abandon"} => Past(t, "lock")
        /\ t.op = "accept" => Past(t, "insert")
        /\ t.op = "replay" => Past(t, "replay") /\ Past(t, "records")
        /\ t.op \in Leased => Past(t, "update")
        /\ t.op = "deliver" => Past(t, "records")
        /\ t.op \in {"deliver", "dead", "abandon"} => Past(t, "promote")
    BY <1>1, AtEnd
  <1>3. /\ t.op \in Leased \cup {"accept", "replay"} => t.row \in RowId
        /\ t.op \in Leased => t.claim \in claims /\ t.row = t.claim.row
    BY <1>1, RowOf DEF TxnInv, IInv
  <1>4. \A l : l \in locks[p] <=> \/ l = KeyLock(t.key) /\ Past(t, "lock")
                                  \/ l = RowLock(t.row) /\ LocksRow(t)
                                  \/ l \in RecordLocks(t.row, t.recs) /\ Past(t, "records")
                                  \/ l = RowLock(t.next) /\ t.next # NoRow
    <2>1. locks[p] = HeldLocks(t)
      BY <1>1 DEF TxnSound
    <2>. QED BY <2>1, HeldIn
  <1>5. LocksRow(t) /\ t.row \in RowId
    BY <1>1, <1>2, <1>3 DEF LocksRow, Operations
  <1>6. Past(t, "update") => Held(t.claim)
    BY <1>1 DEF TxnSound, RowDecided
  <1>7. op # "prepare" /\ op \notin {"retry", "halt", "release"} => Past(t, "lock")
    BY <1>1, <1>2 DEF Operations, Leased
  <1>. QED BY <1>1, <1>2, <1>3, <1>4, <1>5, <1>6, <1>7

(* The row a transaction accepted is the one Accept stores.                 *)
LEMMA CommitAcceptInv ==
    ASSUME TxnInv, NEW p \in Procs, CommitAccept(p)
    PROVE  Next /\ TxnInv'
  <1>1. PICK t : t = txn[p]
    OBVIOUS
  <1>2. /\ Done(p, "accept") /\ End(p) /\ UNCHANGED <<outbox_record, claims>>
        /\ outbox' = [outbox EXCEPT ![t.row] = NewRow(t.key[2], t.seq, t.head)]
    BY <1>1 DEF CommitAccept
  <1>3. /\ TxnSound(t, locks[p]) /\ Aimed(t) /\ t.op = "accept" /\ t.row \in RowId
        /\ KeyLock(t.key) \in locks[p] /\ RowLock(t.row) \in locks[p] /\ Past(t, "insert")
    BY <1>1, <1>2, DoneFacts DEF Operations, Leased
  <1>4. PICK u \in Tenants, d \in Deliveries, k \in OrderingKeys : t.row = <<u, d>> /\ t.key = <<u, k>>
    BY <1>3 DEF Aimed
  <1>5. /\ outbox[t.row].state = "absent" /\ t.seq \in 1..MaxSeq /\ NextSeq(t.key, t.seq)
        /\ t.head = KeyIsIdle(t.key)
    BY <1>3 DEF TxnSound, RowDecided, KeyDecided, Queued
  <1>6. Accept(u, d, k)
    <2>1. t.key[2] = k
      BY <1>4
    <2>2. outbox' = [outbox EXCEPT ![<<u, d>>] = NewRow(k, t.seq, KeyIsIdle(<<u, k>>))]
      BY <1>2, <1>4, <1>5, <2>1
    <2>3. NextSeq(<<u, k>>, t.seq) /\ outbox[<<u, d>>].state = "absent"
      BY <1>4, <1>5
    <2>. QED BY <1>2, <1>5, <2>2, <2>3 DEF Accept
  <1>7. outbox'[t.row] = NewRow(k, t.seq, t.head)
        /\ \A s \in RowId \ {t.row} : outbox'[s] = outbox[s]
    BY <1>2, <1>3, <1>4 DEF TxnInv, IInv, TypeOK
  <1>8. /\ KeyOf(t.row)' = t.key /\ outbox'[t.row].seq = t.seq
        /\ outbox'[t.row].lease_token = NoToken
    <2>1. /\ outbox'[t.row].ordering_key = k /\ outbox'[t.row].seq = t.seq
          /\ outbox'[t.row].lease_token = NoToken
      <3>1. PICK w : w = outbox'[t.row]
        OBVIOUS
      <3>2. PICK n : n = t.seq
        OBVIOUS
      <3>3. PICK h \in BOOLEAN : h = t.head
        BY <1>5 DEF KeyIsIdle
      <3>4. w = NewRow(k, n, h)
        BY <1>7, <3>1, <3>2, <3>3
      <3>5. w.ordering_key = k /\ w.seq = n /\ w.lease_token = NoToken
        BY <3>4 DEF NewRow
      <3>. QED BY <3>1, <3>2, <3>5
    <2>2. t.row[1] = u
      BY <1>4
    <2>. QED BY <1>4, <2>1, <2>2 DEF KeyOf
  <1>9. t.seq <= seq_last
    BY <1>1, BoundAssumption DEF TxnInv, SeqsBounded
  <1>10. \A c \in claims : c.row # t.row
    BY <1>5 DEF TxnInv, ClaimsStored, Stored
  <1>11. Writes(p, {t.row})
    BY <1>2, <1>3, <1>5, <1>7, <1>8, <1>9, <1>10 DEF Writes, Stored
  <1>. QED BY <1>2, <1>6, <1>11, CommitKeeps DEF Next

(* A replay puts the row where Replay does, with the records it found dead. *)
LEMMA CommitReplayInv ==
    ASSUME TxnInv, NEW p \in Procs, CommitReplay(p)
    PROVE  Next /\ TxnInv'
  <1>1. PICK t : t = txn[p]
    OBVIOUS
  <1>2. /\ Done(p, "replay") /\ End(p) /\ UNCHANGED claims
        /\ outbox' = [outbox EXCEPT ![t.row] =
              [@ EXCEPT !.seq = t.seq, !.is_head = t.head, !.state = ReplayState(outbox[t.row]),
                        !.attempts = 0, !.due = TRUE, !.dead_reason = ""]]
        /\ outbox_record' = [outbox_record EXCEPT ![t.row] =
              [x \in Records |-> IF x \in t.recs THEN "prepared" ELSE @[x]]]
    BY <1>1 DEF CommitReplay
  <1>3. /\ TxnSound(t, locks[p]) /\ Aimed(t) /\ t.op = "replay" /\ t.row \in RowId
        /\ KeyLock(t.key) \in locks[p] /\ RowLock(t.row) \in locks[p]
        /\ Past(t, "replay") /\ Past(t, "records")
    BY <1>1, <1>2, DoneFacts DEF Operations, Leased
  <1>4. /\ Replayable(t.row) /\ t.seq \in 1..MaxSeq /\ NextSeq(t.key, t.seq)
        /\ t.head = KeyIsIdle(t.key) /\ t.recs = DeadRecords(t.row)
        /\ t.row[1] \in Tenants /\ Stored(t.row) /\ t.key = KeyOf(t.row)
    BY <1>3 DEF TxnSound, RowDecided, KeyDecided, Queued, Aimed
  <1>5. TypeOK
    BY DEF TxnInv, IInv
  <1>6. [x \in Records |-> IF x \in t.recs THEN "prepared" ELSE outbox_record[t.row][x]]
            = Revived(outbox_record[t.row])
    BY <1>4 DEF Revived, DeadRecords
  <1>7. Replay(t.row)
    BY <1>2, <1>4, <1>5, <1>6 DEF Replay, TypeOK
  <1>8. /\ outbox[t.row] \in Row
        /\ outbox'[t.row] = [outbox[t.row] EXCEPT
              !.seq = t.seq, !.is_head = t.head, !.state = ReplayState(outbox[t.row]),
              !.attempts = 0, !.due = TRUE, !.dead_reason = ""]
        /\ \A s \in RowId \ {t.row} :
              outbox'[s] = outbox[s] /\ outbox_record'[s] = outbox_record[s]
    BY <1>2, <1>3, <1>5 DEF TypeOK
  <1>9. /\ outbox'[t.row].seq = t.seq /\ outbox'[t.row].state # "absent"
        /\ outbox'[t.row].lease_token = outbox[t.row].lease_token
        /\ outbox'[t.row].ordering_key = outbox[t.row].ordering_key
        /\ outbox'[t.row].prepared_at = outbox[t.row].prepared_at
    BY <1>8 DEF Row, ReplayState
  <1>10. t.seq <= seq_last
    BY <1>1, BoundAssumption DEF TxnInv, SeqsBounded
  <1>11. outbox[t.row].lease_token = NoToken
    BY <1>3, <1>4 DEF TxnInv, IInv, RowConsistent, QueueInv, HeadIsUnfinished, IsUnfinished,
                      Unfinished, Replayable
  <1>12. \A c \in claims : outbox'[t.row].lease_token # c.token
    BY <1>5, <1>9, <1>11, TokenAssumption DEF TypeOK, Claimed
  <1>13. Writes(p, {t.row})
    BY <1>2, <1>3, <1>4, <1>8, <1>9, <1>10, <1>12 DEF Writes, Stored, KeyOf
  <1>. QED BY <1>2, <1>3, <1>7, <1>13, CommitKeeps DEF Next

(* The row that moves up is the one Finish promotes.                        *)
LEMMA FinishingInv ==
    ASSUME TxnInv, NEW p \in Procs, NEW op \in {"deliver", "dead", "abandon"}, Done(p, op),
           NEW t, t = txn[p], NEW st \in {"delivered", "dead"}, NEW why, NEW err,
           Finishing(p, FinishedRow(t.row, st, why, err)), claims' = claims,
           \A s \in RowId \ {t.row} : outbox_record'[s] = outbox_record[s]
    PROVE  /\ Finish(t.row, FinishedRow(t.row, st, why, err))
           /\ \E A : Writes(p, A)
  <1>. DEFINE done == FinishedRow(t.row, st, why, err)
  <1>1. TypeOK /\ IInv
    BY DEF TxnInv, IInv
  <1>2. /\ TxnSound(t, locks[p]) /\ Aimed(t) /\ t.op = op /\ t.row \in RowId
        /\ KeyLock(t.key) \in locks[p] /\ RowLock(t.row) \in locks[p]
        /\ t.next # NoRow => RowLock(t.next) \in locks[p]
        /\ Held(t.claim) /\ t.claim \in claims /\ t.row = t.claim.row /\ Past(t, "promote")
    BY DoneFacts DEF Operations, Leased
  <1>3. t.next \in Successor(t.row) \/ (t.next = NoRow /\ Successor(t.row) = {})
    BY <1>2 DEF TxnSound, KeyDecided
  <1>4. \A s \in RowId : NextHead(t.row, s) <=> s = t.next
    <2>1. CASE t.next \in Successor(t.row)
      <3>1. Successor(t.row) = {t.next}
        BY <1>1, <2>1, OneSuccessor
      <3>. QED BY <3>1 DEF Successor
    <2>2. CASE t.next = NoRow /\ Successor(t.row) = {}
      BY <2>2, NoneAssumption DEF Successor
    <2>. QED BY <1>3, <2>1, <2>2
  <1>5. outbox' = [s \in RowId |->
           IF s = t.row THEN done
           ELSE IF s = t.next THEN [outbox[s] EXCEPT !.is_head = TRUE]
           ELSE outbox[s]]
    BY DEF Finishing
  <1>6. Finish(t.row, done)
    <2>1. outbox' = [s \in RowId |->
             IF s = t.row THEN done
             ELSE IF NextHead(t.row, s) THEN [outbox[s] EXCEPT !.is_head = TRUE]
             ELSE outbox[s]]
      BY <1>4, <1>5
    <2>. QED BY <2>1 DEF Finish
  <1>. DEFINE A == {t.row} \cup {s \in RowId \ {t.row} : s = t.next}
  <1>7. /\ outbox'[t.row].state = st /\ outbox'[t.row].lease_token = NoToken
        /\ outbox'[t.row].ordering_key = outbox[t.row].ordering_key
        /\ outbox'[t.row].seq = outbox[t.row].seq
        /\ outbox'[t.row].prepared_at = outbox[t.row].prepared_at
    <2>1. outbox'[t.row] = done /\ outbox[t.row] \in Row
      BY <1>1, <1>2, <1>5 DEF TypeOK
    <2>. QED BY <2>1 DEF FinishedRow, Row
  <1>8. ASSUME NEW s \in RowId, s # t.row
        PROVE  /\ outbox'[s].state = outbox[s].state
               /\ outbox'[s].lease_token = outbox[s].lease_token
               /\ outbox'[s].ordering_key = outbox[s].ordering_key
               /\ outbox'[s].seq = outbox[s].seq
               /\ outbox'[s].prepared_at = outbox[s].prepared_at
               /\ s # t.next => outbox'[s] = outbox[s]
    <2>1. outbox'[s] = IF s = t.next THEN [outbox[s] EXCEPT !.is_head = TRUE] ELSE outbox[s]
      BY <1>5, <1>8
    <2>2. outbox[s] \in Row
      BY <1>1 DEF TypeOK
    <2>. QED BY <2>1, <2>2 DEF Row
  <1>9. ASSUME NEW s \in RowId, s = t.next, s # t.row
        PROVE  RowLock(s) \in locks[p] /\ Stored(s)
    <2>1. NextHead(t.row, s) /\ s # NoRow
      BY <1>4, <1>9, NoneAssumption
    <2>. QED BY <1>2, <1>9, <2>1 DEF NextHead, SameKey
  <1>10. \A s \in RowId : outbox[s].seq <= seq_last
    BY DEF TxnInv, SeqsBounded
  <1>11. \A c \in claims : c.row = t.row => outbox'[c.row].lease_token # c.token
    BY <1>1, <1>7, TokenAssumption DEF TypeOK, Claimed
  <1>12. \A c \in claims : /\ c.row \in RowId
                           /\ outbox[c.row].lease_token = c.token => IsUnfinished(c.row)
    BY <1>1 DEF IInv, TypeOK, Claimed, ClaimIsCurrent
  <1>13. t.key = KeyOf(t.row) /\ Stored(t.row)
    BY <1>2 DEF Aimed, Leased
  <1>14. \A c \in claims : c.row \in A => outbox'[c.row].lease_token # c.token
    \* the row that moves up has no lease: the head of its key is the one that finishes
    <2>. SUFFICES ASSUME NEW c \in claims, c.row = t.next, c.row # t.row, c.row \in RowId,
                         outbox'[c.row].lease_token = c.token
                  PROVE  FALSE
      BY <1>11
    <2>1. SameKey(t.row, c.row)
      BY <1>4 DEF NextHead
    <2>2. outbox[c.row].lease_token # NoToken /\ outbox[t.row].lease_token # NoToken
      BY <1>1, <1>2, <1>8, TokenAssumption DEF TypeOK, Claimed, Held
    <2>3. outbox[c.row].is_head /\ outbox[t.row].is_head
      BY <1>1, <1>2, <2>2 DEF IInv, RowConsistent
    <2>. QED BY <1>1, <1>2, <2>1, <2>3 DEF IInv, QueueInv, OneHead
  <1>15. Writes(p, A)
    <2>1. \A u \in A : u \in RowId /\ RowLock(u) \in locks[p]
      BY <1>2, <1>9
    <2>2. \A u \in RowId \ A : outbox'[u] = outbox[u] /\ outbox_record'[u] = outbox_record[u]
      BY <1>8
    <2>3. ASSUME NEW u \in A, u # t.row
          PROVE  /\ Stored(u) /\ Stored(u)' /\ KeyOf(u)' = KeyOf(u)
                 /\ outbox[u].prepared_at => outbox'[u].prepared_at
                 /\ outbox'[u].seq = outbox[u].seq
                 /\ IsUnfinished(u)' <=> IsUnfinished(u)
                 /\ outbox'[u].lease_token = outbox[u].lease_token
      BY <1>8, <1>9, <2>3 DEF Stored, KeyOf, IsUnfinished
    <2>4. /\ Stored(t.row)' /\ KeyOf(t.row)' = KeyOf(t.row)
          /\ outbox[t.row].prepared_at => outbox'[t.row].prepared_at
          /\ KeyLock(KeyOf(t.row)') \in locks[p]
          /\ outbox'[t.row].seq = outbox[t.row].seq
      BY <1>2, <1>7, <1>13 DEF Stored, KeyOf
    <2>5. ASSUME NEW u \in A
          PROVE  /\ Stored(u) => /\ Stored(u)' /\ KeyOf(u)' = KeyOf(u)
                                 /\ outbox[u].prepared_at => outbox'[u].prepared_at
                 /\ \/ KeyLock(KeyOf(u)') \in locks[p]
                    \/ /\ Stored(u) /\ outbox'[u].seq = outbox[u].seq
                       /\ IsUnfinished(u)' <=> IsUnfinished(u)
                 /\ outbox'[u].seq <= seq_last
                 /\ outbox'[u].lease_token \in {outbox[u].lease_token, NoToken}
      <3>1. CASE u = t.row
        BY <1>2, <1>7, <1>10, <2>4, <3>1
      <3>2. CASE u # t.row
        BY <1>10, <2>1, <2>3, <3>2
      <3>. QED BY <3>1, <3>2
    <2>6. claims \subseteq claims' /\ claims' \ claims = {}
      OBVIOUS
    <2>. HIDE DEF A
    <2>. QED BY <1>14, <2>1, <2>2, <2>5, <2>6 DEF Writes
  <1>. QED BY <1>6, <1>15

(* MarkDelivered.                                                           *)
LEMMA CommitDeliveredInv ==
    ASSUME TxnInv, NEW p \in Procs, CommitDelivered(p)
    PROVE  Next /\ TxnInv'
  <1>1. PICK t : t = txn[p]
    OBVIOUS
  <1>2. /\ Done(p, "deliver") /\ End(p) /\ UNCHANGED claims
        /\ Finishing(p, FinishedRow(t.row, "delivered", outbox[t.row].dead_reason, ""))
        /\ outbox_record' = [outbox_record EXCEPT ![t.row] =
              [x \in Records |-> IF x \in t.set THEN "dead"
                                 ELSE IF x \in t.recs THEN "delivered" ELSE @[x]]]
    BY <1>1 DEF CommitDelivered
  <1>3. /\ TxnSound(t, locks[p]) /\ Aimed(t) /\ t.op = "deliver" /\ t.row \in RowId
        /\ Held(t.claim) /\ t.claim \in claims /\ t.row = t.claim.row
        /\ Past(t, "records") /\ Past(t, "update")
    BY <1>1, <1>2, DoneFacts DEF Operations, Leased
  <1>4. /\ Finish(t.row, FinishedRow(t.row, "delivered", outbox[t.row].dead_reason, ""))
        /\ \E A : Writes(p, A)
    <2>1. \A s \in RowId \ {t.row} : outbox_record'[s] = outbox_record[s]
      BY <1>2 DEF TxnInv, IInv, TypeOK
    <2>2. PICK why : why = outbox[t.row].dead_reason
      OBVIOUS
    <2>3. Finishing(p, FinishedRow(t.row, "delivered", why, ""))
      BY <1>2, <2>2
    <2>4. /\ Finish(t.row, FinishedRow(t.row, "delivered", why, ""))
          /\ \E A : Writes(p, A)
      BY <1>1, <1>2, <2>1, <2>3, FinishingInv
    <2>. QED BY <2>2, <2>4
  <1>5. t.recs = Waiting(t.row) /\ t.set \subseteq t.recs /\ t.set \subseteq Records
    BY <1>3 DEF TxnSound, RowDecided, Held, Aimed
  <1>6. [x \in Records |-> IF x \in t.set THEN "dead"
                           ELSE IF x \in t.recs THEN "delivered" ELSE outbox_record[t.row][x]]
            = Answered(outbox_record[t.row], t.set)
    BY <1>5 DEF Answered, Waiting
  <1>7. outbox_record' = [outbox_record EXCEPT ![t.claim.row] = Answered(@, t.set)]
    BY <1>2, <1>3, <1>6
  <1>8. MarkDelivered(t.claim, t.set)
    BY <1>2, <1>3, <1>4, <1>5, <1>7 DEF MarkDelivered
  <1>. QED BY <1>2, <1>3, <1>4, <1>5, <1>8, CommitKeeps DEF Next, Transition

(* markDead, for its three callers.                                         *)
LEMMA CommitDeadInv ==
    ASSUME TxnInv, NEW p \in Procs, CommitDead(p)
    PROVE  Next /\ TxnInv'
  <1>1. PICK t : t = txn[p]
    OBVIOUS
  <1>2. End(p) /\ claims' = claims /\ outbox_record' = outbox_record
    BY DEF CommitDead
  <1>3. ASSUME NEW op \in {"dead", "abandon"}, Done(p, op), NEW why, NEW err,
               Finishing(p, FinishedRow(t.row, "dead", why, err))
        PROVE  /\ t.claim \in claims /\ ParkDead(t.claim, why, err)
               /\ \E A : Writes(p, A)
    <2>1. Held(t.claim) /\ t.claim \in claims /\ t.row = t.claim.row
      BY <1>1, <1>3, DoneFacts DEF Operations, Leased
    <2>2. /\ Finish(t.row, FinishedRow(t.row, "dead", why, err))
          /\ \E A : Writes(p, A)
      BY <1>1, <1>2, <1>3, FinishingInv
    <2>. QED BY <1>2, <2>1, <2>2 DEF ParkDead
  <1>4. CASE /\ Done(p, "dead")
             /\ \E why \in {"not retryable", "retries exhausted"} :
                   /\ why = "retries exhausted" => ~LadderHasNext(t.claim.attempt)
                   /\ Finishing(p, FinishedRow(t.row, "dead", why, "reported"))
    <2>1. PICK why \in {"not retryable", "retries exhausted"} :
             /\ why = "retries exhausted" => ~LadderHasNext(t.claim.attempt)
             /\ Finishing(p, FinishedRow(t.row, "dead", why, "reported"))
      BY <1>4
    <2>2. t.claim \in claims /\ ParkDead(t.claim, why, "reported") /\ \E A : Writes(p, A)
      BY <1>3, <1>4, <2>1
    <2>3. Transition(t.claim)
      BY <2>1, <2>2 DEF Transition, Fail, MarkDead
    <2>. QED BY <1>2, <2>2, <2>3, CommitKeeps DEF Next
  <1>5. CASE Done(p, "abandon") /\ Finishing(p, FinishedRow(t.row, "dead", "abandoned", "worker lost"))
    <2>1. /\ t.claim \in claims /\ ParkDead(t.claim, "abandoned", "worker lost")
          /\ \E A : Writes(p, A)
      BY <1>3, <1>5
    <2>2. Transition(t.claim)
      BY <2>1 DEF Transition, MarkAbandoned
    <2>. QED BY <1>2, <2>1, <2>2, CommitKeeps DEF Next
  <1>. QED BY <1>1, <1>4, <1>5 DEF CommitDead

(* Two claims of one row under the token it has are the same.               *)
LEMMA OwnToken ==
    ASSUME IInv, NEW c \in claims, NEW d \in claims, c.row = d.row,
           outbox[c.row].lease_token = c.token, outbox[d.row].lease_token = d.token
    PROVE  c = d
  <1>1. c.attempt = d.attempt /\ c.token = d.token
    BY DEF IInv, ClaimIsCurrent
  <1>2. c \in Claimed /\ d \in Claimed
    BY DEF IInv, TypeOK
  <1>. QED BY <1>1, <1>2 DEF Claimed

(* PrepareIn, and the transitions that give the row back.                   *)
LEMMA CommitLocalInv ==
    ASSUME TxnInv, NEW p \in Procs, CommitLocal(p)
    PROVE  Next /\ TxnInv'
  <1>1. PICK t : t = txn[p]
    OBVIOUS
  <1>2. PICK c : c = t.claim
    OBVIOUS
  <1>3. End(p) /\ TypeOK /\ IInv
    BY DEF CommitLocal, TxnInv, IInv
  <1>4. PICK op \in {"prepare", "retry", "halt", "release"} :
           /\ Done(p, op)
           /\ op = "prepare" => PrepareIn(c, t.set)
           /\ op = "retry" => Retry(c)
           /\ op = "halt" => Halt(c)
           /\ op = "release" => Release(c)
    BY <1>1, <1>2 DEF CommitLocal
  <1>5. /\ TxnSound(t, locks[p]) /\ Aimed(t) /\ t.op = op /\ t.row \in RowId
        /\ RowLock(t.row) \in locks[p] /\ Held(c) /\ c \in claims /\ t.row = c.row
    BY <1>1, <1>2, <1>4, DoneFacts DEF Operations, Leased
  <1>6. Transition(c)
    <2>1. op = "prepare" => t.set \subseteq Records
      BY <1>5 DEF Aimed
    <2>2. op = "retry" => LadderHasNext(c.attempt)
      BY <1>2, <1>5 DEF Aimed
    <2>. QED BY <1>4, <2>1, <2>2 DEF Transition, Fail
  <1>7. /\ claims' = claims /\ \A s \in RowId \ {t.row} :
              outbox'[s] = outbox[s] /\ outbox_record'[s] = outbox_record[s]
    BY <1>3, <1>4, <1>5 DEF PrepareIn, Retry, Halt, Release, TypeOK
  <1>8. PICK w : w = outbox[t.row]
    OBVIOUS
  <1>9. PICK v : v = outbox'[t.row]
    OBVIOUS
  <1>10. w \in Row /\ w.state \in Unfinished
    BY <1>3, <1>5, <1>8 DEF TypeOK, Held, IsUnfinished
  <1>11. /\ v.ordering_key = w.ordering_key /\ v.seq = w.seq /\ v.state \in Unfinished
         /\ w.prepared_at => v.prepared_at
         /\ IF op = "prepare" THEN v.lease_token = w.lease_token ELSE v.lease_token = NoToken
    <2>1. CASE op = "prepare"
      <3>1. v = [w EXCEPT !.state = "prepared", !.prepared_at = TRUE]
        BY <1>3, <1>4, <1>5, <1>8, <1>9, <2>1 DEF PrepareIn, TypeOK
      <3>. QED BY <1>10, <2>1, <3>1 DEF Row, Unfinished
    <2>2. CASE op = "retry"
      <3>1. v = [w EXCEPT !.lease_token = NoToken, !.due = FALSE, !.last_error = "reported"]
        BY <1>3, <1>4, <1>5, <1>8, <1>9, <2>2 DEF Retry, TypeOK
      <3>. QED BY <1>10, <2>2, <3>1 DEF Row
    <2>3. CASE op = "halt"
      <3>1. v = [GiveAttemptBack(w) EXCEPT !.due = FALSE, !.last_error = "reported"]
        BY <1>3, <1>4, <1>5, <1>8, <1>9, <2>3 DEF Halt, TypeOK
      <3>. QED BY <1>10, <2>3, <3>1 DEF GiveAttemptBack, Row
    <2>4. CASE op = "release"
      <3>1. v = [GiveAttemptBack(w) EXCEPT !.due = TRUE]
        BY <1>3, <1>4, <1>5, <1>8, <1>9, <2>4 DEF Release, TypeOK
      <3>. QED BY <1>10, <2>4, <3>1 DEF GiveAttemptBack, Row
    <2>. QED BY <2>1, <2>2, <2>3, <2>4
  <1>12. /\ Stored(t.row) /\ Stored(t.row)' /\ KeyOf(t.row)' = KeyOf(t.row)
         /\ outbox[t.row].prepared_at => outbox'[t.row].prepared_at
         /\ outbox'[t.row].seq = outbox[t.row].seq /\ IsUnfinished(t.row) /\ IsUnfinished(t.row)'
         /\ outbox'[t.row].lease_token \in {outbox[t.row].lease_token, NoToken}
    BY <1>8, <1>9, <1>10, <1>11 DEF Stored, KeyOf, IsUnfinished, Unfinished
  <1>13. outbox[t.row].seq <= seq_last
    BY <1>5 DEF TxnInv, SeqsBounded
  <1>14. ASSUME NEW d \in claims, d.row = t.row, d # c
         PROVE  outbox'[d.row].lease_token # d.token
    <2>1. CASE op = "prepare"
      <3>1. outbox'[t.row].lease_token = outbox[t.row].lease_token
        BY <1>8, <1>9, <1>11, <2>1
      <3>. QED BY <1>3, <1>5, <1>14, <3>1, OwnToken DEF Held
    <2>2. CASE op # "prepare"
      BY <1>3, <1>9, <1>11, <1>14, <2>2, TokenAssumption DEF TypeOK, Claimed
    <2>. QED BY <2>1, <2>2
  <1>15. Writes(p, {t.row})
    BY <1>1, <1>2, <1>5, <1>7, <1>12, <1>13, <1>14 DEF Writes
  <1>. QED BY <1>3, <1>5, <1>6, <1>15, CommitKeeps DEF Next

(* Outbox.Claim.                                                            *)
LEMMA CommitClaimInv ==
    ASSUME TxnInv, NEW p \in Procs, CommitClaim(p)
    PROVE  Next /\ TxnInv'
  <1>1. PICK t : t = txn[p]
    OBVIOUS
  <1>2. PICK S : S = Taken(p)
    OBVIOUS
  <1>3. /\ AtStatement(p, "take") /\ S # {} /\ End(p) /\ UNCHANGED outbox_record
        /\ outbox' = [r \in RowId |->
              IF r \in S
              THEN [outbox[r] EXCEPT !.lease_token = t.tok, !.due = FALSE,
                                     !.attempts = AttemptOf(outbox[r])]
              ELSE outbox[r]]
        /\ claims' = claims \cup {[row |-> r, attempt |-> AttemptOf(outbox[r]),
                                   token |-> t.tok] : r \in S}
    BY <1>1, <1>2 DEF CommitClaim
  <1>4. TypeOK /\ IInv
    BY DEF TxnInv, IInv
  <1>5. TxnSound(t, locks[p]) /\ t.op = "claim"
    <2>1. /\ TxnSound(t, locks[p]) /\ Aimed(t)
          /\ t.op # "none" /\ t.pc <= Len(Program(t.op)) /\ "take" = Program(t.op)[t.pc]
      BY <1>1, <1>3 DEF TxnInv, TxnSound, AtStatement, Open, Statement
    <2>. QED BY <2>1, AtPlace
  <1>6. S = TakenIn(locks[p]) /\ S \subseteq RowId /\ \A r \in S : RowLock(r) \in locks[p]
    BY <1>2 DEF Taken, TakenIn
  <1>7. /\ Cardinality(S) <= Batch /\ t.tok \in Tokens /\ t.tok \notin UsedTokens
        /\ \A r \in S : DueHead(r) /\ outbox[r].attempts < MaxAttempts
    BY <1>5, <1>6 DEF TxnSound, ClaimSound
  <1>8. Claim(S, t.tok)
    BY <1>3, <1>7 DEF Claim
  <1>9. ASSUME NEW u \in S
        PROVE  /\ Stored(u) /\ Stored(u)' /\ KeyOf(u)' = KeyOf(u)
               /\ outbox[u].prepared_at => outbox'[u].prepared_at
               /\ outbox'[u].seq = outbox[u].seq
               /\ IsUnfinished(u)' <=> IsUnfinished(u)
               /\ outbox'[u].lease_token = t.tok
    <2>1. PICK w : w = outbox[u]
      OBVIOUS
    <2>2. PICK v : v = outbox'[u]
      OBVIOUS
    <2>3. PICK n : n = AttemptOf(outbox[u])
      OBVIOUS
    <2>4. w \in Row /\ v = [w EXCEPT !.lease_token = t.tok, !.due = FALSE, !.attempts = n]
      BY <1>3, <1>4, <1>6, <2>1, <2>2, <2>3 DEF TypeOK
    <2>5. /\ v.lease_token = t.tok /\ v.state = w.state /\ v.ordering_key = w.ordering_key
          /\ v.seq = w.seq /\ v.prepared_at = w.prepared_at
      BY <2>4 DEF Row
    <2>6. Stored(u)
      BY <1>4, <1>6, <1>7 DEF DueHead, IInv, QueueInv, HeadIsUnfinished, IsUnfinished,
                              Unfinished, Stored
    <2>. QED BY <2>1, <2>2, <2>5, <2>6 DEF Stored, KeyOf, IsUnfinished
  <1>10. \A u \in RowId \ S : outbox'[u] = outbox[u] /\ outbox_record'[u] = outbox_record[u]
    BY <1>3
  <1>11. \A u \in RowId : outbox[u].seq <= seq_last
    BY DEF TxnInv, SeqsBounded
  <1>12. \A c \in claims : c.token # t.tok
    BY <1>7 DEF UsedTokens
  <1>13. \A c \in claims' \ claims : c.token = t.tok /\ c.row \in RowId /\ Stored(c.row)
    <2>1. ASSUME NEW c \in claims' \ claims
          PROVE  c.token = t.tok /\ c.row \in RowId /\ Stored(c.row)
      <3>1. PICK r \in S : c = [row |-> r, attempt |-> AttemptOf(outbox[r]), token |-> t.tok]
        BY <1>3
      <3>2. c.row = r /\ c.token = t.tok
        BY <3>1
      <3>. QED BY <1>6, <1>9, <3>2
    <2>. QED BY <2>1
  <1>14. Writes(p, S)
    <2>1. \A u \in S : u \in RowId /\ outbox'[u].seq <= seq_last
      BY <1>6, <1>9, <1>11
    <2>2. \A c \in claims : c.row \in S => outbox'[c.row].lease_token # c.token
      BY <1>9, <1>12
    <2>3. claims \subseteq claims'
      BY <1>3
    <2>. QED BY <1>1, <1>5, <1>6, <1>9, <1>10, <1>13, <2>1, <2>2, <2>3 DEF Writes
  <1>15. Next
    BY <1>6, <1>7, <1>8 DEF Next
  <1>. QED BY <1>3, <1>14, <1>15, CommitKeeps

(* What happens outside the transactions spares them.                       *)
LEMMA OutsideInv ==
    ASSUME TxnInv, Outside
    PROVE  Next /\ TxnInv'
  <1>1. txn' = txn /\ locks' = locks /\ seq_last' = seq_last
    BY DEF Outside, txnVars
  <1>2. TypeOK /\ IInv
    BY DEF TxnInv, IInv
  <1>3. \/ \E r \in RowId : Elapse(r)
        \/ \E c \in claims : Drop({c}) /\ \A p \in Procs : txn[p].claim # c
    BY DEF Outside
  <1>4. Next
    <2>1. CASE \E r \in RowId : Elapse(r)
      BY <2>1 DEF Next
    <2>2. CASE \E c \in claims : Drop({c}) /\ \A p \in Procs : txn[p].claim # c
      <3>1. PICK c \in claims : Drop({c})
        BY <2>2
      <3>2. {c} \in SUBSET claims
        OBVIOUS
      <3>. QED BY <3>1, <3>2 DEF Next
    <2>. QED BY <1>3, <2>1, <2>2
  <1>5. \A u \in RowId :
           /\ outbox'[u].state = outbox[u].state
           /\ outbox'[u].ordering_key = outbox[u].ordering_key
           /\ outbox'[u].seq = outbox[u].seq
           /\ outbox'[u].is_head = outbox[u].is_head
           /\ outbox'[u].attempts = outbox[u].attempts
           /\ outbox'[u].lease_token = outbox[u].lease_token
           /\ outbox'[u].prepared_at = outbox[u].prepared_at
           /\ outbox[u].due => outbox'[u].due
    <2>1. CASE \E r \in RowId : Elapse(r)
      <3>1. PICK r \in RowId : Elapse(r)
        BY <2>1
      <3>2. \A u \in RowId : outbox[u] \in Row
                /\ outbox'[u] = IF u = r THEN [outbox[r] EXCEPT !.due = TRUE] ELSE outbox[u]
        BY <1>2, <3>1 DEF Elapse, TypeOK
      <3>. QED BY <3>2 DEF Row
    <2>2. CASE outbox' = outbox
      BY <2>2
    <2>. QED BY <1>3, <2>1, <2>2 DEF Drop
  <1>6. /\ outbox_record' = outbox_record /\ claims' \subseteq claims
        /\ \A p \in Procs : txn[p].claim \in claims => txn[p].claim \in claims'
    BY <1>3 DEF Elapse, Drop
  <1>7. IInv'
    BY <1>2, <1>4, StepInv
  <1>8. RowsStay
    BY <1>5 DEF RowsStay, Stored, KeyOf
  <1>9. ClaimsStored'
    <2>1. \A c \in claims' : c.row \in RowId /\ Stored(c.row)
      BY <1>2, <1>6 DEF TxnInv, TypeOK, Claimed, ClaimsStored
    <2>. QED BY <1>8, <2>1 DEF ClaimsStored, RowsStay
  <1>10. SeqsBounded'
    BY <1>1, <1>5 DEF TxnInv, SeqsBounded
  <1>11. UsedTokens' \subseteq UsedTokens
    BY <1>5, <1>6 DEF UsedTokens
  <1>12. ASSUME NEW q \in Procs
         PROVE  TxnSound(txn[q], locks[q])'
    <2>1. PICK t : t = txn[q]
      OBVIOUS
    <2>2. PICK L : L = locks[q]
      OBVIOUS
    <2>3. TxnSound(t, L)
      BY <2>1, <2>2 DEF TxnInv
    <2>4. \A u \in RowId : RowStands(u)
      BY <1>5, <1>6 DEF RowStands
    <2>5. QueueStands(t.key)
      BY <1>5 DEF QueueStands, Stored, KeyOf, IsUnfinished
    <2>6. t.claim \in claims => t.claim.row \in RowId
      BY <1>2 DEF TypeOK, Claimed
    <2>7. t.op = "claim" => t.tok \notin UsedTokens'
      BY <1>11, <2>3 DEF TxnSound, ClaimSound
    <2>8. Spares(t, L)
      BY <1>5, <1>6, <2>1, <2>4, <2>5, <2>6, <2>7 DEF Spares
    <2>9. TxnSound(t, L)'
      BY <1>2, <1>8, <2>3, <2>8, SoundKept
    <2>. QED BY <1>1, <2>1, <2>2, <2>9
  <1>13. \A p, q \in Procs : p # q => Apart(p, q)'
    BY <1>1 DEF TxnInv, Apart
  <1>14. txn' = [p \in Procs |-> txn'[p]] /\ locks' = [p \in Procs |-> locks'[p]]
    BY <1>1 DEF TxnInv
  <1>. QED BY <1>4, <1>7, <1>9, <1>10, <1>12, <1>13, <1>14 DEF TxnInv

-----------------------------------------------------------------------------
(* The statements implement the operations *)

LEMMA TxnInitInv == TxnInit => Init /\ TxnInv
  <1>. SUFFICES ASSUME TxnInit PROVE Init /\ TxnInv
    OBVIOUS
  <1>1. Init /\ IInv
    BY InitInv DEF TxnInit
  <1>2. /\ \A p \in Procs : txn[p] = NoTxn /\ locks[p] = {}
        /\ txn = [p \in Procs |-> txn[p]] /\ locks = [p \in Procs |-> locks[p]]
    BY DEF TxnInit
  <1>3. NoTxn.claim = NoClaim /\ NoTxn.op = "none" /\ NoTxn.seq = 0
    BY DEF NoTxn
  <1>4. claims = {} /\ \A u \in RowId : outbox[u].seq = 0
    BY <1>1 DEF Init, AbsentRow, NewRow
  <1>5. ClaimsStored /\ SeqsBounded
    BY <1>2, <1>3, <1>4, BoundAssumption DEF TxnInit, ClaimsStored, SeqsBounded
  <1>6. \A p \in Procs : TxnSound(txn[p], locks[p])
    BY <1>2, IdleSound
  <1>7. \A p, q \in Procs : p # q => Apart(p, q)
    BY <1>2, <1>3 DEF Apart
  <1>. QED BY <1>1, <1>2, <1>5, <1>6, <1>7 DEF TxnInv

(* Every step shows one operation of Outbox, or nothing.                    *)
LEMMA TxnStepInv ==
    ASSUME TxnInv, [TxnNext]_allVars
    PROVE  (UNCHANGED vars \/ Next) /\ TxnInv'
  <1>1. CASE UNCHANGED allVars
    <2>1. UNCHANGED vars /\ txn' = txn /\ locks' = locks /\ seq_last' = seq_last
      BY <1>1 DEF allVars, txnVars
    <2>2. IInv'
      BY <2>1, StepInv DEF TxnInv
    <2>3. ClaimsStored' /\ SeqsBounded'
      BY <2>1 DEF TxnInv, ClaimsStored, SeqsBounded, vars, Stored
    <2>4. ASSUME NEW q \in Procs PROVE TxnSound(txn[q], locks[q])'
      <3>1. PICK t : t = txn[q]
        OBVIOUS
      <3>2. PICK L : L = locks[q]
        OBVIOUS
      <3>3. TxnSound(t, L)
        BY <3>1, <3>2 DEF TxnInv
      <3>4. TxnSound(t, L)'
        BY <2>1, <3>3, QuietSpares, SoundKept DEF TxnInv
      <3>. QED BY <2>1, <3>1, <3>2, <3>4
    <2>5. \A p, q \in Procs : p # q => Apart(p, q)'
      BY <2>1 DEF TxnInv, Apart
    <2>6. txn' = [p \in Procs |-> txn'[p]] /\ locks' = [p \in Procs |-> locks'[p]]
      BY <2>1 DEF TxnInv
    <2>. QED BY <2>1, <2>2, <2>3, <2>4, <2>5, <2>6 DEF TxnInv
  <1>2. CASE Outside
    BY <1>2, OutsideInv
  <1>3. ASSUME NEW p \in Procs, BeginAny(p) \/ Step(p) \/ Commit(p) \/ Rollback(p)
        PROVE  (UNCHANGED vars \/ Next) /\ TxnInv'
    <2>1. CASE BeginAny(p)
      BY <2>1, BeginInv
    <2>2. CASE Step(p)
      BY <2>2, StatementInv
    <2>3. CASE Commit(p)
      BY <2>3, CommitAcceptInv, CommitReplayInv, CommitDeliveredInv, CommitDeadInv,
         CommitLocalInv, CommitClaimInv DEF Commit
    <2>4. CASE Rollback(p)
      BY <2>4, RollbackInv
    <2>. QED BY <1>3, <2>1, <2>2, <2>3, <2>4
  <1>. QED BY <1>1, <1>2, <1>3 DEF TxnNext

(* The invariant of the transactions and their locks.                       *)
THEOREM TxnInductive == TxnSpec => []TxnInv
  <1>1. TxnInit => TxnInv
    BY TxnInitInv
  <1>2. TxnInv /\ [TxnNext]_allVars => TxnInv'
    BY TxnStepInv
  <1>. QED BY <1>1, <1>2, PTL DEF TxnSpec

(* Every commit of every interleaving is one atomic operation of Outbox, so *)
(* what is proved of Outbox holds of the statements the stores run.         *)
THEOREM StatementsImplementOperations == TxnSpec => ImplementsOutbox
  <1>1. TxnInit => Init
    BY TxnInitInv
  <1>2. TxnInv /\ [TxnNext]_allVars => [UNCHANGED vars \/ Next]_vars
    BY TxnStepInv
  <1>. QED BY <1>1, <1>2, TxnInductive, PTL DEF TxnSpec, ImplementsOutbox

-----------------------------------------------------------------------------
(* The head marker *)

(* Whoever is about to mark a row as a head holds the key's lock.           *)
LEMMA HeadsLocked ==
    ASSUME TxnInv, NEW q \in Procs, NEW u \in RowId, u \in HeadsOf(q)
    PROVE  KeyLock(txn[q].key) \in locks[q]
  <1>1. PICK t : t = txn[q]
    OBVIOUS
  <1>2. TxnSound(t, locks[q]) /\ Aimed(t)
    BY <1>1 DEF TxnInv, TxnSound
  <1>3. u # NoRow /\ (u = t.next \/ t.head)
    BY <1>1, NoneAssumption DEF HeadsOf
  <1>4. Past(t, "insert") \/ Past(t, "replay") \/ Past(t, "promote")
    BY <1>2, <1>3 DEF TxnSound, KeyDecided
  <1>5. Past(t, "lock") /\ t.op # "claim"
    BY <1>2, <1>4, InPast
  <1>6. locks[q] = HeldLocks(t)
    BY <1>2, <1>5 DEF TxnSound
  <1>7. KeyLock(t.key) \in locks[q]
    BY <1>5, <1>6, HeldIn
  <1>. QED BY <1>1, <1>7

(* A transaction that is past its first lock holds it.                      *)
LEMMA KeyLocked ==
    ASSUME TxnInv, NEW p \in Procs, NEW s \in {"insert", "replay", "promote"}, AtStatement(p, s)
    PROVE  /\ KeyLock(txn[p].key) \in locks[p]
           /\ s = "promote" => /\ Held(txn[p].claim) /\ txn[p].row = txn[p].claim.row
                               /\ txn[p].row \in RowId /\ txn[p].claim \in claims
                               /\ Stored(txn[p].row) /\ txn[p].key = KeyOf(txn[p].row)
  <1>1. PICK t : t = txn[p]
    OBVIOUS
  <1>2. /\ TxnSound(t, locks[p]) /\ Aimed(t)
        /\ t.op # "none" /\ t.pc <= Len(Program(t.op)) /\ s = Program(t.op)[t.pc]
    BY <1>1 DEF TxnInv, TxnSound, AtStatement, Open, Statement
  <1>3. /\ Past(t, "lock") /\ t.op # "claim"
        /\ s = "promote" => Past(t, "update") /\ t.op \in {"deliver", "dead", "abandon"}
    BY <1>2, AtPlace DEF Only, StatementNames
  <1>4. locks[p] = HeldLocks(t)
    BY <1>2, <1>3 DEF TxnSound
  <1>5. KeyLock(t.key) \in locks[p]
    BY <1>3, <1>4, HeldIn
  <1>6. ASSUME s = "promote"
        PROVE  /\ Held(t.claim) /\ t.row = t.claim.row /\ t.row \in RowId /\ t.claim \in claims
               /\ Stored(t.row) /\ t.key = KeyOf(t.row)
    <2>1. t.op \in Leased
      BY <1>3, <1>6 DEF Leased
    <2>2. t.row \in RowId /\ t.row = t.claim.row /\ t.claim \in claims
      BY <1>2, <2>1, RowOf DEF TxnInv, IInv
    <2>3. Held(t.claim)
      BY <1>2, <1>3, <1>6 DEF TxnSound, RowDecided
    <2>. QED BY <1>2, <2>1, <2>2, <2>3 DEF Aimed
  <1>. QED BY <1>1, <1>5, <1>6

(* No other transaction is about to mark a row of a key that p has locked.  *)
LEMMA NoRival ==
    ASSUME TxnInv, NEW p \in Procs, KeyLock(txn[p].key) \in locks[p], NEW u \in RowId,
           NEW q \in Procs, q # p
    PROVE  ~(u \in HeadsOf(q) /\ txn[q].key = txn[p].key)
  <1>. SUFFICES ASSUME u \in HeadsOf(q), txn[q].key = txn[p].key PROVE FALSE
    OBVIOUS
  <1>1. KeyLock(txn[q].key) \in locks[q]
    BY HeadsLocked
  <1>2. Apart(p, q)
    BY DEF TxnInv
  <1>. QED BY <1>1, <1>2 DEF Apart

(* A writer under the key's lock always finds the marker free.              *)
LEMMA InvMarker == TxnInv => MarkerIsFree
  <1>. SUFFICES ASSUME TxnInv, NEW p \in Procs
                PROVE  /\ (AtStatement(p, "insert") \/ AtStatement(p, "replay"))
                             /\ KeyIsIdle(txn[p].key)
                             => IndexAllows(p, txn[p].row, txn[p].key)
                       /\ AtStatement(p, "promote")
                             => \A s \in Successor(txn[p].row) : IndexAllows(p, s, txn[p].key)
    BY DEF MarkerIsFree
  <1>0. IInv
    BY DEF TxnInv
  <1>1. ASSUME AtStatement(p, "insert") \/ AtStatement(p, "replay"), KeyIsIdle(txn[p].key)
        PROVE  IndexAllows(p, txn[p].row, txn[p].key)
    <2>1. KeyLock(txn[p].key) \in locks[p]
      BY <1>1, KeyLocked
    <2>2. \A u \in RowId : ~(Stored(u) /\ KeyOf(u) = txn[p].key /\ outbox[u].is_head)
      BY <1>0, <1>1 DEF KeyIsIdle, IInv, QueueInv, HeadIsUnfinished
    <2>3. \A u \in RowId : \A q \in Procs \ {p} : ~(u \in HeadsOf(q) /\ txn[q].key = txn[p].key)
      BY <2>1, NoRival
    <2>. QED BY <2>2, <2>3 DEF IndexAllows
  <1>2. ASSUME AtStatement(p, "promote"), NEW s \in Successor(txn[p].row)
        PROVE  IndexAllows(p, s, txn[p].key)
    <2>1. KeyLock(txn[p].key) \in locks[p]
      BY <1>2, KeyLocked
    <2>2. /\ Held(txn[p].claim) /\ txn[p].row = txn[p].claim.row
          /\ txn[p].row \in RowId /\ txn[p].claim \in claims
          /\ Stored(txn[p].row) /\ txn[p].key = KeyOf(txn[p].row)
      BY <1>2, KeyLocked
    <2>3. outbox[txn[p].row].lease_token # NoToken
      BY <1>0, <2>2, TokenAssumption DEF IInv, TypeOK, Claimed, Held
    <2>4. outbox[txn[p].row].is_head
      BY <1>0, <2>2, <2>3 DEF IInv, RowConsistent
    <2>5. \A u \in RowId \ {txn[p].row} :
             ~(Stored(u) /\ KeyOf(u) = txn[p].key /\ outbox[u].is_head)
      BY <1>0, <2>2, <2>4 DEF IInv, QueueInv, OneHead, SameKey
    <2>6. \A u \in RowId : \A q \in Procs \ {p} : ~(u \in HeadsOf(q) /\ txn[q].key = txn[p].key)
      BY <2>1, NoRival
    <2>. QED BY <2>5, <2>6 DEF IndexAllows
  <1>. QED BY <1>1, <1>2

(* The unique index on heads never refuses a writer.                        *)
THEOREM IndexNeverRefuses == TxnSpec => []MarkerIsFree
  <1>1. TxnInv => MarkerIsFree
    BY InvMarker
  <1>. QED BY <1>1, TxnInductive, PTL

-----------------------------------------------------------------------------
(* Waiting *)

(* Locks of different kinds, keys or rows are different locks.              *)
LEMMA LockTags ==
    /\ \A k, j : KeyLock(k) = KeyLock(j) => k = j
    /\ \A u, v : RowLock(u) = RowLock(v) => u = v
    /\ \A k, u : KeyLock(k) # RowLock(u)
    /\ \A u, X, k, v : KeyLock(k) \notin RecordLocks(u, X) /\ RowLock(v) \notin RecordLocks(u, X)
    /\ \A u, X, v, Y, l : l \in RecordLocks(u, X) /\ l \in RecordLocks(v, Y) => u = v
  <1>1. \A k, j : KeyLock(k) = KeyLock(j) => k = j
    BY DEF KeyLock
  <1>2. \A u, v : RowLock(u) = RowLock(v) => u = v
    BY DEF RowLock
  <1>3. \A k, u : KeyLock(k) # RowLock(u)
    BY DEF KeyLock, RowLock
  <1>4. ASSUME NEW u, NEW X, NEW l \in RecordLocks(u, X)
        PROVE  l[1] = "record" /\ l[2] = u
    BY DEF RecordLocks
  <1>5. \A k : KeyLock(k)[1] = "key" /\ RowLock(k)[1] = "row"
    BY DEF KeyLock, RowLock
  <1>6. \A u, X, k, v : KeyLock(k) \notin RecordLocks(u, X) /\ RowLock(v) \notin RecordLocks(u, X)
    BY <1>4, <1>5
  <1>7. \A u, X, v, Y, l : l \in RecordLocks(u, X) /\ l \in RecordLocks(v, Y) => u = v
    BY <1>4
  <1>. QED BY <1>1, <1>2, <1>3, <1>6, <1>7

(* What a transaction that is no claim holds.                               *)
LEMMA Holds ==
    ASSUME TxnInv, NEW p \in Procs, NEW t, t = txn[p], t.op # "claim", NEW l
    PROVE  l \in locks[p] <=> \/ l = KeyLock(t.key) /\ Past(t, "lock")
                              \/ l = RowLock(t.row) /\ LocksRow(t)
                              \/ l \in RecordLocks(t.row, t.recs) /\ Past(t, "records")
                              \/ l = RowLock(t.next) /\ t.next # NoRow
  <1>1. locks[p] = HeldLocks(t)
    BY DEF TxnInv, TxnSound
  <1>. QED BY <1>1, HeldIn

(* A preparation never waits for the records it inserts: nobody writes the  *)
(* records of a row that is pending.                                        *)
LEMMA PrepareAlone ==
    ASSUME TxnInv, NEW q \in Procs, NEW s \in Procs, AtStatement(q, "records"),
           txn[q].op = "prepare"
    PROVE  ~WaitsFor(q, s)
  <1>. SUFFICES ASSUME WaitsFor(q, s) PROVE FALSE
    OBVIOUS
  <1>1. PICK t : t = txn[q]
    OBVIOUS
  <1>2. PICK v : v = txn[s]
    OBVIOUS
  <1>3. /\ TxnSound(t, locks[q]) /\ Aimed(t)
        /\ t.op # "none" /\ t.pc <= Len(Program(t.op)) /\ "records" = Program(t.op)[t.pc]
    BY <1>1 DEF TxnInv, TxnSound, AtStatement, Open, Statement
  <1>4. Past(t, "update")
    BY <1>1, <1>3, AtPlace DEF Only, StatementNames
  <1>5. /\ t.row \in RowId /\ outbox[t.row].state = "pending" /\ ~outbox[t.row].prepared_at
        /\ RowLock(t.row) \in locks[q]
    <2>1. t.row \in RowId
      BY <1>1, <1>3, RowOf DEF TxnInv, IInv, Leased
    <2>2. outbox[t.row].state = "pending"
      BY <1>1, <1>3, <1>4 DEF TxnSound, RowDecided
    <2>3. RowLock(t.row) \in locks[q]
      BY <1>1, <1>4, Holds DEF LocksRow
    <2>. QED BY <2>1, <2>2, <2>3 DEF TxnInv, IInv, RowConsistent
  <1>6. PICK l : l \in RecordLocks(t.row, RecordsWritten(q)) /\ l \in locks[s] /\ q # s
    BY <1>1, WantsAt DEF WaitsFor
  <1>7. TxnSound(v, locks[s]) /\ Aimed(v) /\ Apart(q, s)
    BY <1>2, <1>6 DEF TxnInv, TxnSound
  <1>8. v.op # "claim"
    BY <1>6, <1>7, LockTags DEF TxnSound, ClaimSound
  <1>9. Past(v, "records") /\ v.row = t.row /\ v.recs # {}
    <2>1. l \in RecordLocks(v.row, v.recs) /\ Past(v, "records")
      BY <1>2, <1>6, <1>8, Holds, LockTags
    <2>. QED BY <1>6, <2>1, LockTags DEF RecordLocks
  <1>10. v.op \in {"replay", "deliver", "prepare"}
    BY <1>7, <1>9, InPast
  <1>11. v.op \in {"replay", "prepare"} => RowLock(t.row) \in locks[s]
    <2>1. v.op \in {"replay", "prepare"} => LocksRow(v)
      BY <1>7, <1>9, InPast DEF LocksRow
    <2>. QED BY <1>2, <1>8, <1>9, <2>1, Holds
  <1>12. v.op = "deliver" => outbox[t.row].prepared_at
    BY <1>7, <1>9 DEF TxnSound, RowDecided
  <1>. QED BY <1>5, <1>7, <1>10, <1>11, <1>12 DEF Apart

(* A transaction that waits and holds anything holds its key first, and     *)
(* then only locks of rows of that key.                                     *)
LEMMA Waiter ==
    ASSUME TxnInv, NEW q \in Procs, NEW s \in Procs, WaitsFor(q, s), NEW t, t = txn[q],
           NEW l \in locks[q]
    PROVE  /\ KeyLock(t.key) \in locks[q] /\ ~AtStatement(q, "lock")
           /\ \/ l = KeyLock(t.key)
              \/ /\ t.row \in RowId /\ t.key = KeyOf(t.row) /\ Stored(t.row)
                 /\ \/ l = RowLock(t.row)
                    \/ \E X : l \in RecordLocks(t.row, X)
                 /\ ~AtStatement(q, "insert")
  <1>1. PICK x \in StatementNames : AtStatement(q, x)
    <2>1. Wants(q) # {}
      BY DEF WaitsFor
    <2>. QED BY <2>1 DEF Wants, StatementNames
  <1>2. /\ TxnSound(t, locks[q]) /\ Aimed(t)
        /\ t.op # "none" /\ t.pc <= Len(Program(t.op)) /\ x = Program(t.op)[t.pc]
    BY <1>1 DEF TxnInv, TxnSound, AtStatement, Open, Statement
  <1>3. ~(x = "records" /\ t.op = "prepare")
    BY <1>1, PrepareAlone
  <1>4. /\ t.op # "claim"
        /\ ~Past(t, "promote") /\ ~Past(t, "insert")
        /\ x = "lock" => ~LocksRow(t) /\ ~Past(t, "records") /\ ~Past(t, "lock")
        /\ x = "insert" => ~LocksRow(t) /\ ~Past(t, "records")
        /\ LocksRow(t) \/ Past(t, "records") =>
              Past(t, "lock") /\ t.op \in Leased \cup {"replay"}
    <2>1. CASE x \in {"lock", "insert", "replay"}
      BY <1>2, <2>1, AtPlace DEF Only, StatementNames, LocksRow, Leased
    <2>2. CASE x = "update"
      BY <1>2, <2>2, AtPlace DEF Only, StatementNames, LocksRow, Leased
    <2>3. CASE x = "records"
      BY <1>2, <1>3, <2>3, AtPlace DEF Only, StatementNames, LocksRow, Leased
    <2>4. CASE x = "promote"
      BY <1>2, <2>4, AtPlace DEF Only, StatementNames, LocksRow, Leased
    <2>. QED BY <2>1, <2>2, <2>3, <2>4 DEF StatementNames
  <1>5. t.next = NoRow
    BY <1>2, <1>4 DEF TxnSound, KeyDecided
  <1>6. \/ l = KeyLock(t.key) /\ Past(t, "lock")
        \/ l = RowLock(t.row) /\ LocksRow(t)
        \/ l \in RecordLocks(t.row, t.recs) /\ Past(t, "records")
    BY <1>4, <1>5, Holds
  <1>7. Past(t, "lock") /\ KeyLock(t.key) \in locks[q]
    BY <1>4, <1>6, Holds
  <1>8. x # "lock" /\ \A y : AtStatement(q, y) <=> y = x
    BY <1>1, <1>4, <1>7 DEF AtStatement
  <1>9. ASSUME l # KeyLock(t.key)
        PROVE  /\ t.row \in RowId /\ t.key = KeyOf(t.row) /\ Stored(t.row)
               /\ l = RowLock(t.row) \/ (\E X : l \in RecordLocks(t.row, X))
               /\ x # "insert"
    <2>1. t.op \in Leased \cup {"replay"}
      BY <1>4, <1>6, <1>9
    <2>2. t.row \in RowId
      BY <1>2, <2>1, RowOf DEF TxnInv, IInv
    <2>. QED BY <1>2, <1>4, <1>6, <1>9, <2>1, <2>2 DEF Aimed
  <1>. QED BY <1>7, <1>8, <1>9

(* A transaction that waits for one that waits has nothing but its key.     *)
LEMMA OnlyKey ==
    ASSUME TxnInv, NEW p \in Procs, NEW q \in Procs, NEW s \in Procs,
           WaitsFor(p, q), WaitsFor(q, s)
    PROVE  locks[p] \subseteq {KeyLock(txn[p].key)}
  <1>1. PICK t : t = txn[p]
    OBVIOUS
  <1>2. PICK v : v = txn[q]
    OBVIOUS
  <1>. SUFFICES ASSUME NEW l \in locks[p], l # KeyLock(t.key) PROVE FALSE
    BY <1>1
  <1>3. /\ KeyLock(t.key) \in locks[p] /\ ~AtStatement(p, "lock") /\ ~AtStatement(p, "insert")
        /\ t.row \in RowId /\ t.key = KeyOf(t.row) /\ Stored(t.row)
    BY <1>1, Waiter
  <1>4. PICK m : m \in Wants(p) /\ m \in locks[q] /\ p # q
    BY DEF WaitsFor
  <1>5. \E u \in RowId : /\ KeyOf(u) = t.key
                         /\ m = RowLock(u) \/ (\E X : m \in RecordLocks(u, X))
    <2>1. PICK x \in {"replay", "update", "records", "promote"} : AtStatement(p, x)
      BY <1>3, <1>4 DEF Wants
    <2>2. /\ x \in {"replay", "update"} => m = RowLock(t.row)
          /\ x = "records" => m \in RecordLocks(t.row, RecordsWritten(p))
          /\ x = "promote" => \E u \in Successor(t.row) : m = RowLock(u)
      BY <1>1, <1>4, <2>1, WantsAt
    <2>3. \A u \in Successor(t.row) : u \in RowId /\ KeyOf(u) = t.key
      BY <1>3 DEF Successor, NextHead, SameKey
    <2>. QED BY <1>3, <2>1, <2>2, <2>3
  <1>6. PICK u \in RowId : /\ KeyOf(u) = t.key
                           /\ m = RowLock(u) \/ (\E X : m \in RecordLocks(u, X))
    BY <1>5
  <1>7. /\ KeyLock(v.key) \in locks[q]
        /\ \/ m = KeyLock(v.key)
           \/ /\ v.key = KeyOf(v.row)
              /\ m = RowLock(v.row) \/ (\E X : m \in RecordLocks(v.row, X))
    BY <1>2, <1>4, Waiter
  <1>8. v.row = u /\ v.key = KeyOf(u)
    BY <1>6, <1>7, LockTags
  <1>9. Apart(p, q)
    BY <1>4 DEF TxnInv
  <1>. QED BY <1>3, <1>6, <1>7, <1>8, <1>9 DEF Apart

(* Nobody who holds anything waits for a transaction that has only its key. *)
LEMMA KeyWaiter ==
    ASSUME TxnInv, NEW p \in Procs, NEW q \in Procs, NEW s \in Procs,
           WaitsFor(p, q), locks[q] \subseteq {KeyLock(txn[q].key)}, WaitsFor(s, p)
    PROVE  FALSE
  <1>1. KeyLock(txn[q].key) \in Wants(p)
    BY DEF WaitsFor
  <1>2. AtStatement(p, "lock")
    <2>1. PICK x : AtStatement(p, x)
      BY <1>1 DEF Wants
    <2>2. x \in {"insert", "replay", "update"} => Wants(p) = {RowLock(txn[p].row)}
      BY <2>1, WantsAt
    <2>3. x = "records" => Wants(p) = RecordLocks(txn[p].row, RecordsWritten(p))
      BY <2>1, WantsAt
    <2>4. x = "promote" => Wants(p) = {RowLock(u) : u \in Successor(txn[p].row)}
      BY <2>1, WantsAt
    <2>5. PICK k : k = txn[q].key
      OBVIOUS
    <2>6. KeyLock(k) \in Wants(p)
      BY <1>1, <2>5
    <2>7. x \notin {"insert", "replay", "update"}
      BY <2>2, <2>6, LockTags
    <2>8. x # "records"
      BY <2>3, <2>6, LockTags
    <2>9. x # "promote"
      BY <2>4, <2>6, LockTags
    <2>. QED BY <1>1, <2>1, <2>7, <2>8, <2>9 DEF Wants, AtStatement
  <1>3. PICK l : l \in locks[p]
    BY DEF WaitsFor
  <1>. QED BY <1>2, <1>3, Waiter

(* Two or three transactions never wait for each other: each would hold no  *)
(* more than its key, and whoever waits for a key holds nothing.            *)
LEMMA InvNoCycle == TxnInv => NoWaitCycle
  <1>. SUFFICES ASSUME TxnInv, NEW p \in Procs, NEW q \in Procs, NEW s \in Procs
                PROVE  /\ ~(WaitsFor(p, q) /\ WaitsFor(q, p))
                       /\ ~(WaitsFor(p, q) /\ WaitsFor(q, s) /\ WaitsFor(s, p))
    BY DEF NoWaitCycle
  <1>1. ~(WaitsFor(p, q) /\ WaitsFor(q, p))
    BY OnlyKey, KeyWaiter
  <1>2. ~(WaitsFor(p, q) /\ WaitsFor(q, s) /\ WaitsFor(s, p))
    BY OnlyKey, KeyWaiter
  <1>. QED BY <1>1, <1>2

(* The writers of the outbox never deadlock among themselves.               *)
THEOREM NoDeadlock == TxnSpec => []NoWaitCycle
  <1>1. TxnInv => NoWaitCycle
    BY InvNoCycle
  <1>. QED BY <1>1, TxnInductive, PTL

(* Waiting ends: nobody waits for one who waits for one who waits for one   *)
(* who waits.  A cycle of any length would go on for ever.                  *)
WaitsAreShort ==
    \A o, p, q, r, s \in Procs :
        ~(WaitsFor(o, p) /\ WaitsFor(p, q) /\ WaitsFor(q, r) /\ WaitsFor(r, s))

(* So there is no cycle of any number of transactions.                      *)
THEOREM WaitsEnd == TxnSpec => []WaitsAreShort
  <1>1. TxnInv => WaitsAreShort
    BY OnlyKey, KeyWaiter DEF WaitsAreShort
  <1>. QED BY <1>1, TxnInductive, PTL

=============================================================================
