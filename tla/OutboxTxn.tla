----------------------------- MODULE OutboxTxn ------------------------------
(***************************************************************************)
(* The writers of the outbox, statement by statement, under READ COMMITTED *)
(* (store begins every transaction at that level by name).  A transaction  *)
(* runs its statements one at a time, in the order the Go code issues them;*)
(* each reads what is committed when it starts, may have to wait for a     *)
(* lock, and writes nothing others can see before the commit.  This module *)
(* shows that the ordering key's advisory lock, the row locks and the      *)
(* re-check a locked row gets are enough for every commit to be one atomic *)
(* operation of module Outbox, and that no two transactions wait for each  *)
(* other.                                                                  *)
(*                                                                         *)
(* The variables of Outbox are the committed tables.                       *)
(***************************************************************************)
EXTENDS Outbox, Sequences

CONSTANTS
    Procs,      \* database connections with a transaction open, at most
    Ops,        \* the operations they run
    NoRow,      \* no row
    NoClaim     \* no Claimed

ASSUME NoneAssumption == NoRow \notin RowId /\ NoClaim \notin Claimed

VARIABLES
    txn,        \* the open transaction of each connection
    locks,      \* the locks each transaction holds until it ends
    seq_last    \* the last value the identity column handed out

txnVars == <<txn, locks, seq_last>>
allVars == <<vars, txnVars>>

-----------------------------------------------------------------------------
(* The statements of each operation, in order.  "dead" is markDead as       *)
(* MarkDead and the end of Fail call it, "retry" is Fail with a step of the *)
(* ladder left, "prepare" is PrepareIn.                                     *)
Statements(op) ==
    CASE op = "accept"                        -> <<"lock", "insert">>
      [] op = "replay"                        -> <<"lock", "replay", "records">>
      [] op = "deliver"                       -> <<"lock", "records", "update", "promote">>
      [] op \in {"dead", "abandon"}           -> <<"lock", "update", "promote">>
      [] op = "prepare"                       -> <<"update", "records">>
      [] op \in {"retry", "halt", "release"}  -> <<"update">>
      [] op = "claim"                         -> <<"snapshot", "take">>

(* Mutated forms: a finishing transition takes no key lock; Replay takes    *)
(* none; finishing transitions take it after their row locks.               *)
Unlocked(op) == SelectSeq(Statements(op), LAMBDA s : s # "lock")
ProgramFinishNoLock(op) ==
    IF op \in {"deliver", "dead", "abandon"} THEN Unlocked(op) ELSE Statements(op)
ProgramReplayNoLock(op) == IF op = "replay" THEN Unlocked(op) ELSE Statements(op)
ProgramLateLock(op) ==
    CASE op = "deliver"              -> <<"records", "update", "lock", "promote">>
      [] op \in {"dead", "abandon"}  -> <<"update", "lock", "promote">>
      [] OTHER                       -> Statements(op)

Program(op) == Statements(op)

Leased == {"deliver", "dead", "abandon", "prepare", "retry", "halt", "release"}

NoTxn == [op |-> "none", pc |-> 0, row |-> NoRow, key |-> <<>>, claim |-> NoClaim,
          set |-> {}, recs |-> {}, tok |-> NoToken,
          seq |-> 0, head |-> FALSE, next |-> NoRow]

Open(p) == txn[p].op # "none"
Statement(p) == Program(txn[p].op)[txn[p].pc]
AtStatement(p, s) == Open(p) /\ txn[p].pc <= Len(Program(txn[p].op)) /\ Statement(p) = s

-----------------------------------------------------------------------------
(* Locks *)

KeyLock(key) == <<"key", key>>
RowLock(r) == <<"row", r>>
RecordLocks(r, X) == {<<"record", r, x>> : x \in X}

Free(p, l) == \A q \in Procs \ {p} : l \notin locks[q]
Taken(p) == {r \in RowId : RowLock(r) \in locks[p]}

(* The row PromoteNextHead will mark, if there is one.                      *)
Successor(r) == {s \in RowId : NextHead(r, s)}

(* The rows of outbox_record that PrepareIn inserts, that MarkDelivered     *)
(* finds waiting, and that Replay finds dead.                               *)
RecordsWritten(p) ==
    CASE txn[p].op = "prepare" -> txn[p].set
      [] txn[p].op = "deliver" -> Waiting(txn[p].row)
      [] txn[p].op = "replay"  -> DeadRecords(txn[p].row)

(* The locks the next statement of p has to get before it can run.  A claim *)
(* skips what is locked and waits for nothing.                              *)
Wants(p) ==
    CASE AtStatement(p, "lock")    -> {KeyLock(txn[p].key)}
      [] AtStatement(p, "insert")  -> {RowLock(txn[p].row)}
      [] AtStatement(p, "replay")  -> {RowLock(txn[p].row)}
      [] AtStatement(p, "update")  -> {RowLock(txn[p].row)}
      [] AtStatement(p, "records") -> RecordLocks(txn[p].row, RecordsWritten(p))
      [] AtStatement(p, "promote") -> {RowLock(s) : s \in Successor(txn[p].row)}
      [] OTHER                     -> {}

CanLock(p) == \A l \in Wants(p) : Free(p, l)

(* Index outbox_one_head: r may become the head of key in p's transaction,  *)
(* which has already taken the marker from its own row.                     *)
HeadsOf(q) == {txn[q].next} \cup (IF txn[q].head THEN {txn[q].row} ELSE {})
IndexAllows(p, r, key) ==
    \A u \in RowId \ {r, txn[p].row} :
        /\ ~(Stored(u) /\ KeyOf(u) = key /\ outbox[u].is_head)
        /\ \A q \in Procs \ {p} : ~(u \in HeadsOf(q) /\ txn[q].key = key)

(* The statement ran: p holds what it asked for and goes to the next one.   *)
Ran(p, t) ==
    /\ CanLock(p)
    /\ txn' = [txn EXCEPT ![p] = [t EXCEPT !.pc = @ + 1]]
    /\ locks' = [locks EXCEPT ![p] = @ \cup Wants(p)]
    /\ UNCHANGED vars

-----------------------------------------------------------------------------
(* Beginning a transaction *)

TxnInit ==
    /\ Init
    /\ txn = [p \in Procs |-> NoTxn]
    /\ locks = [p \in Procs |-> {}]
    /\ seq_last = 0

Begin(p, t) ==
    /\ ~Open(p) /\ t.op \in Ops
    /\ txn' = [txn EXCEPT ![p] = [t EXCEPT !.pc = 1]]
    /\ UNCHANGED <<vars, locks, seq_last>>

(* acceptIn                                                                 *)
BeginAccept(p, t, d, k) ==
    Begin(p, [NoTxn EXCEPT !.op = "accept", !.row = <<t, d>>, !.key = <<t, k>>])

(* Outbox.Replay: the row exists, so that LockOrderingKeyOf finds its key.  *)
BeginReplay(p, r) ==
    /\ r[1] \in Tenants /\ Stored(r)
    /\ Begin(p, [NoTxn EXCEPT !.op = "replay", !.row = r, !.key = KeyOf(r)])

(* Outbox.transition and PrepareIn, for a Claimed that may be stale.  One   *)
(* goroutine works a Claimed, one call at a time.  Which of Retry and       *)
(* markDead a failure becomes is decided before the transaction begins.     *)
BeginLeased(p, op, c, set) ==
    /\ op \in Leased /\ \A q \in Procs : txn[q].claim # c
    /\ op = "retry" => LadderHasNext(c.attempt)
    /\ Begin(p, [NoTxn EXCEPT !.op = op, !.row = c.row, !.key = KeyOf(c.row),
                              !.claim = c, !.set = set])

(* Outbox.Claim mints its token before the transaction.                     *)
BeginClaim(p, tok) ==
    /\ tok \notin UsedTokens \cup {txn[q].tok : q \in Procs}
    /\ Begin(p, [NoTxn EXCEPT !.op = "claim", !.tok = tok])

-----------------------------------------------------------------------------
(* Statements *)

(* LockOrderingKey, LockOrderingKeyOf                                       *)
LockKey(p) ==
    /\ AtStatement(p, "lock")
    /\ Ran(p, txn[p])
    /\ UNCHANGED seq_last

(* The INSERT of Accept.  A delivery that is already there returns no row,  *)
(* which ends the transaction without a write.                              *)
Insert(p) ==
    LET t == txn[p]
        head == KeyIsIdle(t.key)
    IN
    /\ AtStatement(p, "insert")
    /\ outbox[t.row].state = "absent"
    /\ head => IndexAllows(p, t.row, t.key)
    /\ seq_last < MaxSeq /\ seq_last' = seq_last + 1
    /\ Ran(p, [t EXCEPT !.seq = seq_last + 1, !.head = head])

(* The UPDATE of Replay.                                                    *)
UpdateReplay(p) ==
    LET t == txn[p]
        head == KeyIsIdle(t.key)
    IN
    /\ AtStatement(p, "replay")
    /\ Replayable(t.row)
    /\ head => IndexAllows(p, t.row, t.key)
    /\ seq_last < MaxSeq /\ seq_last' = seq_last + 1
    /\ Ran(p, [t EXCEPT !.seq = seq_last + 1, !.head = head])

(* The lease-guarded UPDATE: its conditions are asked of the version it     *)
(* locked.  No row is ErrLeaseLost, and the transaction is rolled back.     *)
UpdateLeased(p) ==
    LET t == txn[p] IN
    /\ AtStatement(p, "update")
    /\ Held(t.claim)
    /\ t.op = "prepare" => outbox[t.row].state = "pending"
    /\ Ran(p, t)
    /\ UNCHANGED seq_last

(* MarkRecordDead and MarkRecordsDelivered, StorePreparedRecords,           *)
(* ReviveDeadRecords.  A refusal of a record that is not waiting finds no   *)
(* row: ErrNoSuchRecord.                                                    *)
WriteRecords(p) ==
    /\ AtStatement(p, "records")
    /\ txn[p].op = "deliver" => txn[p].set \subseteq Waiting(txn[p].row)
    /\ Ran(p, [txn[p] EXCEPT !.recs = RecordsWritten(p)])
    /\ UNCHANGED seq_last

(* PromoteNextHead                                                          *)
Promote(p) ==
    LET t == txn[p] IN
    /\ AtStatement(p, "promote")
    /\ \/ Successor(t.row) = {} /\ Ran(p, t)
       \/ \E s \in Successor(t.row) :
             IndexAllows(p, s, t.key) /\ Ran(p, [t EXCEPT !.next = s])
    /\ UNCHANGED seq_last

(* The candidates of a claim, on its snapshot.                              *)
Snapshot(p) ==
    /\ AtStatement(p, "snapshot")
    /\ Ran(p, [txn[p] EXCEPT !.set = {r \in RowId : DueHead(r)}])
    /\ UNCHANGED seq_last

(* EvalPlanQual: the conditions of the claim, on the version it locked.     *)
Recheck(r) == DueHead(r)

(* FOR UPDATE SKIP LOCKED: one more candidate is locked.                    *)
Take(p, r) ==
    /\ AtStatement(p, "take")
    /\ r \in txn[p].set /\ r \notin Taken(p) /\ Free(p, RowLock(r))
    /\ Recheck(r) /\ outbox[r].attempts < MaxAttempts
    /\ Cardinality(Taken(p)) < Batch
    /\ locks' = [locks EXCEPT ![p] = @ \cup {RowLock(r)}]
    /\ UNCHANGED <<vars, txn, seq_last>>

-----------------------------------------------------------------------------
(* The end of a transaction *)

End(p) ==
    /\ txn' = [txn EXCEPT ![p] = NoTxn]
    /\ locks' = [locks EXCEPT ![p] = {}]
    /\ UNCHANGED seq_last

Done(p, op) == Open(p) /\ txn[p].op = op /\ txn[p].pc > Len(Program(op))

CommitAccept(p) ==
    LET t == txn[p] IN
    /\ Done(p, "accept")
    /\ outbox' = [outbox EXCEPT ![t.row] = NewRow(t.key[2], t.seq, t.head)]
    /\ UNCHANGED <<outbox_record, claims>>
    /\ End(p)

CommitReplay(p) ==
    LET t == txn[p] IN
    /\ Done(p, "replay")
    /\ outbox' = [outbox EXCEPT ![t.row] =
          [@ EXCEPT !.seq = t.seq, !.is_head = t.head, !.state = ReplayState(outbox[t.row]),
                    !.attempts = 0, !.due = TRUE, !.dead_reason = ""]]
    /\ outbox_record' = [outbox_record EXCEPT ![t.row] =
          [x \in Records |-> IF x \in t.recs THEN "prepared" ELSE @[x]]]
    /\ UNCHANGED claims
    /\ End(p)

(* The finished row and the row that was promoted, together.                *)
Finishing(p, done) ==
    outbox' = [s \in RowId |->
        IF s = txn[p].row THEN done
        ELSE IF s = txn[p].next THEN [outbox[s] EXCEPT !.is_head = TRUE]
        ELSE outbox[s]]

CommitDelivered(p) ==
    LET t == txn[p] IN
    /\ Done(p, "deliver")
    /\ Finishing(p, FinishedRow(t.row, "delivered", outbox[t.row].dead_reason, ""))
    /\ outbox_record' = [outbox_record EXCEPT ![t.row] =
          [x \in Records |-> IF x \in t.set THEN "dead"
                             ELSE IF x \in t.recs THEN "delivered" ELSE @[x]]]
    /\ UNCHANGED claims
    /\ End(p)

CommitDead(p) ==
    /\ \/ /\ Done(p, "dead")
          /\ \E why \in {"not retryable", "retries exhausted"} :
                /\ why = "retries exhausted" => ~LadderHasNext(txn[p].claim.attempt)
                /\ Finishing(p, FinishedRow(txn[p].row, "dead", why, "reported"))
       \/ /\ Done(p, "abandon")
          /\ Finishing(p, FinishedRow(txn[p].row, "dead", "abandoned", "worker lost"))
    /\ UNCHANGED <<outbox_record, claims>>
    /\ End(p)

(* One row, one statement: the effect is that of the operation.             *)
CommitLocal(p) ==
    LET c == txn[p].claim IN
    /\ \/ Done(p, "prepare") /\ PrepareIn(c, txn[p].set)
       \/ Done(p, "retry") /\ Retry(c)
       \/ Done(p, "halt") /\ Halt(c)
       \/ Done(p, "release") /\ Release(c)
    /\ End(p)

CommitClaim(p) ==
    /\ AtStatement(p, "take") /\ Taken(p) # {}
    /\ outbox' = [r \in RowId |->
          IF r \in Taken(p)
          THEN [outbox[r] EXCEPT !.lease_token = txn[p].tok, !.due = FALSE,
                                 !.attempts = AttemptOf(outbox[r])]
          ELSE outbox[r]]
    /\ claims' = claims \cup {[row |-> r, attempt |-> AttemptOf(outbox[r]),
                               token |-> txn[p].tok] : r \in Taken(p)}
    /\ UNCHANGED outbox_record
    /\ End(p)

(* A statement that matched no row, an error, a timeout, a lost connection. *)
Rollback(p) ==
    /\ Open(p)
    /\ End(p)
    /\ UNCHANGED vars

-----------------------------------------------------------------------------

BeginAny(p) ==
    \/ \E t \in Tenants, d \in Deliveries, k \in OrderingKeys : BeginAccept(p, t, d, k)
    \/ \E r \in RowId : BeginReplay(p, r)
    \/ \E c \in claims, op \in Leased \ {"deliver", "prepare"} : BeginLeased(p, op, c, {})
    \/ \E c \in claims, op \in {"deliver", "prepare"}, set \in SUBSET Records :
          BeginLeased(p, op, c, set)
    \/ \E tok \in Tokens : BeginClaim(p, tok)

Step(p) ==
    \/ LockKey(p) \/ Insert(p) \/ UpdateReplay(p) \/ UpdateLeased(p) \/ WriteRecords(p)
    \/ Promote(p) \/ Snapshot(p) \/ \E r \in RowId : Take(p, r)

Commit(p) ==
    \/ CommitAccept(p) \/ CommitReplay(p) \/ CommitDelivered(p) \/ CommitDead(p)
    \/ CommitLocal(p) \/ CommitClaim(p)

(* What happens outside these transactions: the clock, and a worker that is *)
(* done with a claim, or dead.  A transaction it had open ends first.       *)
(* (Park inserts one finished row that no other statement looks at: it is   *)
(* atomic, and left to Outbox.)                                             *)
Outside ==
    /\ \/ \E r \in RowId : Elapse(r)
       \/ \E c \in claims : Drop({c}) /\ \A p \in Procs : txn[p].claim # c
    /\ UNCHANGED txnVars

TxnNext ==
    \/ \E p \in Procs : BeginAny(p) \/ Step(p) \/ Commit(p) \/ Rollback(p)
    \/ Outside

TxnSpec == TxnInit /\ [][TxnNext]_allVars

-----------------------------------------------------------------------------
(* Properties *)

(* The statements implement the operations: every commit is one atomic step *)
(* of Outbox, and no other step shows.  (The box is that of Spec, with the  *)
(* stuttering steps, which are most of them, tried first.)                  *)
ImplementsOutbox == Init /\ [][UNCHANGED vars \/ Next]_vars

(* No two transactions, and no three, wait for each other: the key's lock   *)
(* comes before any row lock, everywhere.                                   *)
WaitsFor(p, q) == p # q /\ Wants(p) \cap locks[q] # {}
NoWaitCycle ==
    \A p, q, s \in Procs :
        /\ ~(WaitsFor(p, q) /\ WaitsFor(q, p))
        /\ ~(WaitsFor(p, q) /\ WaitsFor(q, s) /\ WaitsFor(s, p))

(* The unique index on heads never refuses a writer: under the key's lock   *)
(* an INSERT that decided its row is the head, and a promotion, always find *)
(* the marker free.                                                         *)
MarkerIsFree ==
    \A p \in Procs :
        /\ (AtStatement(p, "insert") \/ AtStatement(p, "replay")) /\ KeyIsIdle(txn[p].key)
              => IndexAllows(p, txn[p].row, txn[p].key)
        /\ AtStatement(p, "promote")
              => \A s \in Successor(txn[p].row) : IndexAllows(p, s, txn[p].key)

=============================================================================
