------------------------------- MODULE Outbox -------------------------------
(***************************************************************************)
(* The outbox table (internal/outbox, migrations 00002 and 00005): Lawang's*)
(* only queue.  One action per operation of the Go type Outbox, each one   *)
(* the whole transaction that operation commits.  Module OutboxTxn models  *)
(* the same writers statement by statement and is shown to implement this  *)
(* specification; module Drain is the client the program has.              *)
(*                                                                         *)
(* A row is identified by its (tenant, delivery id) pair, which the table  *)
(* keeps unique and never deletes; its ULID carries no information beyond  *)
(* that.  An ordering key only orders rows of one tenant, so a queue is    *)
(* named by KeyOf.  Time is abstract: `due' is the truth of                *)
(* due_at <= now(), and Elapse is the moment it becomes true.              *)
(***************************************************************************)
EXTENDS Integers, FiniteSets

CONSTANTS
    Tenants,        \* the tenants a verified subscription can belong to
    Sentinel,       \* tenancy.Sentinel, the owner of every parked delivery
    Deliveries,     \* delivery ids: one per distinct (provider, raw body)
    OrderingKeys,   \* what the hub derives an entity's queue from
    Records,        \* record ids a delivery can be prepared into
    Tokens,         \* lease tokens; a claim takes one nobody remembers
    NoToken,        \* lease_token IS NULL
    LadderLen,      \* len(Ladder): the retries the ladder schedules
    Batch,          \* the rows one claim may lease
    MaxSeq,         \* bound: the highest seq the identity column hands out
    MaxAttempts     \* bound: the most claims of one row since it was queued

ASSUME SentinelAssumption == Sentinel \notin Tenants
ASSUME TokenAssumption == NoToken \notin Tokens
ASSUME BoundAssumption ==
    LadderLen \in Nat /\ Batch \in Nat /\ MaxSeq \in Nat /\ MaxAttempts \in Nat

VARIABLES
    outbox,         \* the table outbox: [RowId -> Row]
    outbox_record,  \* the table outbox_record: [RowId -> [Records -> RecordState]]
    claims          \* the Claimed values worker processes hold in memory

vars == <<outbox, outbox_record, claims>>

-----------------------------------------------------------------------------
(* Types *)

RowId == (Tenants \cup {Sentinel}) \X Deliveries
Unfinished == {"pending", "prepared"}
Finished == {"delivered", "dead"}
RecordState == {"none", "prepared", "delivered", "dead"}
DeadReasons == {"", "retries exhausted", "not retryable", "abandoned", "unattributable"}

(* last_error is a Cause: nothing, a failure an attempt reported, or        *)
(* ClassWorkerLost, which says that no attempt reported one.                *)
LastErrors == {"", "reported", "worker lost"}

Row == [state        : {"absent"} \cup Unfinished \cup Finished,
        ordering_key : OrderingKeys \cup Deliveries,
        seq          : 0..MaxSeq,
        is_head      : BOOLEAN,
        attempts     : 0..MaxAttempts,
        due          : BOOLEAN,
        lease_token  : Tokens \cup {NoToken},
        prepared_at  : BOOLEAN,
        last_error   : LastErrors,
        dead_reason  : DeadReasons]

(* outbox.Claimed: what a claim hands to a worker, and the only thing that  *)
(* moves a row on.  Its tenant is the tenant of the row id.                 *)
Claimed == [row : RowId, attempt : 1..MaxAttempts, token : Tokens]

NewRow(k, n, head) ==
    [state |-> "pending", ordering_key |-> k, seq |-> n, is_head |-> head,
     attempts |-> 0, due |-> TRUE, lease_token |-> NoToken, prepared_at |-> FALSE,
     last_error |-> "", dead_reason |-> ""]

AbsentRow(r) == [NewRow(r[2], 0, FALSE) EXCEPT !.state = "absent"]

TypeOK ==
    /\ outbox \in [RowId -> Row]
    /\ outbox_record \in [RowId -> [Records -> RecordState]]
    /\ claims \subseteq Claimed

-----------------------------------------------------------------------------
(* What the statements ask of the tables *)

KeyOf(r) == <<r[1], outbox[r].ordering_key>>
Stored(r) == outbox[r].state # "absent"
IsUnfinished(r) == outbox[r].state \in Unfinished
SameKey(r, s) == Stored(r) /\ Stored(s) /\ KeyOf(r) = KeyOf(s)
Waiting(r) == {x \in Records : outbox_record[r][x] = "prepared"}
DeadRecords(r) == {x \in Records : outbox_record[r][x] = "dead"}

(* NOT EXISTS (SELECT 1 FROM outbox u WHERE ... u.state IN ('pending',      *)
(* 'prepared')): the head test of Accept and Replay.                        *)
KeyIsIdle(key) == \A u \in RowId : KeyOf(u) = key => ~IsUnfinished(u)

(* The identity column only grows and its value is taken under the key's    *)
(* lock, so within one key a new value is above every earlier one.  Across  *)
(* keys the commit order is not the seq order, and gaps are ordinary.       *)
NextSeq(key, n) ==
    /\ n \in 1..MaxSeq
    /\ \A u \in RowId : KeyOf(u) = key /\ Stored(u) => outbox[u].seq < n

(* Mutated form: the oldest row but the newest order, ORDER BY seq DESC.    *)
NextHeadMutant(r, s) ==
    /\ s # r /\ SameKey(r, s) /\ IsUnfinished(s)
    /\ \A u \in RowId :
          u # r /\ SameKey(r, u) /\ IsUnfinished(u) => outbox[u].seq <= outbox[s].seq

(* The row PromoteNextHead chooses once r is finished.                      *)
NextHead(r, s) ==
    /\ s # r /\ SameKey(r, s) /\ IsUnfinished(s)
    /\ \A u \in RowId :
          u # r /\ SameKey(r, u) /\ IsUnfinished(u) => outbox[s].seq <= outbox[u].seq

(* WHERE id = @id AND lease_token = @lease_token AND state IN (...): the    *)
(* guard of every transition.  When it fails the caller gets ErrLeaseLost   *)
(* and nothing is written.                                                  *)
Held(c) ==
    /\ outbox[c.row].lease_token = c.token
    /\ IsUnfinished(c.row)

(* Replay's WHERE clause: a dead row, or a delivered one with a dead record.*)
Replayable(r) ==
    \/ outbox[r].state = "dead"
    \/ outbox[r].state = "delivered" /\ DeadRecords(r) # {}

UsedTokens == {c.token : c \in claims} \cup {outbox[r].lease_token : r \in RowId}

(* Outbox.StrandedKeys: keys of the tenant with unfinished rows and no head.*)
StrandedKeys(t) ==
    {outbox[u].ordering_key : u \in {v \in RowId :
        /\ v[1] = t /\ IsUnfinished(v) /\ ~outbox[v].is_head
        /\ ~\E h \in RowId : SameKey(h, v) /\ outbox[h].is_head}}

-----------------------------------------------------------------------------
(* The operations *)

Init ==
    /\ outbox = [r \in RowId |-> AbsentRow(r)]
    /\ outbox_record = [r \in RowId |-> [x \in Records |-> "none"]]
    /\ claims = {}

(* Outbox.Accept.  A delivery the tenant already has inserts nothing (ON    *)
(* CONFLICT DO NOTHING), which is a stuttering step.                        *)
Accept(t, d, k) ==
    LET r == <<t, d>> IN
    /\ outbox[r].state = "absent"
    /\ \E n \in 1..MaxSeq :
          /\ NextSeq(<<t, k>>, n)
          /\ outbox' = [outbox EXCEPT ![r] = NewRow(k, n, KeyIsIdle(<<t, k>>))]
    /\ UNCHANGED <<outbox_record, claims>>

(* Outbox.Park: a row nobody owns, stored dead, its own id as its key.  No  *)
(* statement ever reads the seq of such a row, so it is left at 0.          *)
Park(d) ==
    LET r == <<Sentinel, d>> IN
    /\ outbox[r].state = "absent"
    /\ outbox' = [outbox EXCEPT ![r] = [NewRow(d, 0, FALSE) EXCEPT
                      !.state = "dead", !.dead_reason = "unattributable"]]
    /\ UNCHANGED <<outbox_record, claims>>

(* Mutated form: any unfinished due row is eligible, head or not.           *)
DueHeadMutant(r) == IsUnfinished(r) /\ outbox[r].due

(* WHERE c.is_head AND c.due_at <= now(): what a claim may lease.           *)
DueHead(r) == outbox[r].is_head /\ outbox[r].due

(* Mutated form: the attempt count from before the increment.               *)
AttemptOfMutant(row) == row.attempts

(* RETURNING o.attempts, which the same statement has incremented.          *)
AttemptOf(row) == row.attempts + 1

(* Outbox.Claim: leases due heads of any tenant under one fresh token.  Any *)
(* set of them, because a row another transaction has locked is skipped.    *)
Claim(S, tok) ==
    /\ S # {} /\ Cardinality(S) <= Batch
    /\ \A r \in S : DueHead(r) /\ outbox[r].attempts < MaxAttempts
    /\ tok \notin UsedTokens
    /\ outbox' = [r \in RowId |->
          IF r \in S
          THEN [outbox[r] EXCEPT !.lease_token = tok, !.due = FALSE,
                                    !.attempts = AttemptOf(outbox[r])]
          ELSE outbox[r]]
    /\ claims' = claims \cup
          {[row |-> r, attempt |-> AttemptOf(outbox[r]), token |-> tok] : r \in S}
    /\ UNCHANGED outbox_record

(* Outbox.PrepareIn: MarkPrepared, then StorePreparedRecords.               *)
PrepareIn(c, R) ==
    /\ Held(c) /\ outbox[c.row].state = "pending"
    /\ outbox' = [outbox EXCEPT ![c.row].state = "prepared", ![c.row].prepared_at = TRUE]
    /\ outbox_record' = [outbox_record EXCEPT ![c.row] =
                            [x \in Records |-> IF x \in R THEN "prepared" ELSE @[x]]]
    /\ UNCHANGED claims

(* Mutated form: the attempt is given back and the lease is not cleared.    *)
GiveAttemptBackMutant(row) == [row EXCEPT !.attempts = IF @ > 0 THEN @ - 1 ELSE 0]

(* The row after GREATEST(attempts - 1, 0) and the lease is cleared.        *)
GiveAttemptBack(row) ==
    [row EXCEPT !.lease_token = NoToken,
                !.attempts = IF @ > 0 THEN @ - 1 ELSE 0]

(* Outbox.Release: lease cleared, so the row is due again at once.          *)
Release(c) ==
    /\ Held(c)
    /\ outbox' = [outbox EXCEPT ![c.row] = [GiveAttemptBack(@) EXCEPT !.due = TRUE]]
    /\ UNCHANGED <<outbox_record, claims>>

(* Outbox.Halt: due after the pause, the attempt is not charged.            *)
Halt(c) ==
    /\ Held(c)
    /\ outbox' = [outbox EXCEPT ![c.row] = [GiveAttemptBack(@) EXCEPT
                     !.due = FALSE, !.last_error = "reported"]]
    /\ UNCHANGED <<outbox_record, claims>>

(* Outbox.Fail while the ladder still has a step: the query Retry.          *)
Retry(c) ==
    /\ Held(c)
    /\ outbox' = [outbox EXCEPT ![c.row].lease_token = NoToken, ![c.row].due = FALSE,
                                ![c.row].last_error = "reported"]
    /\ UNCHANGED <<outbox_record, claims>>

(* Mutated form: the marker is not handed on.                               *)
FinishMutant(r, done) == outbox' = [outbox EXCEPT ![r] = done]

(* finishIn: the finishing UPDATE on the row, then PromoteNextHead.         *)
Finish(r, done) ==
    outbox' = [s \in RowId |->
        IF s = r THEN done
        ELSE IF NextHead(r, s) THEN [outbox[s] EXCEPT !.is_head = TRUE]
        ELSE outbox[s]]

FinishedRow(r, st, why, err) ==
    [outbox[r] EXCEPT !.state = st, !.is_head = FALSE, !.lease_token = NoToken,
                      !.due = TRUE, !.dead_reason = why, !.last_error = err]

(* markDead, the body of MarkDead, MarkAbandoned and the end of Fail.  The  *)
(* records of the row keep their state.                                     *)
ParkDead(c, why, err) ==
    /\ Held(c)
    /\ Finish(c.row, FinishedRow(c.row, "dead", why, err))
    /\ UNCHANGED <<outbox_record, claims>>

(* Mutated form: the ladder ends one step early.                            *)
LadderHasNextMutant(attempt) == attempt >= 1 /\ attempt < LadderLen

(* Ladder.Next: whether the ladder schedules a wait after this attempt.     *)
LadderHasNext(attempt) == attempt >= 1 /\ attempt <= LadderLen

(* As Exhausted, were the last attempt of the ladder already past it.       *)
ExhaustedMutant(attempt) == attempt > LadderLen

(* Ladder.Exhausted: a claim the ladder can no longer account for.          *)
Exhausted(attempt) == attempt > LadderLen + 1

Fail(c) ==
    \/ LadderHasNext(c.attempt) /\ Retry(c)
    \/ ~LadderHasNext(c.attempt) /\ ParkDead(c, "retries exhausted", "reported")

MarkDead(c) == ParkDead(c, "not retryable", "reported")

MarkAbandoned(c) == ParkDead(c, "abandoned", "worker lost")

(* Mutated form: only the refusals are written.                             *)
AnsweredMutant(recs, refused) ==
    [x \in Records |-> IF x \in refused THEN "dead" ELSE recs[x]]

(* MarkRecordDead for each refusal, then MarkRecordsDelivered for the rest. *)
Answered(recs, refused) ==
    [x \in Records |-> IF x \in refused THEN "dead"
                       ELSE IF recs[x] = "prepared" THEN "delivered" ELSE recs[x]]

(* Outbox.MarkDelivered: the refused records die, every other open record   *)
(* is delivered, the row finishes.  A refusal that names a record which is  *)
(* not waiting is ErrNoSuchRecord and the transaction rolls back.           *)
MarkDelivered(c, refused) ==
    /\ Held(c) /\ refused \subseteq Waiting(c.row)
    /\ Finish(c.row, FinishedRow(c.row, "delivered", outbox[c.row].dead_reason, ""))
    /\ outbox_record' = [outbox_record EXCEPT ![c.row] = Answered(@, refused)]
    /\ UNCHANGED claims

(* Mutated form: every record waits again, the delivered ones too.          *)
RevivedMutant(recs) == [x \in Records |-> IF recs[x] = "none" THEN "none" ELSE "prepared"]

(* ReviveDeadRecords: the dead records wait again, the delivered ones stay. *)
Revived(recs) == [x \in Records |-> IF recs[x] = "dead" THEN "prepared" ELSE recs[x]]

(* Mutated form: a replay starts from the beginning.                        *)
ReplayStateMutant(row) == "pending"

(* CASE WHEN prepared_at IS NULL THEN 'pending' ELSE 'prepared' END.        *)
ReplayState(row) == IF row.prepared_at THEN "prepared" ELSE "pending"

(* Outbox.Replay: the row goes to the back of its queue, in the state it    *)
(* had reached, and its dead records wait again.  Only a tenant replays: no *)
(* credential is ever issued for the sentinel (tenancy.Sentinel).           *)
Replay(r) ==
    /\ r[1] \in Tenants /\ Replayable(r)
    /\ \E n \in 1..MaxSeq :
          /\ NextSeq(KeyOf(r), n)
          /\ outbox' = [outbox EXCEPT ![r] =
                [@ EXCEPT !.seq = n, !.is_head = KeyIsIdle(KeyOf(r)),
                          !.state = ReplayState(outbox[r]), !.attempts = 0,
                          !.due = TRUE, !.dead_reason = ""]]
    /\ outbox_record' = [outbox_record EXCEPT ![r] = Revived(@)]
    /\ UNCHANGED claims

(* The clock reaches due_at: a backoff, a halt pause or a lease runs out.   *)
Elapse(r) ==
    /\ ~outbox[r].due
    /\ outbox' = [outbox EXCEPT ![r].due = TRUE]
    /\ UNCHANGED <<outbox_record, claims>>

(* A worker is done with a row, or dies with everything it had claimed.     *)
Drop(C) ==
    /\ claims' = claims \ C
    /\ UNCHANGED <<outbox, outbox_record>>

Transition(c) ==
    \/ \E R \in SUBSET Records : PrepareIn(c, R)
    \/ \E refused \in SUBSET Records : MarkDelivered(c, refused)
    \/ Release(c) \/ Halt(c) \/ Fail(c) \/ MarkDead(c) \/ MarkAbandoned(c)

Next ==
    \/ \E t \in Tenants, d \in Deliveries, k \in OrderingKeys : Accept(t, d, k)
    \/ \E d \in Deliveries : Park(d)
    \/ \E S \in SUBSET RowId, tok \in Tokens : Claim(S, tok)
    \/ \E c \in claims : Transition(c)
    \/ \E C \in SUBSET claims : Drop(C)
    \/ \E r \in RowId : Replay(r) \/ Elapse(r)

Spec == Init /\ [][Next]_vars

-----------------------------------------------------------------------------
(* Properties *)

(* Constraint outbox_head_is_unfinished: the claim asks for is_head and not *)
(* for the state, and relies on this.                                       *)
HeadIsUnfinished == \A r \in RowId : outbox[r].is_head => IsUnfinished(r)

(* Index outbox_one_head: a key has at most one head.                       *)
OneHead ==
    \A r, s \in RowId :
        SameKey(r, s) /\ outbox[r].is_head /\ outbox[s].is_head => r = s

(* The head is the earliest unfinished row of its key.                      *)
HeadIsFirst ==
    \A r, s \in RowId :
        outbox[r].is_head /\ SameKey(r, s) /\ IsUnfinished(s)
            => outbox[r].seq <= outbox[s].seq

(* No key has unfinished rows and no head: what StrandedKeys looks for, and *)
(* the one broken state of the marker that no constraint refuses.           *)
NoStrandedKey == \A t \in Tenants \cup {Sentinel} : StrandedKeys(t) = {}

(* The invariant of ADR 10: after every transaction, is_head is true for    *)
(* exactly the earliest unfinished row of every key.                        *)
HeadInvariant == HeadIsUnfinished /\ OneHead /\ HeadIsFirst /\ NoStrandedKey

(* Two rows of one key are never in flight together, through crashes, lease *)
(* takeovers and replays.                                                   *)
OneInFlight ==
    \A r, s \in RowId :
        /\ SameKey(r, s)
        /\ outbox[r].lease_token # NoToken /\ outbox[s].lease_token # NoToken
        => r = s

(* A Claimed whose token is still the row's stands for an unfinished row    *)
(* and carries the attempt the row is charged with: Fail indexes the ladder *)
(* by the value in memory, and Halt and Release give back the stored one.   *)
ClaimIsCurrent ==
    \A c \in claims :
        outbox[c.row].lease_token = c.token
            => IsUnfinished(c.row) /\ outbox[c.row].attempts = c.attempt

(* The records agree with their row: a delivered row waits on none, and a   *)
(* dead record sits in a delivered row, which is what Replay can reach.  A  *)
(* row that was never prepared has none.                                    *)
RecordsFollowRow ==
    \A r \in RowId :
        /\ outbox[r].state = "delivered" => Waiting(r) = {}
        /\ DeadRecords(r) # {} => outbox[r].state = "delivered"
        /\ ~outbox[r].prepared_at => \A x \in Records : outbox_record[r][x] = "none"

(* A lease is only ever granted on the earliest unfinished row of its key,  *)
(* with no other row of the key leased: queue order is delivery order.      *)
LeasedInOrder ==
    [][\A r, s \in RowId :
        /\ outbox'[r].lease_token \notin {NoToken, outbox[r].lease_token}
        /\ s # r /\ SameKey(r, s) /\ IsUnfinished(s)
        => outbox[r].seq < outbox[s].seq /\ outbox[s].lease_token = NoToken]_vars

(* A row that was prepared is never prepared again, through retries, dead   *)
(* letters and replays: it never returns to pending and its set of records  *)
(* never changes.                                                           *)
NeverPreparedTwice ==
    [][\A r \in RowId : outbox[r].prepared_at =>
          /\ outbox'[r].prepared_at /\ outbox'[r].state # "pending"
          /\ \A x \in Records :
                (outbox_record[r][x] = "none") <=> (outbox_record'[r][x] = "none")]_vars

(* A record the sink took is never offered again, replays of its row        *)
(* included.                                                                *)
DeliveredRecordIsFinal ==
    [][\A r \in RowId, x \in Records :
          outbox_record[r][x] = "delivered" => outbox_record'[r][x] = "delivered"]_vars

(* The strengthening that makes the invariants above inductive.             *)
RowConsistent ==
    \A r \in RowId :
        /\ outbox[r].state = "pending" => ~outbox[r].prepared_at
        /\ outbox[r].state = "prepared" => outbox[r].prepared_at
        /\ outbox[r].state = "absent" => ~outbox[r].prepared_at
        /\ outbox[r].lease_token # NoToken => outbox[r].is_head
        /\ r[1] = Sentinel => ~IsUnfinished(r) /\ outbox[r].ordering_key = r[2]

DistinctSeq ==
    \A r, s \in RowId : SameKey(r, s) /\ r # s => outbox[r].seq # outbox[s].seq

(* Every key with unfinished rows has a head: NoStrandedKey, row by row.    *)
HasHead ==
    \A r \in RowId : IsUnfinished(r) =>
        \E h \in RowId : SameKey(h, r) /\ outbox[h].is_head

QueueInv == DistinctSeq /\ HeadIsUnfinished /\ OneHead /\ HeadIsFirst /\ HasHead

IInv == TypeOK /\ RowConsistent /\ QueueInv /\ ClaimIsCurrent /\ RecordsFollowRow

=============================================================================
