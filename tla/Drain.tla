------------------------------- MODULE Drain --------------------------------
(***************************************************************************)
(* The drain (internal/worker): the goroutines that claim rows of the      *)
(* outbox and carry each one from its claim to its outcome.  A row is read,*)
(* normalized, prepared, offered to the tenant's sink and finished, and    *)
(* every one of those is a call that can be delayed past the lease, fail,  *)
(* or be the last thing a process does.  The outbox steps are the actions  *)
(* of module Outbox, so a stale worker meets the same lease guard here.    *)
(*                                                                         *)
(* A drain here is a replica with a pool of one: goroutines of one pool    *)
(* share nothing but the context, and a crash of a larger pool is a crash  *)
(* of several drains.  The provider, the ledger's choice among new records *)
(* and the sink are nondeterministic within the contracts the code states  *)
(* for them.                                                               *)
(***************************************************************************)
EXTENDS Outbox

CONSTANTS
    Drains,         \* the drain goroutines
    InsideLease,    \* whether Batch x RowTimeout is below Lease
    MaxCrashes,     \* bound: crashes, panics, and outcomes and claims the database fails
    MaxHalts,       \* bound: halting answers of the sink, and shutdowns
    MaxTrouble,     \* bound: the two together
    NoClaim         \* no row is being worked

ASSUME DrainAssumption ==
    /\ InsideLease \in BOOLEAN
    /\ MaxCrashes \in Nat /\ MaxHalts \in Nat /\ MaxTrouble \in Nat
    /\ NoClaim \notin Claimed

VARIABLES
    record_ledger,  \* the record ids each tenant's ledger holds
    sink,           \* the record ids each tenant's sink has taken
    skipped,        \* history: the record ids of each row the ledger already held
    reached,        \* history: the highest seq of each key the sink took records of
    drain,          \* what each goroutine is doing
    stopping,       \* whether the goroutine's context is cancelled
    crashes,        \* how often a worker was cut off from its claims
    left,           \* history: the claims cut off, until a later one finds them gone
    halts           \* how often a sink halted or a shutdown began

outboxVars == <<outbox, outbox_record, claims>>
outside == <<record_ledger, sink, skipped, reached>>
control == <<stopping, crashes, halts, left>>
drainVars == <<outboxVars, outside, drain, control>>

(* Where a goroutine is in once and workRow.  At idle it is in the loop of  *)
(* Run, or between two rows of its batch; at unheard its claim has committed*)
(* and failed all the same.                                                 *)
Places == {"idle", "unheard", "started", "reopen", "normalize", "normalized", "deliver",
           "answered", "retry", "halt", "done"}

(* recs is what Normalize returned, then what is to be offered, then, at    *)
(* "answered", what the sink refused.                                       *)
DrainState == [at : Places, batch : SUBSET Claimed, row : Claimed \cup {NoClaim},
               recs : SUBSET Records]

IdleDrain == [at |-> "idle", batch |-> {}, row |-> NoClaim, recs |-> {}]

HeldBy(g) == drain[g].batch \cup ({drain[g].row} \ {NoClaim})

(* A goroutine holds what it claimed and nothing else, and works a row      *)
(* whenever it is neither idle nor at the end of a claim that failed.       *)
DrainTypeOK ==
    /\ record_ledger \in [Tenants -> SUBSET Records]
    /\ sink \in [Tenants -> SUBSET Records]
    /\ skipped \in [RowId -> SUBSET Records]
    /\ reached \in [Tenants \X OrderingKeys -> 0..MaxSeq]
    /\ drain \in [Drains -> DrainState]
    /\ stopping \in [Drains -> BOOLEAN]
    /\ crashes \in 0..MaxCrashes /\ halts \in 0..MaxHalts
    /\ claims = UNION {HeldBy(g) : g \in Drains}
    /\ left \subseteq Claimed
    /\ \A g \in Drains : drain[g].at \in {"idle", "unheard"} <=> drain[g].row = NoClaim

DrainInit ==
    /\ Init
    /\ record_ledger = [t \in Tenants |-> {}]
    /\ sink = [t \in Tenants |-> {}]
    /\ skipped = [r \in RowId |-> {}]
    /\ reached = [key \in Tenants \X OrderingKeys |-> 0]
    /\ drain = [g \in Drains |-> IdleDrain]
    /\ stopping = [g \in Drains |-> FALSE]
    /\ crashes = 0 /\ halts = 0 /\ left = {}

-----------------------------------------------------------------------------
(* Helpers of the steps *)

Working(g, place) == drain[g].at = place

CountCrash ==
    /\ crashes < MaxCrashes /\ crashes + halts < MaxTrouble
    /\ crashes' = crashes + 1 /\ UNCHANGED halts

CountHalt ==
    /\ halts < MaxHalts /\ crashes + halts < MaxTrouble
    /\ halts' = halts + 1 /\ UNCHANGED <<crashes, left>>

(* A worker is lost with the claims in C, and nothing is written of them.   *)
LeaveBehind(C) == CountCrash /\ left' = left \cup C

Move(g, place, recs) ==
    drain' = [drain EXCEPT ![g].at = place, ![g].recs = recs]

(* The tail of every outcome: fail, dead, halt, finish and release only log *)
(* what the transition returned.  ErrLeaseLost and ErrNoSuchRecord write    *)
(* nothing, and neither does an error of the database, which is Lose below. *)
Settle(g, possible, Transit) ==
    /\ \/ possible /\ Transit
       \/ ~possible /\ UNCHANGED outboxVars
    /\ Move(g, "done", {})
    /\ UNCHANGED outside

-----------------------------------------------------------------------------
(* once *)

(* Drain.once: claim a batch.  A claim that finds nothing changes nothing.  *)
(* A claim runs on the context of Run: one that is cut off at its commit,   *)
(* or whose answer is lost, is an error to once though its rows are leased. *)
ClaimBatch(g) ==
    /\ drain[g] = IdleDrain /\ ~stopping[g]
    /\ \E S \in SUBSET RowId, tok \in Tokens :
          /\ Claim(S, tok)
          /\ left' = {c \in left : c.row \notin S /\ Held(c)}
    /\ \/ drain' = [drain EXCEPT ![g].batch = claims' \ claims] /\ UNCHANGED <<crashes, halts>>
       \/ drain' = [drain EXCEPT ![g].batch = claims' \ claims, ![g].at = "unheard"] /\ CountCrash
    /\ UNCHANGED <<outside, stopping>>

(* once returns the error: nobody knows of the rows it leased.              *)
Forget(g) ==
    /\ Working(g, "unheard")
    /\ Drop(drain[g].batch)
    /\ left' = left \cup drain[g].batch
    /\ drain' = [drain EXCEPT ![g] = IdleDrain]
    /\ UNCHANGED <<outside, stopping, crashes, halts>>

(* The next row of the batch, under a context of its own.                   *)
Start(g) ==
    /\ Working(g, "idle") /\ ~stopping[g]
    /\ \E c \in drain[g].batch :
          drain' = [drain EXCEPT ![g].at = "started", ![g].row = c,
                                 ![g].batch = @ \ {c}]
    /\ UNCHANGED <<outboxVars, outside, control>>

(* Mutated form: the shutdown gives one row back and forgets the others.    *)
GiveBackMutant(g) ==
    /\ Working(g, "idle") /\ stopping[g]
    /\ \E c \in drain[g].batch :
          /\ Held(c) /\ Release(c)
          /\ drain' = [drain EXCEPT ![g].at = "done", ![g].row = c, ![g].batch = {}]
    /\ UNCHANGED <<outside, control>>

(* Drain.release: a row claimed and not reached when the shutdown began.    *)
(* The database may fail the release, and the row then keeps its lease.     *)
GiveBack(g) ==
    /\ Working(g, "idle") /\ stopping[g]
    /\ \E c \in drain[g].batch :
          /\ \/ Held(c) /\ Release(c) /\ UNCHANGED left
             \/ ~Held(c) /\ UNCHANGED <<outboxVars, left>>
             \/ left' = left \cup {c} /\ UNCHANGED outboxVars
          /\ drain' = [drain EXCEPT ![g].at = "done", ![g].row = c, ![g].batch = @ \ {c}]
    /\ UNCHANGED <<outside, stopping, crashes, halts>>

(* work returned: the claim is forgotten and the loop goes on.              *)
Leave(g) ==
    /\ Working(g, "done")
    /\ Drop({drain[g].row})
    /\ drain' = [drain EXCEPT ![g].at = "idle", ![g].row = NoClaim]
    /\ UNCHANGED <<outside, control>>

-----------------------------------------------------------------------------
(* workRow *)

(* A row claimed past the end of its ladder is parked before any work.      *)
Abandon(g) ==
    LET c == drain[g].row IN
    /\ Working(g, "started") /\ Exhausted(c.attempt)
    /\ Settle(g, Held(c), MarkAbandoned(c))
    /\ UNCHANGED control

(* readyRecords: only a pending row is normalized; any other is delivered   *)
(* from what the first commit stored.                                       *)
NextStage(row) == IF row.state = "pending" THEN "normalize" ELSE "reopen"

(* Outbox.Work.  The read is not guarded by the lease: a worker whose row   *)
(* was taken over, or finished, reads it all the same.                      *)
ReadWork(g) ==
    LET c == drain[g].row IN
    /\ Working(g, "started") /\ ~Exhausted(c.attempt)
    /\ Move(g, NextStage(outbox[c.row]), {})
    /\ UNCHANGED <<outboxVars, outside, control>>

(* Outbox.PreparedRecords and record.Reopen.                                *)
Reopen(g) ==
    /\ Working(g, "reopen")
    /\ Move(g, "deliver", Waiting(drain[g].row.row))
    /\ UNCHANGED <<outboxVars, outside, control>>

(* Pipeline.Normalize, outside every transaction.  What the records are     *)
(* depends on what hydration sees now, so any set may come back.            *)
Normalize(g) ==
    /\ Working(g, "normalize")
    /\ \E N \in SUBSET Records : Move(g, "normalized", N)
    /\ UNCHANGED <<outboxVars, outside, control>>

(* Mutated form: the ledger is not asked.                                   *)
NewRecordsMutant(t, N) == SUBSET N

(* What Pipeline.Prepare may return of N: no record the ledger holds        *)
(* (admitSkip), and of the others all but the stale ones (admitStale).      *)
NewRecords(t, N) == SUBSET (N \ record_ledger[t])

(* Mutated form: MarkPrepared is not guarded by the lease token.            *)
PrepareMutant(g) ==
    LET c == drain[g].row
        t == c.row[1]
        R == drain[g].recs \ record_ledger[t] IN
    /\ Working(g, "normalized") /\ IsUnfinished(c.row)
    /\ outbox' = [outbox EXCEPT ![c.row].state = "prepared", ![c.row].prepared_at = TRUE]
    /\ outbox_record' = [outbox_record EXCEPT ![c.row] =
                            [x \in Records |-> IF x \in R THEN "prepared" ELSE @[x]]]
    /\ record_ledger' = [record_ledger EXCEPT ![t] = @ \cup R]
    /\ Move(g, "deliver", R)
    /\ UNCHANGED <<claims, sink, skipped, reached, control>>

(* The preparing transaction: ledger rows, records and the row's new state  *)
(* commit together or not at all.  A commit whose answer is lost is an error*)
(* to the worker, which puts the row back on the ladder.                    *)
Prepare(g) ==
    LET c == drain[g].row
        t == c.row[1] IN
    /\ Working(g, "normalized")
    /\ \/ \E R \in NewRecords(t, drain[g].recs) :
             /\ PrepareIn(c, R)
             /\ record_ledger' = [record_ledger EXCEPT ![t] = @ \cup R]
             /\ skipped' = [skipped EXCEPT ![c.row] = drain[g].recs \cap record_ledger[t]]
             /\ UNCHANGED <<sink, reached>>
             /\ Move(g, "deliver", R) \/ Move(g, "retry", {})
       \/ /\ ~(Held(c) /\ outbox[c.row].state = "pending")
          /\ UNCHANGED <<outboxVars, outside>>
          /\ Move(g, "done", {})
    /\ UNCHANGED control

(* Mutated form: a record not named in a readable answer counts as taken,   *)
(* and an answer with nothing in it names none.                             *)
RefusedMutant(offered, taken) == {}

(* deadRecords of a readable answer: every offered record not taken.        *)
Refused(offered, taken) == offered \ taken

(* Sink.Deliver, outside every transaction.  The receiver has taken some of *)
(* the records whatever the answer: a Fault may be a lost response.  An     *)
(* answer that does not line up with the batch is retried like a Fault.     *)
Offer(g) ==
    LET c == drain[g].row
        t == c.row[1]
        recs == drain[g].recs IN
    /\ Working(g, "deliver") /\ recs # {}
    /\ \E taken \in SUBSET recs :
          /\ sink' = [sink EXCEPT ![t] = @ \cup taken]
          /\ reached' = [reached EXCEPT ![KeyOf(c.row)] =
                IF taken \subseteq sink[t] \/ outbox[c.row].seq < @ THEN @ ELSE outbox[c.row].seq]
          /\ \/ Move(g, "answered", Refused(recs, taken)) /\ UNCHANGED <<crashes, halts, left>>
             \/ Move(g, "retry", {}) /\ UNCHANGED <<crashes, halts, left>>
             \/ Move(g, "halt", {}) /\ CountHalt
    /\ UNCHANGED <<outboxVars, record_ledger, skipped, stopping>>

(* Sinks.Sink: a tenant whose sink cannot be built halts.                   *)
NoSink(g) ==
    /\ Working(g, "deliver") /\ drain[g].recs # {}
    /\ Move(g, "halt", {}) /\ CountHalt
    /\ UNCHANGED <<outboxVars, outside, stopping>>

(* Drain.finish: an answer is recorded, or there was nothing to offer.      *)
FinishRow(g) ==
    LET c == drain[g].row
        recs == drain[g].recs IN
    /\ \/ Working(g, "answered")
       \/ Working(g, "deliver") /\ recs = {}
    /\ Settle(g, Held(c) /\ recs \subseteq Waiting(c.row), MarkDelivered(c, recs))
    /\ UNCHANGED control

(* Drain.fail: a database error while reading or preparing, the provider's  *)
(* API, or a Fault that asks for a retry.                                   *)
FailRow(g) ==
    LET c == drain[g].row IN
    /\ drain[g].at \in {"started", "reopen", "normalize", "normalized", "retry"}
    /\ Working(g, "started") => ~Exhausted(c.attempt)
    /\ Settle(g, Held(c), Fail(c))
    /\ UNCHANGED control

(* Drain.dead: pipeline.ErrDeadLetter, or a stored record that does not     *)
(* reopen.                                                                  *)
DeadRow(g) ==
    LET c == drain[g].row IN
    /\ drain[g].at \in {"reopen", "normalize", "normalized"}
    /\ Settle(g, Held(c), MarkDead(c))
    /\ UNCHANGED control

(* Drain.halt. *)
HaltRow(g) ==
    LET c == drain[g].row IN
    /\ Working(g, "halt")
    /\ Settle(g, Held(c), Halt(c))
    /\ UNCHANGED control

-----------------------------------------------------------------------------
(* What goes wrong *)

(* A panic, which the guard in work recovers, or an error of the database   *)
(* on the outcome: nothing is written and the row keeps its lease.          *)
Lose(g) ==
    /\ drain[g].at \notin {"idle", "unheard", "done"}
    /\ LeaveBehind({drain[g].row})
    /\ Move(g, "done", {})
    /\ UNCHANGED <<outboxVars, outside, stopping>>

(* The process dies, and another is started: what it held in memory is gone.*)
Crash(g) ==
    /\ drain[g] # IdleDrain
    /\ LeaveBehind(HeldBy(g))
    /\ Drop(HeldBy(g))
    /\ drain' = [drain EXCEPT ![g] = IdleDrain]
    /\ stopping' = [stopping EXCEPT ![g] = FALSE]
    /\ UNCHANGED outside

(* The context of Run is cancelled.                                         *)
Shutdown(g) ==
    /\ ~stopping[g]
    /\ CountHalt
    /\ stopping' = [stopping EXCEPT ![g] = TRUE]
    /\ UNCHANGED <<outboxVars, outside, drain>>

(* Run has returned, and the process is started again.                      *)
Restart(g) ==
    /\ stopping[g] /\ drain[g] = IdleDrain
    /\ stopping' = [stopping EXCEPT ![g] = FALSE]
    /\ UNCHANGED <<outboxVars, outside, drain, crashes, halts, left>>

(* A live goroutine holds a lease on r it has not given up.                 *)
LeasedByLive(r) ==
    \E g \in Drains : \E c \in HeldBy(g) :
        /\ c.row = r /\ Held(c)
        /\ ~(Working(g, "done") /\ c = drain[g].row)

(* The clock.  NewDrain keeps RowTimeout below Lease, so a batch of one is  *)
(* done before its lease runs out.  With the default batch of five it need  *)
(* not be: the tail of a batch may be worked after its lease has expired.   *)
TimePasses(r) ==
    /\ InsideLease => ~LeasedByLive(r)
    /\ Elapse(r)
    /\ UNCHANGED <<outside, drain, control>>

(* The ingress and an operator: what else writes the outbox.  A parked row  *)
(* is never claimed, so Park is left to module Outbox.                      *)
Others ==
    /\ \/ \E t \in Tenants, d \in Deliveries, k \in OrderingKeys : Accept(t, d, k)
       \/ \E r \in RowId : Replay(r)
    /\ UNCHANGED <<outside, drain, control>>

DrainStep(g) ==
    \/ ClaimBatch(g) \/ Forget(g) \/ Start(g) \/ GiveBack(g) \/ Leave(g)
    \/ Abandon(g) \/ ReadWork(g) \/ Reopen(g) \/ Normalize(g) \/ Prepare(g)
    \/ Offer(g) \/ FinishRow(g) \/ FailRow(g) \/ DeadRow(g) \/ HaltRow(g)

DrainNext ==
    \/ \E g \in Drains : DrainStep(g)
    \/ \E g \in Drains : NoSink(g) \/ Lose(g) \/ Crash(g) \/ Shutdown(g) \/ Restart(g)
    \/ \E r \in RowId : TimePasses(r)
    \/ Others

DrainSpec == DrainInit /\ [][DrainNext]_drainVars

(* A goroutine of a running process takes its next step, and the clock      *)
(* reaches every due_at.  A crash, a halt or a shutdown need never happen.  *)
DrainFairness ==
    /\ \A g \in Drains : WF_drainVars(DrainStep(g))
    /\ \A g \in Drains : WF_drainVars(Restart(g))
    /\ \A r \in RowId : WF_drainVars(TimePasses(r))

FairDrainSpec == DrainSpec /\ DrainFairness

-----------------------------------------------------------------------------
(* Properties *)

(* What the goroutines do to the tables is what module Outbox specifies, a  *)
(* process that dies with a whole batch included.                           *)
ImplementsOutbox == Spec

(* A record the outbox says was delivered is one the sink took, whichever   *)
(* worker recorded it and however often the row was taken over or replayed. *)
DeliveredIsAtSink ==
    \A r \in RowId, x \in Records :
        outbox_record[r][x] = "delivered" => x \in sink[r[1]]

(* The ledger holds exactly the records that are stored for delivery, and   *)
(* each of them belongs to one delivery: a ledger row with no record behind *)
(* it would be a record nobody ever sends.                                  *)
LedgerIsStored ==
    /\ \A t \in Tenants :
          record_ledger[t] = {x \in Records :
              \E r \in RowId : r[1] = t /\ outbox_record[r][x] # "none"}
    /\ \A r, s \in RowId, x \in Records :
          r[1] = s[1] /\ outbox_record[r][x] # "none" /\ outbox_record[s][x] # "none"
              => r = s

(* "Retries exhausted" is written exactly at the end of the ladder, and     *)
(* "abandoned" only past it, whatever halts, releases and takeovers did to  *)
(* the count in between.                                                    *)
LadderIsExact ==
    \A r \in RowId :
        /\ outbox[r].dead_reason = "retries exhausted" => outbox[r].attempts = LadderLen + 1
        /\ outbox[r].dead_reason = "abandoned" => outbox[r].attempts > LadderLen + 1

(* A lease no goroutine holds is one that a failure cut off from its worker:*)
(* a crash, a panic, a claim, an outcome or a give-back the database failed *)
(* ("the lease runs out and another worker takes the row over").  Every     *)
(* other way out of a row, a shutdown with rows still unworked included,    *)
(* leaves it finished or claimable without waiting out the lease.           *)
NoOrphanLease ==
    \A r \in RowId : outbox[r].lease_token # NoToken =>
        \/ \E g \in Drains : \E c \in HeldBy(g) :
              c.row = r /\ c.token = outbox[r].lease_token
        \/ \E c \in left : c.row = r /\ c.token = outbox[r].lease_token

(* Package outbox: the versions of an entity deliver one at a time, in      *)
(* queue order.  When the sink takes a record for the first time, it has    *)
(* taken none of a row that was queued behind the record's own.             *)
SinkInOrder ==
    [][\A r \in RowId, x \in Records :
          outbox_record[r][x] # "none" /\ x \in sink'[r[1]] \ sink[r[1]]
              => reached[KeyOf(r)] <= outbox[r].seq]_drainVars

(* ledger.admit on a record it skips: the sink already has this record.     *)
SkippedIsAtSink ==
    \A r \in RowId : outbox[r].state = "delivered" => skipped[r] \subseteq sink[r[1]]

(* Every accepted delivery is delivered or parked: no row waits forever     *)
(* behind a worker that died, hung, halted or was shut down.                *)
EveryRowFinishes == \A r \in RowId : IsUnfinished(r) ~> ~IsUnfinished(r)

=============================================================================
