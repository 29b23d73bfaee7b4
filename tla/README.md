# Lawang in TLA+

Lawang takes webhook deliveries from providers, stores each one under the tenant that owns it,
normalizes it into records in the background, and hands the records to the tenant's sink, at least
once, in order for each entity, never mixing tenants. This directory specifies the parts of it
where that promise is decided, checks them with TLC on small instances, and proves what matters
most with TLAPS.

Paths below are relative to the repository. `PROJECT.json` maps every definition to its lines.

## The system

| component | state | operations | talks to |
|---|---|---|---|
| ingress (`internal/ingress`) | requests in flight, the routing table | build the table; accept a POST or a handshake, bound the work, map a verdict to a status | hub |
| hub (`internal/hub`) | table `subscriptions` | resolve the owner of a delivery, verify, store or park it; register a subscription | outbox, provider |
| outbox (`internal/outbox`) | tables `outbox`, `outbox_record` | Accept, Park, Claim, PrepareIn, MarkDelivered, Fail, Halt, Release, MarkDead, MarkAbandoned, Replay | store |
| worker (`internal/worker`) | claims and a batch in memory | claim, work a row, shut down | outbox, pipeline, sink |
| pipeline (`internal/pipeline`) | tables `record_ledger`, `redaction_map` | Normalize, Prepare (lock, admit, mask) | provider, store |
| sinks (`internal/sink`) | the receiver's records, a file | Deliver | the receiver |
| ClickUp provider (`internal/provider/clickup`) | the rate limiter | Parse, Verify, Hydrate, Normalize | ClickUp, vault |
| vault (`internal/vault`) | table `vault_credentials`, cached tokens | Store, Revoke, Fetch | Nango, the identity platform |
| store, tenancy | the connection pool | a transaction bound to one tenant or one role, READ COMMITTED | Postgres |
| process (`cmd/lawang`) | | start, shut down with a grace | all |

Everything shared between processes is in Postgres. Any number of replicas run the ingress and the
drain at the same time, so what makes this program hard is:

* **concurrent transactions at READ COMMITTED.** The head marker of a queue, the chain of an entity
  and the owner of a delivery are read and used by several statements. Constraints refuse some of
  the broken states and not the others (a stranded key, a forked chain, a wrong owner).
* **leases.** A row is worked outside any transaction; a worker may be slow, die, be shut down, or
  come back after another one took its row over.
* **effects outside the database.** A call of a sink, a provider or a vault is neither undone nor
  known to have happened; answers are lost, late, mixed up, or somebody else's.
* **retries.** A provider sends a delivery again until it is settled; a finished row is replayed, in
  the state it had reached, behind newer versions.
* **order and time.** Versions of an entity must be linked and delivered oldest first, though they
  are hydrated late; tokens expire, clocks go back, rates must hold.

The hazards in `PROJECT.json` are where these can go wrong, each at its line.

## Modules

| module | models | how |
|---|---|---|
| `Outbox` | `internal/outbox`, migrations 2 and 5 | one atomic action per operation of the Go type |
| `OutboxTxn` | the same writers | statement by statement, with the locks; implements `Outbox` |
| `Drain` | `internal/worker` | the goroutines; extends `Outbox` and uses its actions; implements `Outbox` |
| `Versions`, `Ledger` | `internal/pipeline/ledger.go`, `Prepare` | versions as bytes; statement by statement, with the locks |
| `Hub` | `internal/hub` | a step per transaction and per verification; extends `Outbox` and stores through it |
| `Ingress` | the handler of `internal/ingress`, shutdown and restart | extends `Hub` |
| `Routing` | `Route`, `newMux`, `canonicalPathOnly` | the table built route by route; net/http's ServeMux as external operators |
| `SinkContract` | the `Sink` interface | the abstract specification of a sink |
| `Stub`, `Sinks` | `internal/sink` | the strict receiver, and the three sinks request by request; implements `SinkContract` |
| `Limiter`, `ClickUp` | `internal/provider/clickup` | the token bucket; hydration request by request while the task changes |
| `Vault` | `internal/vault` | the local store, Nango, and the token cache of AzureApp |
| `OutboxProofs`, `OutboxTxnProofs`, `DrainProofs`, `LedgerProofs`, `IngressProofs`, `SinkContractProofs`, `SinksProofs`, `HydrateProofs` | | the theorems |
| `MCOutbox`, `MCOutboxTxn`, `MCDrain`, `MCLedger`, `MCIngress`, `MCSinks`, `MCHydrate` | | the instances TLC checks |

**Outbox.** `outbox` maps a row id, (tenant, delivery id), to its columns, with state `absent` for a
row that is not there; `outbox_record` maps it to the state of each record; `claims` is the set of
`Claimed` values that workers hold. Every transition has the guard `Held`, the `WHERE` clause with
the lease token; without it the code returns `ErrLeaseLost` and writes nothing, which is a stutter.
Finishing a row and promoting the next head are one step (`finishIn`). Time is the Boolean `due`:
whether `due_at <= now()`. A `Cause` is reduced to whether an attempt reported one. A claim may take
any set of due heads, because a locked row is skipped. Any worker may lose its claims (`Drop`).

**OutboxTxn.** A transaction is a program of statements (`Program`), run one at a time on the tables
as they are committed at that moment. `Wants` is what the next statement has to lock; `Take` is
`FOR UPDATE SKIP LOCKED` with the re-check Postgres makes on the version it locked; `IndexAllows` is
the unique index on heads. Every transaction may be rolled back at any point. `ImplementsOutbox`
says that nothing but a commit shows and that a commit is one operation of `Outbox`; the refinement
mapping is the identity on the three tables.

**Drain.** Each goroutine is at one of the places of `once` and `workRow`. What it read is kept in
`recs` and may be stale by the time it is used; only the outbox's transitions look at the lease.
`Offer` lets the sink take any subset of the records before it answers, fails or halts: a failure
may be a lost response. Calls of the database are lost in the same way. `Prepare` may commit and
still fail to its worker, which puts the row back on the ladder. A claim may commit and still be an
error to `once`, because it runs on the context a shutdown cancels: at `unheard` its rows are
leased, and `Forget` is the return that leaves them to nobody. `GiveBack` may fail row by row,
`Lose` is a panic or an outcome the database refuses, and `Crash` forgets a whole batch. `left` is
the history of the claims cut off in one of these ways, kept until a later claim finds them gone.
`MaxTrouble` bounds crashes and halts together. `InsideLease` says whether `Batch x RowTimeout` is
below `Lease`: `NewDrain` only keeps `RowTimeout` below `Lease`, so a batch of one is inside and the
default batch of five is not. `skipped` and `reached` are history variables. A pool of goroutines is
modelled as several drains with a pool of one, which share nothing but the context.

**Ledger.** `txn` is an open `Prepare`: it locks its entities by ascending key, and for each record
reads the head (`EntityHead`), reads the entry and decides (`LedgerEntry`, `admit`), demotes, and
inserts. It sees its own writes (`new`, `demoted`) on top of what is committed. A hash collision
of two entities is part of the instance. The masker appears as the row locks `UpsertRedactions`
takes.

**Hub and Ingress.** A request is at one of the places of `ServeHTTP` and `Accept`: two candidate
queries on two snapshots, the cut at `MaxCandidates`, one verification after the other, and the
store or the parking, which is `Accept` or `Park` of `Outbox`. Operators register at any moment. A
fault ends an accept with 503 or with nothing, and the commit may have happened all the same.
`Exit` is the end of the process, with or without the grace of a shutdown. `steady` and `always`
are history: the subscriptions that owned the delivery and were not written since its first query,
and those that owned it in every state since. What a provider reads out of a delivery, and which
secrets verify it, are functions of the delivery.

**Routing.** `stage` follows `newMux`: check the routes, register them, ask the mux of each root
whether it redirects, guard those that do. `Matched`, `Redirected` and `Conflict` are net/http's
rules of precedence, trailing-slash redirect and pattern conflict, on paths as sequences of segments.

**Sinks.** `call` is the `Deliver` a worker is in, `wire` the requests under way, each with how far
the receiver is through it. A worker may give up on a request that is still on the way. The receiver
refuses record by record (`style` "list") or with a 422 as a whole; a proxy may answer in its place,
an answer may be garbled or lost. The refinement to `SinkContract` maps `held` to what the receiver
or the file has, and `asked` to the batch of each call.

**ClickUp and Vault.** People edit, move and comment (`changes`) between the requests of a
`Hydrate`; any of their events may come with no date that can be read, and so with the time 0
(`Unread`). `shown` says whether the event or the subject itself has the time of the change: an
edited comment keeps its date, and a moved task may keep its `date_updated`, so these two can go
unseen. A comment is searched page by page, with the cursor of the page before, and the search may be
cut short at any full page, whose oldest comment may have no id or date to go on by. `records` is the
history of what was stored, with the number of edits each content has seen. `Limiter` holds tokens
in units of time, and `level` is what an observer of the requests makes of them. In `Vault` an
envelope is the key and slot it was sealed for and what became of it; a token has a lifetime in
seconds and a duration that wraps at `Width`; `had` is every credential a slot had since the call
began.

## Runs

All bounds are constants. Symmetry is declared for interchangeable values and never where liveness
is checked. `CHECK_DEADLOCK FALSE` is given where the bounds or a system at rest end a behaviour;
deadlock between transactions is the invariant `NoWaitCycle`.

| run | asks | instance |
|---|---|---|
| `outbox` | the head marker, leases in order, records, replays | 3 deliveries in one key, 1 record, 2 tokens, seq to 3, ladder 1 |
| `outbox_txn` | do the statements implement `Outbox`, without deadlock, without the index refusing anyone | 2 deliveries in one key, 2 connections, 2 tokens, every operation; a row is leased again after a halt or a release |
| `drain` | claims, ladder and sink agree; a lease nobody holds was cut off by a failure; the drain implements `Outbox` | 2 drains, batches of 2, 2 tenants with one delivery of the same id and key, ladder 1, 1 trouble (crash, panic, halt, shutdown, a claim or an outcome the database fails), releases that fail, takeovers of rows whose worker is late |
| `drain_live` | every accepted row is finished; the sink sees queue order; the ladder ends where it says when workers are lost; the ledger holds what is stored | 2 drains, batches of 1 inside the lease, 2 deliveries, 2 records, 3 tokens, 1 crash or panic or failed claim or outcome, ladder 0 |
| `ledger` | the chain, its head, scopes, lock order | 2 transactions, 3 entities, one per version order, one collision |
| `ingress` | who a delivery is routed to, what 401 and 200 mean, queues and their subscriptions, every delivery settles; redirects, guards and the edge's own path | 2 posts, 2 deliveries, 4 slots, 2 starting tables, 1 of 4 registrations, 1 fault; every table of up to 3 of 19 routes |
| `sink` | the sinks implement `SinkContract`; sizes, chains, lines | 2 workers, overlapping batches, 3 calls, 3 faults, each sink |
| `hydrate` | the rate; the newest version is the current content; comments are found; a credential is the slot's own; a token has life left | 2 workers, 2 changes, their times to be read or not, pages of 2, searches cut short; 2 slots, 2 keys, 2 credentials, 2 faults, 7 lifetimes, each vault |
| `drain_skip`, `drain_late`, `ledger_mask`, `ingress_race` | see below | |

Why these are enough to be interesting: three rows of a key are the fewest for which the promotion
has a choice; a replay needs one seq more than there are deliveries; two tokens and two attempts are
a takeover with the first worker still alive, which for the tables is also a lost one. `drain` and
`drain_live` have one crash or one of the failures that cut a worker off from its claims: one is
enough to leave a lease nobody holds, or a whole batch of them, behind. The ladder of length 0 in
`drain_live` makes both of its ends reachable; a shutdown is only in `drain`, where a batch has a
row to give back. Two transactions are enough for a fork of a chain and for a cycle of waits. Two
posts and one registration are enough for a delivery that meets itself and for an owner that changes
between two queries; the starting tables hold the cases a registration would need several steps to
reach. Three routes are the fewest whose combination redirects what no two of them do. In `sink` one
batch fits a request only without its comma and becomes two, the other is one request, and each
holds a document that is never sent. In `hydrate` the lifetimes lie around the leeway and the
maximum and wrap to less than nothing and to something usable. `MCIngress` and `MCHydrate` hold
components that share no state, so a behaviour is of one of them (`part`): the routing table is
built before the first request is served.

Each property has a mutant, an operator beside the one it replaces, that TLC finds it violated with.

**Fairness.** `drain_live`: weak fairness of each goroutine's next step, of the restart of a process
that was shut down, and of the clock. The loop in `Run` has no exit but its context, every call in
`workRow` has a deadline (`RowTimeout`), so a goroutine always takes its next step; rows become due
because time passes. Nothing is assumed about crashes, halts, claims that fail, the provider or the
sink, except that the bounds `MaxCrashes`, `MaxHalts` and `MaxTrouble` end the run of bad luck: a
sink that halts for ever keeps its row for ever, which is what `Halt` is for. `ingress`: weak
fairness of the steps of an accept, which the accept timeout bounds, and of the end of a process
that was told to stop, which the shutdown grace bounds; strong fairness of the provider's posts,
because a provider goes on sending what is not settled, and what may be taken from it at times (a
free place among `Requests`, a process that is up) is not limited in the system. `MaxFaults` ends
the bad luck.

### Where the code and its comments disagree

Four runs are expected to find a violation. Each checks one sentence of the repository.

* `drain_skip`: `ledger.admit` says of a record it skips that the sink already has it. The ledger
  holds what was prepared: if the first delivery was dead-lettered, the second is marked delivered
  and the sink has the record from neither.
* `drain_late`: package `outbox` promises the versions of an entity one at a time in queue order.
  The sink call is not guarded by the lease, so outside the lease an old version can follow a newer.
  `drain_live` shows that the promise holds inside it.
* `ledger_mask`: `Prepare` orders its entity locks, and locks the rows of the redaction map in the
  order the values stand in the text: two deliveries can deadlock there. Postgres aborts one.
* `ingress_race`: package `hub` says that a delivery more than one subscription verifies is parked.
  The two candidate queries read two snapshots, and a row that is re-registered between them, from
  one key to the other, is in neither although it owned the delivery throughout. `RoutedToOnlyOwner`
  is what does hold: no subscription that was left alone meanwhile is overlooked.

Smaller disagreements met while modelling, which no run is spent on:

* `Ladder.Exhausted` and `MarkAbandoned` say that no attempt of an abandoned row reported a failure.
  One that failed, and whose next workers were lost, is parked the same way.
* The comment on `ingress.New` takes a caller that gives every route a method to be safe from a
  refused table. `GET /a/` with `HEAD /{x}`, or `GET /a/{x}/` with `GET /{y}/b`, are legal for
  net/http and refused for their guard.
* The comment on `DefaultPerMinute` says that the drain alone cannot be rate limited by ClickUp. A
  full bucket allows `Burst` requests more in its first minute; `RateHolds` is the bound that holds.
* `AzureApp.cached` says a token is good for longer than the leeway. It is good for the leeway less
  what its answer took on the way (`TokenLives`).
* `version` says that it moves on every change ClickUp reports. `Parse` accepts an event whose
  history has no readable date, with the time 0. If that is an edit of a comment, or a move that
  leaves `date_updated` as it was, the version stays: the newest version may then be what the entity
  was before, and an edited comment has the record id of its old text, so that the ledger skips the
  new one. `LatestIsCurrent` and `IdNamesContent` say what holds, with exactly these changes
  excepted (`SeenOf`, `KeptVersion`).
* `loop` says of a claim that fails that nothing is leased. A claim whose commit lands while its
  context is cancelled, or whose answer is lost, has leased its rows; they wait out the lease
  (`NoOrphanLease`).

## Theorems

Checked by `tlapm`, for every value of the constants.

`OutboxProofs` rests on `IInv`, which TLC's instances satisfy and `Inductive` proves:

* `HeadInvariant` alone is not inductive: `PromoteNextHead` chooses by `seq`, so it needs
  `DistinctSeq`; `NoStrandedKey` is used in the form `HasHead`, a head for every unfinished row.
* `RowConsistent` ties a lease to the head (so that `OneInFlight` follows from `OneHead`), `pending`
  to a row never prepared, and keeps the sentinel's rows finished under keys of their own.
* `ClaimIsCurrent` needs that a fresh token is one no claim remembers, `UsedTokens`; `lease_token` is
  a new ULID per claim.
* `RecordsFollowRow` is kept by `MarkDelivered` and `Replay` because both move row and records at once.

From it: `TypeCorrect`, `HeadMarkerCorrect`, `OneVersionInFlight`, `ClaimsCurrent`,
`RecordsConsistent`, and the action properties `LeasesInOrder`, `PreparedOnce`, `DeliveredIsFinal`.

`OutboxTxnProofs` proves that the statements do what `Outbox` says they do. `TxnInv` says of every
open transaction that what it has read or decided is still so: the place in the queue of a row that
comes (`Queued`), the row that moves up when one goes, the state and the lease of the row it has
locked, the records it has locked, the due heads a claim has taken. None of this would be inductive
without the locks, so the invariant also says what each transaction holds, statement by statement
(`HeldLocks`), and that no lock, no `Claimed` and no fresh token has two holders (`Apart`). The
argument has two halves. `SoundKept`: what a transaction knows survives any step that leaves alone
the rows and the queue it has locked and does not give it back a lease it lost (`Spares`).
`WritesSpare`: a commit that writes only rows it has locked, and moves a row within a queue only
under the key's lock (`Writes`), is such a step for everybody else; the lemmas after it show this
of each commit, and that it is the operation of `Outbox`. The records a delivery locks before its
row are an odd case: they stay its waiting ones only while its lease does, which the next statement
asks for. From `TxnInv`: `StatementsImplementOperations`, `IndexNeverRefuses`, `NoDeadlock`, and
`WaitsEnd`, which the run cannot see with its two connections: a transaction that waits for one that
waits holds nothing but its key's lock, and one that waits for a key's lock holds nothing at all, so
no chain of waits is longer than three and there is no cycle of any length. `PrepareAlone` is why
`PrepareIn`, which takes no key lock, does not spoil this: nobody else locks records of a row that
is pending.

`DrainProofs` adds `DrainOwns`: the claims in memory are exactly those the goroutines hold. With it
every step of a goroutine is a step of `Outbox` on a claim in `claims` (`OutboxStep`), which gives
`DrainImplementsOutbox`, and so all of the above for the drain, and `DrainTypeCorrect`.

Its second part follows a claim from goroutine to row. Its core is `Aloof`: a step that is not
taken for a claim leaves its row and records as they are as long as the lease is held, and nobody
gives back a lease that was lost. With it

* `LadderCorrect` needs, beside `LadderIsExact`, that an unfinished row has no reason and that a
  goroutine past the first check of `workRow` works an attempt the ladder accounts for
  (`LadderSound`); that the attempt in memory is the row's while the lease is held is `ClaimIsCurrent`.
* `LedgerCorrect`: `Prepare` commits the ledger and the records in one transaction.
* `DeliveredAtSink` needs `WorkSound`: while its goroutine holds the lease, what it offers is what
  waits, and what was not refused is at the sink. A goroutine that lost its lease may believe
  anything; the guard keeps it from writing.
* `LeasesHaveWorkers`: a goroutine that is done with a row and still holds its lease has it in `left`
  (`WorkSound`), so the lease stays accounted for when the claim is forgotten. A claim leaves `left`
  only when it lost its lease, or when its row is claimed again (`LeftStays`).
* `SinkKeepsOrder` is `DrainSpec` with `InsideLease` assumed, which the default configuration does
  not have and `drain_late` shows to be needed. It needs that a goroutine inside the lease holds it
  (`LeaseSound`), and that the sink has reached no unfinished row of a queue (`KeySound`).

`LedgerProofs` begins with the versions. `CompareIsByValue` says for versions of every length, in
each of the spellings a provider may declare, that where `compareVersions` orders two it orders the
numbers they stand for: leading zeros change nothing and the first digit that differs decides. `Value`
is a recursive function; what it computes is shown by a least counterexample (`LeastNat`) to the
equation it unfolds to, for a function that is shown to exist (`UnfoldsExists`).

The second part follows a chain from the lock to the commit. `ChainIsWhole` is not inductive: what a
transaction has written is no row of the table yet. So `LedgerInv` is about `Seen(p)`, the table as
`p` sees it and would leave it: it is whole, and its head is its newest row (`Whole`), but for the
entity `p` is about to insert for, whose chain has lost its marker to `DemoteEntityHead` and still
ends at the head that was read (`Headless`). What was read still holds when it is used (`HeadRead`),
and each record `p` is done with has its scope or a newer head (`SettledInv`). One transaction keeps
this by itself (`Demoted`, `Extended`); that a commit of another does not disturb it (`CommitOthers`)
is what the locks are for: past them, each transaction holds the keys of all its entities, so two of
them share none (`Apart`), whether or not keys collide. From it:

* `ChainsWhole`, `HeadsNewest`, and the action property `ScopesCurrent`;
* `OnlyMapCycles`: two transactions can wait for each other nowhere but in the redaction map. One
  that waits for an entity holds only lesser keys, and nobody past the locks waits for a row of the
  ledger. This holds whatever the records contain;
* `NoWaitCycles`: if every batch lists its values in one order (`OneOrder`) there is no such pair at
  all. The code does not see to that order, and `ledger_mask` shows the pair; the theorem says that
  nothing else is missing. The instance of `ledger`, with one value, satisfies the condition.

`IngressProofs` follows an accept through its queries: at each place, every subscription that owned
the delivery and was not written since is among the candidates still to be asked, or among the
owners found, or more candidates than `MaxCandidates` were found (`Accounted`). From this come
`UnverifiedMeansNobody` and `OnlyOwnerGetsIt`; `AcknowledgedIsStored` and
`QueuesKeepTheirSubscription` need in addition that a verdict is about what is stored, and that ids
are unique and kept when a slot is registered again. `IngressUsesOutbox`: every step is a step of
`Outbox` or shows nothing there, so the ingress has all of its theorems.

Its second part is about the routing table, for any finite set of routes, with any spelling of
segments and any set of paths that the two assumptions on net/http below allow. `RoutingInv` says
what `newMux` has built so far: routes that passed `Route.check`, the edge, and guards of these; no
two conflict; each route it is done with has its guard or needs none (`GuardedOrNot`); and each
guard stands where the routes alone would redirect (`GuardWasNeeded`). The last two are stated with
what a pattern answers by itself (`Meets`), not with which of several wins, because a guard that is
added later changes the winner and not that.

* Where no two patterns conflict, net/http's order makes a first of those that match a path
  (`MatchedIs`), and this first one answers the path by itself when any does (`MeetsIsExact`).
* `redirects` asks about a root as it is written, a wildcard by its own text. That stands for every
  path the root matches (`RootStandsForPaths`): no pattern's text is a wildcard's name, so what
  matches the name is a wildcard itself.
* `GuardsStandExactly`: what would answer a path and a slash is a route, never a guard, and its
  guard, or what made one needless, answers the path; so nothing is redirected. And where a guard
  wins, every route that matches is more general than the guard and comes from further up, for one
  that answered the path itself would answer the guard's root, and no guard would have been needed:
  so the routes alone would redirect there.
* `EdgeKeepsItsPaths`: a pattern that matches a path of the edge begins with the edge's prefix or
  with a wildcard. The first kind `check` refuses, in a guard too, because a guard begins like its
  route; one of the second kind matches more than the edge does somewhere, so that without a
  conflict the mux prefers the edge.

`HydrateProofs` has three parts.

*The limiter.* `RateHeld`, that in no window of time more requests are made than the burst and what
the window is worth, whatever the clock does, and `TypeHeld`. The invariant is a balance: what is in
the bucket and what the observer still counts never exceed the burst together, because a request
moves one token from the first to the second, and time adds to the first no more than it takes from
the second (`RateInv`). `HydrateKeepsRate`: the goroutines that hydrate are, to the limiter, one
sequence of calls (`ClickUpSpec` implements `LimiterSpec`).

*ClickUp.* `NewestIsCurrent`, `IdsNameContent` and `RecentFound` come from `HydrateInv`:

* What was read of an entity is its content now, or a delivery is on its way whose change is seen
  and later than the version that was read, or the entity changed last in a way that is not seen
  (`ReadOK`). This is asked of the records, and of the task that a goroutine holds while it looks for
  a comment, since it will be a record (`ReadSoFar`).
* Two readings of one version say the same, but for a comment that kept its version (`Agree`). A task
  read at its own `date_updated` may be read again under the time of a later event, never under the
  same time with another text: an edit of it always moves `date_updated`.
* The record a delivery of a comment leaves has the time of its change, or of the comment if the
  change is not seen, and every stored delivery of a change that is seen left a record no older than
  it (`StoredOK`). `ChangesOK` says by which of the two times a change is seen.
* Between the comment the last page ended with and the one that is wanted are no more comments than
  were newer than it at the first page less the pages passed (`Passed`), so a search that ends, at
  its last page or cut short, has passed as many newer comments as it has read. New comments come
  before the cursor, where no page looks, so posting does not disturb it.

*The vaults.* `OwnCredential`, that what a `Fetch` returns was made for the slot it names and was
that slot's while it ran, and `TokenOutlivesCache`, for every lifetime an issuer may name. `VaultInv`
says that a whole envelope holds a credential of the slot on its tag, wherever it was moved, and that
the time of a cached token is a count of seconds that has not wrapped.

`SinkContractProofs`: `ReportsTrue`, that a record reported as taken is at the receiver and one
reported as refused never is, at any later time, and `ContractTyped`. The invariant adds that what
was refused stays away from the receiver (`ReportInv`).

`SinksProofs` begins with what the recursive functions of `Stub` and `Sinks` compute, as far as the
proofs need it: such a function exists because its finite runs do (`RunExists`), and what is true of
each step is true of the run (`UpTo`). From this, for every batch and size, the chunks of a batch
are its sendable documents in their order, none empty, none above `MaxBytes`; and the walk of
`leadsBack` meets every document behind the one it starts at. Then

* `SinkInv` says of each call, at the place of `Deliver` it is at, where every record of its batch
  has got to: rejected, held, in a chunk still to be sent, or in the request under way (`CallOK`);
  of each request that what its receiver is done with is held or refused (`RequestOK`); and of the
  file and the stub what they have room for (`HeldOK`). A worker waits for one request, and an
  abandoned one stays true, though nobody reads its answer.
* `RefusedInv` says that what was refused is refused for good (`ForGood`): it cannot be sent, or the
  stub refuses it now and, because a stub only ever grows, at any later time.

From them `SinksKeepContract`, that the three sinks implement `SinkContract`, and with it
`SinksReportTruly`; `NoCycleIsHeld`, `EveryRequestFits` and `EveryLineIsWhole`. Of a receiver that
refuses a request whole with a 422, the first two need `SameBytes`: no document is in two different
requests. The code reads a 422 as a verdict on every record of its chunk and says why it may: the
same bytes come back the same way (`statusOf`). It is so when a record is sent in the batches of its
own row only, and these are split alike each time; a replay of a row of which some records were
delivered may split it elsewhere, and then nothing is claimed of such a receiver. A receiver that
names the records it refuses needs no such condition, and nor does the stub or a file.

Every inductive invariant was checked by TLC on an instance before it was proved. The assumptions
are those the modules name, and no more:

* the sentinel is no tenant, `NoToken` no token, `NoRow` no row, `NoClaim` no claim, `Nobody` no
  worker and `NoId` no id; the bounds are naturals; burst, rate, page and number of pages positive;
* the table `subscriptions` has its columns and a primary key, and as many slots as a table can
  hold, finitely many;
* a batch is a sequence of at least one record, with an id of its own each, whose version is a
  string of bytes; each entity has a declared version order and a lock key;
* the leeway is longer than the way of an answer and the maximum lifetime fits a duration;
* of net/http (`SpellingAssumption`): `ingress` is a text and `{provider}` a wildcard; a text is
  stored as it is written, but for an escape and for `{$}`; only the end of a pattern is, or matches,
  a trailing slash; a segment that cleaning removes is a text;
* of the paths requests have (`PathsAssumption`): they include the roots `newMux` asks about, and
  show what net/http decides by comparing patterns as such. Two patterns that match one path and a
  slash have a path in common; a pattern that matches every length below it is never within one that
  does not, nor within a longer one; a leading wildcard matches more than what begins like the edge.

`SinkKeepsOrder` has the condition `InsideLease`, `NoWaitCycles` has `OneOrder`, and two theorems of
`SinksProofs` have `SameBytes`; TLC's instances satisfy them, and each is explained above.

Only model-checked are the two liveness properties, `EveryRowFinishes` and `EveryDeliverySettles`,
which are out of the prover's reach, and the four runs that are expected to fail, which are
counterexamples and nothing to prove. Every other property that a passing run checks has a theorem.

## Not modelled

* Text and bytes: recognizing secrets, which token a value gets, record validation and encoding,
  parsing of provider payloads and configuration. They keep no state. Where their verdict matters it
  is a set or a function among the constants (`Malformed`, `Unsealed`, `SignedWith`, `SecretsOf`).
* Cryptography, HTTP exchanges and transport settings: one of their outcomes.
* `Sinks` assumes that only the receiver answers 422 or an empty 200, and leaves out the check of
  the tenant's spelling and the empty batch, which the worker does not send. `LinesAreWhole` states
  what a JSONL file keeps after a short write.
* `Routing` leaves out hosts, CONNECT, nil handlers and the spelling of methods; its paths are made
  of the texts the routes name, one no route names, and a wildcard's own text.
* `ClickUp` gives changes distinct times, and an event either the time of its change or none; a deleted
  comment is like any other failed request.
  `Vault` assumes that an answer arrives within the client's timeout, which is below the leeway.
  Neither is wired into `serve` at this commit; they are modelled from their packages and tests.
* The ClickUp webhook registration (`subscription.go`), the migration runner, logging, metrics,
  wiring, fakes and test support.
