------------------------------- MODULE Ledger -------------------------------
(***************************************************************************)
(* The ledger stage of the pipeline (internal/pipeline/ledger.go, called   *)
(* by Pipeline.Prepare): the table record_ledger, the supersede chain of   *)
(* every entity, and the locks under which a transaction reads and extends *)
(* it.  Transactions run statement by statement under READ COMMITTED: each *)
(* statement sees what is committed when it starts and what its own        *)
(* transaction wrote.                                                      *)
(*                                                                         *)
(* An entity is a (tenant, provider, external id), and a record id hashes  *)
(* the entity, the version and the scope, so a record is that triple.      *)
(***************************************************************************)
EXTENDS Versions

CONSTANTS
    Entities,   \* the entities whose versions are prepared
    Scopes,     \* visibility scopes
    OrderOf,    \* the version order each entity's provider declared
    LockKeyOf,  \* the 63 bit hash of each entity, which may collide
    Batches,    \* what Normalize may hand to Prepare: sequences of records
    SecretsOf,  \* what the masker finds in each record, in order of appearance
    Procs,      \* database connections with a Prepare open, at most
    None        \* no record

Rec == UNION {{b[i] : i \in DOMAIN b} : b \in Batches}
Secrets == UNION {{SecretsOf[r][i] : i \in DOMAIN SecretsOf[r]} : r \in Rec}

ASSUME BatchAssumption ==
    /\ \A b \in Batches : b \in Seq(Rec) \ {<<>>}
    /\ \A r \in Rec : r.entity \in Entities /\ r.scope \in Scopes /\ r.version \in ByteString
    /\ None \notin Rec
    /\ OrderOf \in [Entities -> VersionOrders \ {"unset"}]
    /\ LockKeyOf \in [Entities -> Nat]
    /\ SecretsOf \in [Rec -> Seq(Secrets)]

VARIABLES
    record_ledger,  \* the committed table: for each record [stored, supersedes, is_head]
    txn,            \* the open Prepare of each connection
    locks           \* the locks each transaction holds until it ends

ledgerVars == <<record_ledger, txn, locks>>

(* head is what EntityHead returned; new and demoted are what this          *)
(* transaction wrote; mask is the values still to be mapped to tokens.      *)
Idle == [at |-> "idle", recs |-> <<>>, i |-> 1, keys |-> {}, head |-> None,
         new |-> {}, demoted |-> {}, mask |-> <<>>]

LedgerInit ==
    /\ record_ledger = [r \in Rec |-> [stored |-> FALSE, supersedes |-> None, is_head |-> FALSE]]
    /\ txn = [p \in Procs |-> Idle]
    /\ locks = [p \in Procs |-> {}]

-----------------------------------------------------------------------------
(* What a statement of p sees and waits for *)

Current(p) == txn[p].recs[txn[p].i]
NewIds(p) == {n.id : n \in txn[p].new}

Known(p, r) == record_ledger[r].stored \/ r \in NewIds(p)

(* The head of e as p sees it: EntityHead's WHERE ... AND is_head.          *)
HeadsSeen(p, e) ==
    {r \in Rec : /\ r.entity = e /\ r \notin txn[p].demoted
                 /\ record_ledger[r].is_head \/ r \in NewIds(p)}

EntityLock(k) == <<"entity", k>>
RowLock(r) == <<"ledger", r>>
MapLock(s) == <<"map", s>>

(* Mutated form: nothing is locked.                                         *)
LockKeysMutant(recs) == {}

(* EntityLockKeys: one key per distinct entity, fewer if two collide.       *)
LockKeys(recs) == {LockKeyOf[recs[i].entity] : i \in DOMAIN recs}

(* Mutated form: the locks are taken in the order of the delivery's records.*)
NextKeyMutant(p) ==
    LET first == CHOOSE i \in DOMAIN txn[p].recs :
            /\ LockKeyOf[txn[p].recs[i].entity] \in txn[p].keys
            /\ \A j \in 1..(i - 1) : LockKeyOf[txn[p].recs[j].entity] \notin txn[p].keys
    IN  LockKeyOf[txn[p].recs[first].entity]

(* lockOrder: by the key itself, ascending.                                 *)
NextKey(p) == CHOOSE k \in txn[p].keys : \A l \in txn[p].keys : k <= l

(* The lock the next statement of p has to get: an entity's, the row it     *)
(* demotes, the index entry of the record it inserts, or one row of the     *)
(* redaction map.                                                           *)
Wants(p) ==
    CASE txn[p].at = "lock"   -> {EntityLock(NextKey(p))}
      [] txn[p].at = "demote" -> {RowLock(r) : r \in HeadsSeen(p, Current(p).entity)}
      [] txn[p].at = "insert" -> {RowLock(Current(p))}
      [] txn[p].at = "mask" /\ txn[p].mask # <<>> -> {MapLock(Head(txn[p].mask))}
      [] OTHER -> {}

CanLock(p) == \A l \in Wants(p), q \in Procs \ {p} : l \notin locks[q]

(* The statement ran: p goes on as t and holds what it asked for.           *)
Ran(p, t) ==
    /\ CanLock(p)
    /\ txn' = [txn EXCEPT ![p] = t]
    /\ locks' = [locks EXCEPT ![p] = @ \cup Wants(p)]
    /\ UNCHANGED record_ledger

More(t) == t.i < Len(t.recs)

(* The masker scans what was admitted, and nothing else.                    *)
Admitted(t, r) == \E n \in t.new : n.id = r
MaskOf(t) ==
    LET f[i \in 0..Len(t.recs)] ==
          IF i = 0 THEN <<>>
          ELSE IF Admitted(t, t.recs[i]) THEN f[i - 1] \o SecretsOf[t.recs[i]] ELSE f[i - 1]
    IN  f[Len(t.recs)]

(* The loop of Prepare goes on to the next record, or to the masker.        *)
NextRecord(t) ==
    IF More(t) THEN [t EXCEPT !.at = "head", !.i = @ + 1, !.head = None]
    ELSE [t EXCEPT !.at = "mask", !.mask = MaskOf(t)]

End(p) ==
    /\ txn' = [txn EXCEPT ![p] = Idle]
    /\ locks' = [locks EXCEPT ![p] = {}]

-----------------------------------------------------------------------------
(* Prepare *)

Begin(p, b) ==
    /\ txn[p].at = "idle"
    /\ txn' = [txn EXCEPT ![p] = [Idle EXCEPT !.recs = b, !.keys = LockKeys(b),
                 !.at = IF LockKeys(b) = {} THEN "head" ELSE "lock"]]
    /\ UNCHANGED <<record_ledger, locks>>

(* LockEntityKey, one key after the other.                                  *)
LockEntity(p) ==
    LET left == txn[p].keys \ {NextKey(p)} IN
    /\ txn[p].at = "lock"
    /\ Ran(p, [txn[p] EXCEPT !.keys = left, !.at = IF left = {} THEN "head" ELSE "lock"])

(* ledger.head: the query EntityHead.                                       *)
ReadHead(p) ==
    LET heads == HeadsSeen(p, Current(p).entity) IN
    /\ txn[p].at = "head"
    /\ \/ heads = {} /\ Ran(p, [txn[p] EXCEPT !.at = "known", !.head = None])
       \/ \E h \in heads : Ran(p, [txn[p] EXCEPT !.at = "known", !.head = h])

(* Mutated form: a record the ledger knows is always skipped.               *)
ScopeReturnedMutant(p, r) == FALSE

(* ADR 4 decision 7: known, not the head, and the head is in another scope. *)
ScopeReturned(p, r) ==
    /\ Known(p, r) /\ r \notin HeadsSeen(p, r.entity)
    /\ txn[p].head # None /\ txn[p].head.scope # r.scope

(* ledger.admit, from the query LedgerEntry to the decision.                *)
Decision(p, r) ==
    LET c == compareVersions(OrderOf[r.entity], r.version, txn[p].head.version) IN
    IF ScopeReturned(p, r) THEN "refuse"
    ELSE IF Known(p, r) THEN "pass over"
    ELSE IF txn[p].head = None THEN "first"
    ELSE IF ~c.ok THEN "refuse"
    ELSE IF c.order < 0 THEN "pass over"
    ELSE "replace"

(* A record that is skipped or stale leaves nothing behind.                 *)
PassOver(p) ==
    /\ txn[p].at = "known" /\ Decision(p, Current(p)) = "pass over"
    /\ Ran(p, NextRecord(txn[p]))

Admit(p) ==
    /\ txn[p].at = "known"
    /\ \/ Decision(p, Current(p)) = "first" /\ Ran(p, [txn[p] EXCEPT !.at = "insert"])
       \/ Decision(p, Current(p)) = "replace" /\ Ran(p, [txn[p] EXCEPT !.at = "demote"])

(* ErrScopeReturned and ErrVersionNotComparable: the delivery is a dead     *)
(* letter and its transaction is rolled back.                               *)
Refuse(p) ==
    /\ txn[p].at = "known" /\ Decision(p, Current(p)) = "refuse"
    /\ End(p)
    /\ UNCHANGED record_ledger

(* DemoteEntityHead takes the marker off whatever row has it now.           *)
Demote(p) ==
    /\ txn[p].at = "demote"
    /\ Ran(p, [txn[p] EXCEPT !.at = "insert",
                             !.demoted = @ \cup HeadsSeen(p, Current(p).entity)])

(* The primary key and the index record_ledger_one_head let the row in.     *)
(* A conflicting row of a transaction still open makes the INSERT wait.     *)
IndexAllows(p, r) ==
    /\ ~Known(p, r) /\ HeadsSeen(p, r.entity) = {}
    /\ \A q \in Procs \ {p} : \A n \in NewIds(q) \cup txn[q].demoted : n.entity # r.entity

(* InsertLedgerEntry: the new head supersedes the head that was read.       *)
Insert(p) ==
    LET r == Current(p)
        t == [txn[p] EXCEPT !.new = @ \cup {[id |-> r, supersedes |-> txn[p].head]}]
    IN
    /\ txn[p].at = "insert" /\ IndexAllows(p, r)
    /\ Ran(p, NextRecord(t))

(* UpsertRedactions: one row of the map after the other, in the order the   *)
(* values appear.  A value met before is locked already.                    *)
Mask(p) ==
    /\ txn[p].at = "mask" /\ txn[p].mask # <<>>
    /\ Ran(p, [txn[p] EXCEPT !.mask = Tail(@)])

(* The caller's transaction commits.                                        *)
Commit(p) ==
    LET t == txn[p] IN
    /\ t.at = "mask" /\ t.mask = <<>>
    /\ record_ledger' = [r \in Rec |->
          IF \E n \in t.new : n.id = r
          THEN [stored |-> TRUE, is_head |-> r \notin t.demoted,
                supersedes |-> (CHOOSE n \in t.new : n.id = r).supersedes]
          ELSE [record_ledger[r] EXCEPT !.is_head = @ /\ r \notin t.demoted]]
    /\ End(p)

(* An error, a constraint that refuses a row, a timeout, a lost connection. *)
Rollback(p) ==
    /\ txn[p].at # "idle"
    /\ End(p)
    /\ UNCHANGED record_ledger

LedgerNext ==
    \E p \in Procs :
        \/ \E b \in Batches : Begin(p, b)
        \/ LockEntity(p) \/ ReadHead(p) \/ PassOver(p) \/ Admit(p) \/ Refuse(p)
        \/ Demote(p) \/ Insert(p) \/ Mask(p) \/ Commit(p) \/ Rollback(p)

LedgerSpec == LedgerInit /\ [][LedgerNext]_ledgerVars

-----------------------------------------------------------------------------
(* Properties *)

ChainOf(e) == {r \in Rec : r.entity = e /\ record_ledger[r].stored}
SupersededBy(r) == {s \in Rec : record_ledger[s].stored /\ record_ledger[s].supersedes = r}

(* The rows of an entity are one chain: one head, which nothing supersedes; *)
(* every other row superseded exactly once, by a row of its own entity; and *)
(* no cycle.  A fork or an orphan violates no constraint of the table.      *)
ChainIsWhole ==
    \A e \in Entities :
        /\ ChainOf(e) # {} => \E h \in ChainOf(e) :
              /\ \A r \in ChainOf(e) : record_ledger[r].is_head <=> r = h
              /\ SupersededBy(h) = {}
              /\ \A r \in ChainOf(e) \ {h} : \E s \in ChainOf(e) : SupersededBy(r) = {s}
        /\ \A S \in SUBSET ChainOf(e) :
              S # {} => \E r \in S : record_ledger[r].supersedes \notin S

(* The head is not older than any record of its entity, by the number its   *)
(* version stands for: an older record never takes over the scope that      *)
(* access is decided on.                                                    *)
HeadIsNewest ==
    \A e \in Entities : \A r, h \in ChainOf(e) :
        record_ledger[h].is_head /\ r # h
            => Value(OrderOf[e], r.version) <= Value(OrderOf[e], h.version)

(* ADR 12, decision 1: the locks are taken in one order, so transactions    *)
(* queue and never wait for each other.                                     *)
WaitsFor(p, q) == p # q /\ Wants(p) \cap locks[q] # {}
NoWaitCycle == \A p, q \in Procs : ~(WaitsFor(p, q) /\ WaitsFor(q, p))

(* ADR 4, decision 7: a delivery that commits leaves its entities in the    *)
(* scope it reported, unless the entity already has a newer record.  A move *)
(* back into an old scope is refused and never passed over in silence.      *)
ScopeIsCurrent ==
    [][\A p \in Procs : Commit(p) =>
          \A i \in DOMAIN txn[p].recs :
              LET r == txn[p].recs[i]
                  e == r.entity
              IN  (\A j \in (i + 1)..Len(txn[p].recs) : txn[p].recs[j].entity # e)
                  => \E h \in Rec :
                        /\ h.entity = e /\ record_ledger'[h].is_head
                        /\ \/ h.scope = r.scope
                           \/ Value(OrderOf[e], r.version) < Value(OrderOf[e], h.version)
      ]_ledgerVars

=============================================================================
