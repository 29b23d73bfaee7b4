-------------------------------- MODULE Hub ---------------------------------
(***************************************************************************)
(* The hub (internal/hub): whose data a delivery becomes.  A request asks  *)
(* for the subscriptions its delivery's own keys could belong to, verifies *)
(* the bytes against each one's secret, and stores the delivery for the one*)
(* owner, or parks it.  The two queries read two snapshots, verification   *)
(* holds no transaction, and the store is a later transaction, while an    *)
(* operator registers subscriptions.  What is stored goes through Accept   *)
(* and Park of module Outbox.                                              *)
(*                                                                         *)
(* A delivery is named by its delivery id, which stands for the provider   *)
(* and the bytes; what a provider reads out of it and which secrets verify *)
(* it are functions of that.  A row that validate or a CHECK refuses is    *)
(* never in the table, so an unusable candidate and an ordering key too    *)
(* long to store do not occur.                                             *)
(***************************************************************************)
EXTENDS Outbox

CONSTANTS
    Requests,       \* the accepts that can be in flight at once
    Slots,          \* (tenant, provider, resource) triples operators register
    Registrations,  \* the Register calls operators make: [slot, row]
    Before,         \* what operators had registered when the run begins
    NoSubscription, \* the slot is not registered
    NoKey,          \* the empty delivery key
    Ids,            \* subscription ids, in the order the database sorts them
    Strings,        \* what a delivery key or a secret of a subscription can be
    ProviderOf,     \* the provider a delivery was posted to
    KeysOf,         \* what DeliveryKeys reads: [workspace, subscription]
    SignedWith,     \* the secrets that verify a delivery's bytes
    MaxCandidates,  \* Options.MaxCandidates
    MaxRegistered,  \* bound: Register calls
    MaxFaults       \* bound: errors, panics, lost answers and shutdowns

ASSUME HubAssumption ==
    MaxCandidates \in Nat \ {0} /\ MaxRegistered \in Nat /\ MaxFaults \in Nat

(* The table subscriptions and its constraints: a slot belongs to a tenant, *)
(* a row has its columns, and id is the primary key.  An ordering key names *)
(* a provider and such an id.                                               *)
Subscription == [id : Ids, workspace : Strings, external : Strings, secret : Strings]

ASSUME TableAssumption ==
    /\ IsFiniteSet(Slots) /\ \A s \in Slots : s[1] \in Tenants
    /\ Ids \subseteq Nat /\ NoSubscription \notin Subscription
    /\ Registrations \subseteq [slot : Slots, row : Subscription]
    /\ Before \subseteq [Slots -> Subscription \cup {NoSubscription}]
    /\ \A table \in Before : \A s, u \in Slots :
          s # u /\ NoSubscription \notin {table[s], table[u]} => table[s].id # table[u].id
    /\ \A d \in Deliveries, id \in Ids : <<ProviderOf[d], id>> \in OrderingKeys

VARIABLES
    subscriptions,  \* the table: [Slots -> row]
    request,        \* what each accept is doing
    registered,     \* how many Register calls there were
    faults          \* how many faults there were

outboxVars == <<outbox, outbox_record, claims>>

TenantOf(slot) == slot[1]

(* The verdicts of an accept that ended without one: see HubError.          *)
Errors == {"deadline", "error", "gone"}

(* A request at "edge" has not reached the hub, and one at "answer" has left*)
(* it with a verdict.  found is the candidates not asked yet, owners those  *)
(* that verified; status is an answer the edge gave without the hub.        *)
(* steady and always are history: the subscriptions that own the delivery   *)
(* and were not written since the first query began, and those that owned   *)
(* it in every state since.                                                 *)
IdleRequest == [at |-> "free", delivery |-> "none", found |-> {}, owners |-> {},
                reason |-> "", verdict |-> "", status |-> 0, steady |-> {}, always |-> {}]

HubInit ==
    /\ Init
    /\ subscriptions \in Before
    /\ request = [p \in Requests |-> IdleRequest]
    /\ registered = 0 /\ faults = 0

-----------------------------------------------------------------------------
(* Subscriptions.Register *)

Registered(table) == {s \in Slots : table[s] # NoSubscription}

(* Mutated form: the new id takes the place of the one the queue is named by*)
UpsertedMutant(slot, row) == row

(* ON CONFLICT (tenant_id, provider, resource) DO UPDATE: every column but  *)
(* the id.                                                                  *)
Upserted(slot, row) ==
    IF slot \in Registered(subscriptions) THEN [row EXCEPT !.id = subscriptions[slot].id] ELSE row

(* subscriptions_one_registration_per_tenant: ErrSubscriptionConflict.      *)
RegistrationTaken(slot, row) ==
    /\ row.external # NoKey
    /\ \E s \in Registered(subscriptions) \ {slot} :
          /\ s[1] = slot[1] /\ s[2] = slot[2]
          /\ subscriptions[s].external = row.external

(* The primary key, of a row that is inserted.                              *)
IdTaken(slot, row) ==
    /\ slot \notin Registered(subscriptions)
    /\ \E s \in Registered(subscriptions) : subscriptions[s].id = row.id

(* Mutated form: a row that recorded only one key is left out.              *)
AgreeMutant(key, column) == key = NoKey \/ key = column

(* What DeliveryKeys names and what a row recorded: a key either of them    *)
(* left empty says nothing.                                                 *)
Agree(key, column) == key = NoKey \/ column = NoKey \/ key = column

SameProvider(d, s) == ProviderOf[d] = s[2]

(* WHERE of CandidatesByWorkspace. *)
ByWorkspace(table, d) ==
    {s \in Registered(table) : /\ SameProvider(d, s)
                               /\ table[s].workspace = KeysOf[d].workspace
                               /\ Agree(KeysOf[d].subscription, table[s].external)}

(* WHERE of CandidatesBySubscription. *)
BySubscription(table, d) ==
    {s \in Registered(table) : /\ SameProvider(d, s)
                               /\ table[s].external = KeysOf[d].subscription
                               /\ Agree(KeysOf[d].workspace, table[s].workspace)}

(* Who owns d: the reference the properties use.  A delivery and a row share*)
(* a key, no key tells them apart, and the secret verifies the bytes.       *)
Owners(table, d) ==
    {s \in Registered(table) :
        LET keys == KeysOf[d]
            row == table[s]
            pairs == {<<keys.workspace, row.workspace>>, <<keys.subscription, row.external>>}
            known == {x \in pairs : NoKey \notin {x[1], x[2]}}
        IN  /\ SameProvider(d, s)
            /\ known # {} /\ \A x \in known : x[1] = x[2]
            /\ row.secret \in SignedWith[d]}

Resolving(p) == request[p].at \in {"workspace", "subscription", "verify", "store", "park"}

(* Register stores a row or updates the one of its slot; a row the table    *)
(* refuses changes nothing.                                                 *)
Register(slot, row) ==
    /\ registered < MaxRegistered /\ registered' = registered + 1
    /\ row.workspace # NoKey \/ row.external # NoKey
    /\ ~RegistrationTaken(slot, row) /\ ~IdTaken(slot, row)
    /\ subscriptions' = [subscriptions EXCEPT ![slot] = Upserted(slot, row)]
    /\ request' = [p \in Requests |->
          IF Resolving(p)
          THEN [request[p] EXCEPT !.steady = @ \ {slot},
                                  !.always = @ \cap Owners(subscriptions', request[p].delivery)]
          ELSE request[p]]
    /\ UNCHANGED <<outboxVars, faults>>

-----------------------------------------------------------------------------
(* Hub.Accept *)

CountFault == faults < MaxFaults /\ faults' = faults + 1

Goto(p, place) == request' = [request EXCEPT ![p].at = place, ![p].found = {}]

Decide(p, verdict) ==
    request' = [request EXCEPT ![p].at = "answer", ![p].verdict = verdict,
                               ![p].found = {}, ![p].owners = {}, ![p].always = {},
                               ![p].steady = IF verdict = "unverified" THEN @ ELSE {}]

ToPark(p, reason) ==
    request' = [request EXCEPT ![p].at = "park", ![p].reason = reason,
                               ![p].found = {}, ![p].owners = {}, ![p].always = {}]

(* Hub.deliveryKeys.  A delivery with no key is not looked up at all.  The  *)
(* history starts here, at the first state any query can see.               *)
deliveryKeys(p) ==
    LET d == request[p].delivery
        keys == KeysOf[d] IN
    /\ request[p].at = "edge"
    /\ IF keys.workspace = NoKey /\ keys.subscription = NoKey
       THEN ToPark(p, "unreadable")
       ELSE request' = [request EXCEPT
                ![p].at = IF keys.workspace # NoKey THEN "workspace" ELSE "subscription",
                ![p].steady = Owners(subscriptions, d),
                ![p].always = Owners(subscriptions, d)]

(* Mutated form: a candidate set cut short.                                 *)
FirstRowsMutant(S) ==
    {s \in S : Cardinality({u \in S : subscriptions[u].id < subscriptions[s].id}) < MaxCandidates}

(* ORDER BY id LIMIT max + 1. *)
FirstRows(S) ==
    {s \in S : Cardinality({u \in S : subscriptions[u].id < subscriptions[s].id}) <= MaxCandidates}

Rows(S) == {[slot |-> s, id |-> subscriptions[s].id, secret |-> subscriptions[s].secret] :
               s \in FirstRows(S)}

(* What is done with the candidates once the role transaction has committed.*)
Resolve(p, found) ==
    CASE found = {} -> ToPark(p, "no owner")
      [] Cardinality(found) > MaxCandidates -> ToPark(p, "ambiguous")
      [] OTHER -> request' = [request EXCEPT ![p].at = "verify", ![p].found = found]

CandidatesByWorkspace(p) ==
    LET d == request[p].delivery
        found == Rows(ByWorkspace(subscriptions, d)) IN
    /\ request[p].at = "workspace"
    /\ IF KeysOf[d].subscription # NoKey
       THEN request' = [request EXCEPT ![p].at = "subscription", ![p].found = found]
       ELSE Resolve(p, found)
    /\ UNCHANGED <<outboxVars, subscriptions, registered, faults>>

(* A row both queries return is one candidate, as the first one read it.    *)
Union(first, second) == first \cup {c \in second : \A f \in first : f.id # c.id}

CandidatesBySubscription(p) ==
    LET found == Rows(BySubscription(subscriptions, request[p].delivery)) IN
    /\ request[p].at = "subscription"
    /\ Resolve(p, Union(request[p].found, found))
    /\ UNCHANGED <<outboxVars, subscriptions, registered, faults>>

(* verifyAll asks every candidate, and stops early at the second owner.     *)
AskedEnough(found, owners) == found = {} \/ Cardinality(owners) > 1

(* verifyOne on the next candidate in the order of their ids.               *)
verifyOne(p) ==
    LET q == request[p]
        c == CHOOSE x \in q.found : \A y \in q.found : x.id <= y.id
        owners == IF c.secret \in SignedWith[q.delivery] THEN q.owners \cup {c} ELSE q.owners IN
    /\ q.at = "verify" /\ ~AskedEnough(q.found, q.owners)
    /\ request' = [request EXCEPT ![p].found = @ \ {c}, ![p].owners = owners]
    /\ UNCHANGED <<outboxVars, subscriptions, registered, faults>>

(* A provider's Verify panics: what the others answered settles nothing.    *)
VerifyPanics(p) ==
    /\ request[p].at = "verify" /\ ~AskedEnough(request[p].found, request[p].owners)
    /\ CountFault
    /\ ToPark(p, "unverifiable")
    /\ UNCHANGED <<outboxVars, subscriptions, registered>>

(* The switch on the number of owners.                                      *)
Settle(p) ==
    LET q == request[p] IN
    /\ q.at = "verify" /\ AskedEnough(q.found, q.owners)
    /\ CASE q.owners = {} -> Decide(p, "unverified")
         [] Cardinality(q.owners) = 1 -> Goto(p, "store")
         [] OTHER -> ToPark(p, "ambiguous")
    /\ UNCHANGED <<outboxVars, subscriptions, registered, faults>>

orderingKey(provider, id) == <<provider, id>>

(* The owner's transaction, and whether it stored the row.                  *)
StoreOwned(p) ==
    LET d == request[p].delivery
        c == CHOOSE x \in request[p].owners : TRUE
        t == TenantOf(c.slot) IN
    \/ Accept(t, d, orderingKey(ProviderOf[d], c.id))
    \/ outbox[<<t, d>>].state # "absent" /\ UNCHANGED outboxVars

acceptOwned(p) ==
    /\ request[p].at = "store"
    /\ StoreOwned(p)
    /\ Decide(p, IF outbox' = outbox THEN "duplicate" ELSE "stored")
    /\ UNCHANGED <<subscriptions, registered, faults>>

StoreParked(p) ==
    LET d == request[p].delivery IN
    \/ Park(d)
    \/ outbox[<<Sentinel, d>>].state # "absent" /\ UNCHANGED outboxVars

(* Hub.park: a re-send of a parked delivery is parked as well.              *)
park(p) ==
    /\ request[p].at = "park"
    /\ StoreParked(p)
    /\ Decide(p, "parked")
    /\ UNCHANGED <<subscriptions, registered, faults>>

(* retryable, and verifyOne when its context is done: the accept bound ran  *)
(* out, the database failed, or the sender has left.  A commit may have gone*)
(* through although it was not reported.                                    *)
HubError(p) ==
    /\ Resolving(p) /\ CountFault
    /\ \/ request[p].at = "store" /\ StoreOwned(p)
       \/ request[p].at = "park" /\ StoreParked(p)
       \/ UNCHANGED outboxVars
    /\ \E e \in Errors : Decide(p, e)
    /\ UNCHANGED <<subscriptions, registered>>

HubStep(p) ==
    \/ CandidatesByWorkspace(p) \/ CandidatesBySubscription(p)
    \/ verifyOne(p) \/ Settle(p) \/ acceptOwned(p) \/ park(p)

=============================================================================
