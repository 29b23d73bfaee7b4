--------------------------- MODULE IngressProofs ----------------------------
(***************************************************************************)
(* What the edge and the hub promise a provider and a tenant, for every    *)
(* number of tenants, subscriptions, deliveries and accepts in flight, and *)
(* any registrations, faults and restarts in between.  The proofs follow   *)
(* one accept through its queries: at each place, every subscription that  *)
(* owns the delivery and was not written meanwhile is still accounted for. *)
(* The routing table comes last: its guards answer what the routes alone   *)
(* would redirect and nothing else, and the edge keeps its paths.          *)
(***************************************************************************)
EXTENDS Ingress, Routing, OutboxProofs, FiniteSetTheorems, SequenceTheorems,
        NaturalsInduction

-----------------------------------------------------------------------------
(* The invariant *)

Candidates == [slot : Slots, id : Ids, secret : Strings]

ResolvingPlaces == {"workspace", "subscription", "verify", "store", "park"}
Places == {"free", "edge", "answer"} \cup ResolvingPlaces

Verdicts == {"", "stored", "duplicate", "parked", "unverified"} \cup Errors \cup EdgeVerdicts

RequestState ==
    [at : Places, delivery : Deliveries \cup {"none"},
     found : SUBSET Candidates, owners : SUBSET Candidates,
     reason : {"", "unreadable", "no owner", "ambiguous", "unverifiable"},
     verdict : Verdicts, status : Int, steady : SUBSET Slots, always : SUBSET Slots]

TableOK ==
    /\ subscriptions \in [Slots -> Subscription \cup {NoSubscription}]
    /\ \A s, u \in Registered(subscriptions) :
          subscriptions[s].id = subscriptions[u].id => s = u

(* A candidate is a subscription of the delivery's provider, by an id that  *)
(* never changes; one that nobody wrote meanwhile is what was read.         *)
CandidateSound(q, c) ==
    /\ c.slot \in Registered(subscriptions) /\ SameProvider(q.delivery, c.slot)
    /\ c.id = subscriptions[c.slot].id
    /\ c.slot \in q.steady => c.secret = subscriptions[c.slot].secret

Among(s, F) == \E c \in F : c.slot = s

(* Too many candidates to ask, or every one of T is asked.                  *)
Covers(F, T) == Cardinality(F) > MaxCandidates \/ \A s \in T : Among(s, F)

(* An accept before its verdict: what it may rely on at each place.         *)
Placed(q) ==
    /\ q.at \in {"edge"} \cup ResolvingPlaces =>
          q.delivery \in Deliveries /\ q.verdict = "" /\ q.status = 0
    /\ q.at \notin {"subscription", "verify", "store"} => q.found = {}
    /\ q.at \notin {"verify", "store"} => q.owners = {}
    /\ q.at = "edge" => q.steady = {}
    /\ q.at \in ResolvingPlaces => q.steady \subseteq Owners(subscriptions, q.delivery)
    /\ \A c \in q.found \cup q.owners : CandidateSound(q, c)

Accounted(q) ==
    /\ q.at = "workspace" => KeysOf[q.delivery].workspace # NoKey
    /\ q.at = "subscription" =>
          /\ KeysOf[q.delivery].subscription # NoKey /\ IsFiniteSet(q.found)
          /\ Covers(q.found, q.steady \ BySubscription(subscriptions, q.delivery))
    /\ q.at = "verify" => \A s \in q.steady : Among(s, q.found \cup q.owners)
    /\ q.at = "store" => q.owners # {} /\ \A s \in q.steady : Among(s, q.owners)
    /\ q.at = "park" /\ q.reason = "no owner" => q.steady = {}

IsKept(d) == d \in Deliveries /\ \E t \in Tenants \cup {Sentinel} : Stored(<<t, d>>)

(* An accept that is free or has its verdict.                               *)
Concluded(q) ==
    /\ q.at = "free" => q = IdleRequest
    /\ q.verdict = "unverified" => q.steady = {}
    /\ q.at = "answer" =>
          /\ q.verdict \in {"stored", "duplicate", "parked"} => IsKept(q.delivery)
          /\ q.verdict \notin EdgeVerdicts => q.verdict # "" /\ q.status = 0
    /\ q.verdict \in EdgeVerdicts =>
          q.at = "answer" /\ q.delivery = "none" /\ q.status \notin {401, 403}

RequestSound(q) == q \in RequestState /\ Placed(q) /\ Accounted(q) /\ Concluded(q)

IngressInv ==
    /\ IInv /\ TableOK /\ QueueHasItsSubscription
    /\ request = [p \in Requests |-> request[p]]
    /\ \A p \in Requests : RequestSound(request[p])

-----------------------------------------------------------------------------
(* Counting candidates *)

(* A set that has a candidate for each of T's subscriptions is at least as  *)
(* large as T.                                                              *)
LEMMA AmongMany ==
    ASSUME NEW F, IsFiniteSet(F), NEW T, \A s \in T : Among(s, F)
    PROVE  IsFiniteSet(T) /\ Cardinality(T) <= Cardinality(F)
  <1>. DEFINE f == [s \in T |-> CHOOSE c \in F : c.slot = s]
  <1>1. \A s \in T : f[s] \in F /\ f[s].slot = s
    BY DEF Among
  <1>2. f \in Injection(T, F)
    BY <1>1 DEF Injection, IsInjective
  <1>. QED BY <1>2, FS_Injection

(* ORDER BY id LIMIT max + 1 leaves out a row only when it returns more than*)
(* max.                                                                     *)
LEMMA CutShort ==
    ASSUME TableOK, NEW S \in SUBSET Registered(subscriptions)
    PROVE  FirstRows(S) = S \/ Cardinality(FirstRows(S)) > MaxCandidates
  <1>. DEFINE Below(s) == {u \in S : subscriptions[u].id < subscriptions[s].id}
              Out == S \ FirstRows(S)
              OutIds == {subscriptions[s].id : s \in Out}
  <1>1. \A s \in S : subscriptions[s].id \in Nat
    BY TableAssumption DEF TableOK, Registered, Subscription
  <1>2. SUFFICES ASSUME Out # {} PROVE Cardinality(FirstRows(S)) > MaxCandidates
    BY DEF FirstRows
  <1>3. OutIds \in SUBSET Nat /\ OutIds # {}
    BY <1>1, <1>2
  <1>4. PICK m \in OutIds : \A n \in OutIds : m <= n
    BY <1>3, LeastSeq
  <1>5. PICK s \in Out : subscriptions[s].id = m
    BY <1>4
  <1>6. Below(s) \in SUBSET FirstRows(S)
    <2>. SUFFICES ASSUME NEW u \in Below(s), u \in Out PROVE FALSE
      OBVIOUS
    <2>1. m <= subscriptions[u].id
      BY <1>4
    <2>2. subscriptions[u].id < m /\ m \in Nat /\ subscriptions[u].id \in Nat
      BY <1>1, <1>3, <1>5
    <2>. QED BY <2>1, <2>2
  <1>7. IsFiniteSet(FirstRows(S)) /\ IsFiniteSet(Below(s))
    <2>1. FirstRows(S) \in SUBSET Slots /\ Below(s) \in SUBSET Slots
      BY DEF FirstRows, Registered
    <2>. QED BY <2>1, FS_Subset, TableAssumption
  <1>8. Cardinality(Below(s)) <= Cardinality(FirstRows(S))
    BY <1>6, <1>7, FS_Subset
  <1>9. ~(Cardinality(Below(s)) <= MaxCandidates)
    BY <1>5 DEF FirstRows
  <1>10. Cardinality(Below(s)) \in Nat /\ Cardinality(FirstRows(S)) \in Nat
    BY <1>7, FS_CardinalityType
  <1>. QED BY <1>8, <1>9, <1>10, HubAssumption

(* The candidates a query returns: rows of S as they are, and all of them or*)
(* too many.                                                                *)
LEMMA RowsFacts ==
    ASSUME TableOK, NEW S \in SUBSET Registered(subscriptions)
    PROVE  /\ Rows(S) \in SUBSET Candidates /\ IsFiniteSet(Rows(S))
           /\ \A c \in Rows(S) : /\ c.slot \in S /\ c.id = subscriptions[c.slot].id
                                 /\ c.secret = subscriptions[c.slot].secret
           /\ \A s \in FirstRows(S) : Among(s, Rows(S))
           /\ Covers(Rows(S), S)
           /\ \A b, c \in Rows(S) : b.slot = c.slot => b = c
  <1>1. FirstRows(S) \subseteq S /\ S \subseteq Slots
    BY DEF FirstRows, Registered
  <1>2. \A s \in S : subscriptions[s] \in Subscription
    BY DEF TableOK, Registered
  <1>3. Rows(S) \in SUBSET Candidates
    <2>. SUFFICES ASSUME NEW c \in Rows(S) PROVE c \in Candidates
      OBVIOUS
    <2>1. PICK s \in FirstRows(S) :
             c = [slot |-> s, id |-> subscriptions[s].id, secret |-> subscriptions[s].secret]
      BY DEF Rows
    <2>2. s \in Slots /\ subscriptions[s] \in Subscription
      BY <1>1, <1>2
    <2>. QED BY <2>1, <2>2 DEF Candidates, Subscription
  <1>4. \A c \in Rows(S) : /\ c.slot \in S /\ c.id = subscriptions[c.slot].id
                           /\ c.secret = subscriptions[c.slot].secret
    BY <1>1 DEF Rows
  <1>5. \A s \in FirstRows(S) : Among(s, Rows(S))
    <2>. SUFFICES ASSUME NEW s \in FirstRows(S) PROVE \E c \in Rows(S) : c.slot = s
      BY DEF Among
    <2>. DEFINE c == [slot |-> s, id |-> subscriptions[s].id, secret |-> subscriptions[s].secret]
    <2>1. c \in Rows(S) /\ c.slot = s
      BY DEF Rows
    <2>. QED BY <2>1
  <1>6. \A b, c \in Rows(S) : b.slot = c.slot => b = c
    <2>1. \A c \in Rows(S) : c = [slot |-> c.slot, id |-> subscriptions[c.slot].id,
                                 secret |-> subscriptions[c.slot].secret]
      BY DEF Rows
    <2>. QED BY <2>1
  <1>7. IsFiniteSet(Rows(S))
    <2>. DEFINE f == [c \in Rows(S) |-> c.slot]
    <2>1. f \in Injection(Rows(S), Slots)
      BY <1>1, <1>4, <1>6 DEF Injection, IsInjective
    <2>. QED BY <2>1, FS_Injection, TableAssumption
  <1>8. Covers(Rows(S), S)
    <2>1. CASE FirstRows(S) = S
      BY <1>5, <2>1 DEF Covers
    <2>2. CASE Cardinality(FirstRows(S)) > MaxCandidates
      <3>1. IsFiniteSet(FirstRows(S)) /\ Cardinality(FirstRows(S)) <= Cardinality(Rows(S))
        BY <1>5, <1>7, AmongMany
      <3>2. Cardinality(FirstRows(S)) \in Nat /\ Cardinality(Rows(S)) \in Nat
        BY <1>7, <3>1, FS_CardinalityType
      <3>. QED BY <2>2, <3>1, <3>2, HubAssumption DEF Covers
    <2>. QED BY <2>1, <2>2, CutShort
  <1>. QED BY <1>3, <1>4, <1>5, <1>6, <1>7, <1>8

(* A set of candidates that covers more.                                    *)
LEMMA CoversMore ==
    ASSUME NEW F, NEW G, IsFiniteSet(G), NEW T,
           \A s : Among(s, F) => Among(s, G), Covers(F, T), IsFiniteSet(F),
           \A b, c \in F : b.slot = c.slot => b = c
    PROVE  Covers(G, T)
  <1>. DEFINE g == [c \in F |-> CHOOSE b \in G : b.slot = c.slot]
  <1>1. CASE \A s \in T : Among(s, F)
    BY <1>1 DEF Covers
  <1>2. CASE Cardinality(F) > MaxCandidates
    <2>1. \A c \in F : g[c] \in G /\ g[c].slot = c.slot
      BY DEF Among
    <2>2. g \in Injection(F, G)
      BY <2>1 DEF Injection, IsInjective
    <2>3. Cardinality(F) <= Cardinality(G)
      BY <2>2, FS_Injection
    <2>4. Cardinality(F) \in Nat /\ Cardinality(G) \in Nat
      BY FS_CardinalityType
    <2>. QED BY <1>2, <2>3, <2>4, HubAssumption DEF Covers
  <1>. QED BY <1>1, <1>2 DEF Covers

-----------------------------------------------------------------------------
(* Steps of one accept *)

(* A subscription that owns a delivery is in the answer of a query that is  *)
(* asked for it, and its secret verifies the delivery.                      *)
LEMMA OwnersFacts ==
    ASSUME NEW d, NEW s \in Owners(subscriptions, d)
    PROVE  /\ s \in Registered(subscriptions) /\ SameProvider(d, s)
           /\ subscriptions[s].secret \in SignedWith[d]
           /\ \/ KeysOf[d].workspace # NoKey /\ s \in ByWorkspace(subscriptions, d)
              \/ KeysOf[d].subscription # NoKey /\ s \in BySubscription(subscriptions, d)
  <1>. DEFINE keys == KeysOf[d]
              row == subscriptions[s]
              ws == <<keys.workspace, row.workspace>>
              sub == <<keys.subscription, row.external>>
              known == {x \in {ws, sub} : NoKey \notin {x[1], x[2]}}
  <1>1. /\ s \in Registered(subscriptions) /\ SameProvider(d, s)
        /\ known # {} /\ \A x \in known : x[1] = x[2]
        /\ row.secret \in SignedWith[d]
    BY DEF Owners
  <1>2. ws \in known <=> keys.workspace # NoKey /\ row.workspace # NoKey
    OBVIOUS
  <1>3. sub \in known <=> keys.subscription # NoKey /\ row.external # NoKey
    OBVIOUS
  <1>4. ws \in known => keys.workspace = row.workspace
    BY <1>1
  <1>5. sub \in known => keys.subscription = row.external
    BY <1>1
  <1>6. ws \in known \/ sub \in known
    BY <1>1
  <1>. HIDE DEF known
  <1>. QED BY <1>1, <1>2, <1>3, <1>4, <1>5, <1>6 DEF ByWorkspace, BySubscription, Agree

(* Which rows there are, and the key of each, stay as they are.             *)
RowsKept ==
    \A u \in RowId : Stored(u) => Stored(u)' /\ outbox'[u].ordering_key = outbox[u].ordering_key

(* Where a record says an accept is decides what it may rely on; the rows   *)
(* and the table it is compared with do not change under it.                *)
LEMMA SoundKept ==
    ASSUME NEW q, RequestSound(q), subscriptions' = subscriptions, RowsKept
    PROVE  RequestSound(q)'
  <1>1. IsKept(q.delivery) => IsKept(q.delivery)'
    BY DEF IsKept, RowsKept, RowId
  <1>2. Concluded(q)'
    BY <1>1 DEF RequestSound, Concluded
  <1>3. Placed(q)' /\ Accounted(q)'
    BY DEF RequestSound, Placed, Accounted, CandidateSound, Covers, Owners, Registered,
           BySubscription
  <1>. QED BY <1>2, <1>3 DEF RequestSound

(* A step of the accept p, whatever it stores.                              *)
LEMMA OneRequest ==
    ASSUME IngressInv, NEW p \in Requests, NEW q, request' = [request EXCEPT ![p] = q],
           RequestSound(q)', subscriptions' = subscriptions, RowsKept,
           IInv', QueueHasItsSubscription'
    PROVE  IngressInv'
  <1>1. TableOK'
    BY DEF IngressInv, TableOK, Registered
  <1>2. ASSUME NEW o \in Requests PROVE RequestSound(request[o])'
    <2>1. CASE o = p
      BY <2>1 DEF IngressInv
    <2>2. CASE o # p
      <3>1. PICK r : r = request'[o]
        OBVIOUS
      <3>2. RequestSound(r)
        BY <2>2, <3>1 DEF IngressInv
      <3>3. RequestSound(r)'
        BY <3>2, SoundKept
      <3>. QED BY <3>1, <3>3
    <2>. QED BY <2>1, <2>2
  <1>3. request' = [o \in Requests |-> request'[o]]
    BY DEF IngressInv
  <1>. QED BY <1>1, <1>2, <1>3 DEF IngressInv

(* A step of the accept p that stores nothing.                              *)
LEMMA QuietRequest ==
    ASSUME IngressInv, NEW p \in Requests, NEW q, request' = [request EXCEPT ![p] = q],
           RequestSound(q), UNCHANGED <<outboxVars, subscriptions>>
    PROVE  IngressInv'
  <1>1. RowsKept /\ UNCHANGED vars
    BY DEF outboxVars, RowsKept, Stored, vars
  <1>2. IInv' /\ QueueHasItsSubscription'
    BY <1>1, StepInv DEF IngressInv, QueueHasItsSubscription, outboxVars, Stored, Registered
  <1>3. RequestSound(q)'
    BY <1>1, SoundKept
  <1>. QED BY <1>1, <1>2, <1>3, OneRequest

(* The owner's transaction: whether it stores the delivery or finds it, the *)
(* row is there, in the queue of a subscription the tenant has.             *)
LEMMA StoredRows ==
    ASSUME IngressInv, NEW p \in Requests, request[p].at = "store", StoreOwned(p),
           subscriptions' = subscriptions, NEW d, d = request[p].delivery
    PROVE  [Next]_vars /\ RowsKept /\ IsKept(d)' /\ QueueHasItsSubscription'
  <1>. DEFINE c == CHOOSE x \in request[p].owners : TRUE
              s == c.slot
              t == s[1]
              k == <<ProviderOf[d], c.id>>
  <1>1. RequestSound(request[p])
    BY DEF IngressInv
  <1>2. c \in request[p].owners
    BY <1>1 DEF RequestSound, Accounted
  <1>3. c \in Candidates /\ d \in Deliveries /\ CandidateSound(request[p], c)
    BY <1>1, <1>2 DEF RequestSound, Placed, ResolvingPlaces, RequestState
  <1>4. /\ s \in Registered(subscriptions) /\ ProviderOf[d] = s[2]
        /\ c.id = subscriptions[s].id /\ c.id \in Ids
    BY <1>3 DEF CandidateSound, SameProvider, Candidates
  <1>5. t \in Tenants /\ k \in OrderingKeys
    BY <1>3, <1>4, TableAssumption DEF Registered
  <1>6. \/ Accept(t, d, k)
        \/ outbox[<<t, d>>].state # "absent" /\ UNCHANGED outboxVars
    BY DEF StoreOwned, TenantOf, orderingKey
  <1>7. <<t, d>> \in RowId /\ IInv
    BY <1>3, <1>5 DEF RowId, IngressInv
  <1>. HIDE DEF c, s, t
  <1>8. CASE Accept(t, d, k)
    <2>1. [Next]_vars
      BY <1>3, <1>5, <1>8 DEF Next
    <2>. HIDE DEF k
    <2>2. /\ outbox'[<<t, d>>].state = "pending" /\ outbox'[<<t, d>>].ordering_key = k
          /\ outbox[<<t, d>>].state = "absent"
          /\ \A u \in RowId \ {<<t, d>>} : outbox'[u] = outbox[u]
      BY <1>3, <1>5, <1>7, <1>8, AcceptRows
    <2>3. RowsKept
      BY <2>2 DEF RowsKept, Stored
    <2>4. IsKept(d)'
      BY <1>3, <1>5, <2>2 DEF IsKept, Stored
    <2>5. QueueHasItsSubscription'
      <3>. SUFFICES ASSUME NEW r \in RowId, r[1] \in Tenants, Stored(r)'
                    PROVE  \E u \in Registered(subscriptions) :
                              /\ TenantOf(u) = r[1] /\ u[2] = ProviderOf[r[2]]
                              /\ outbox'[r].ordering_key = orderingKey(u[2], subscriptions[u].id)
        BY DEF QueueHasItsSubscription, Registered
      <3>1. CASE r = <<t, d>>
        BY <1>4, <2>2, <3>1 DEF k, t, TenantOf, orderingKey
      <3>2. CASE r # <<t, d>>
        BY <2>2, <3>2 DEF IngressInv, QueueHasItsSubscription, Stored
      <3>. QED BY <3>1, <3>2
    <2>. QED BY <2>1, <2>3, <2>4, <2>5
  <1>9. CASE outbox[<<t, d>>].state # "absent" /\ UNCHANGED outboxVars
    <2>1. UNCHANGED vars /\ RowsKept
      BY <1>9 DEF outboxVars, vars, RowsKept, Stored
    <2>2. IsKept(d)'
      BY <1>3, <1>5, <1>9 DEF IsKept, Stored, outboxVars
    <2>3. QueueHasItsSubscription'
      BY <2>1 DEF IngressInv, QueueHasItsSubscription, vars, Stored, Registered
    <2>. QED BY <2>1, <2>2, <2>3
  <1>. QED BY <1>6, <1>8, <1>9

(* The sentinel's transaction: the delivery is parked, now or before.       *)
LEMMA ParkedRows ==
    ASSUME IngressInv, NEW p \in Requests, request[p].at = "park", StoreParked(p),
           subscriptions' = subscriptions, NEW d, d = request[p].delivery
    PROVE  [Next]_vars /\ RowsKept /\ IsKept(d)' /\ QueueHasItsSubscription'
  <1>. DEFINE r0 == <<Sentinel, d>>
  <1>1. d \in Deliveries
    BY DEF IngressInv, RequestSound, Placed, ResolvingPlaces
  <1>2. r0 \in RowId /\ IInv
    BY <1>1 DEF RowId, IngressInv
  <1>3. CASE Park(d)
    <2>1. [Next]_vars
      BY <1>1, <1>3 DEF Next
    <2>2. /\ outbox'[r0].state = "dead" /\ outbox[r0].state = "absent"
          /\ \A u \in RowId \ {r0} : outbox'[u] = outbox[u]
      BY <1>1, <1>2, <1>3, ParkRows
    <2>3. RowsKept
      BY <2>2 DEF RowsKept, Stored
    <2>4. IsKept(d)'
      BY <1>1, <2>2 DEF IsKept, Stored
    <2>5. QueueHasItsSubscription'
      <3>. SUFFICES ASSUME NEW r \in RowId, r[1] \in Tenants, Stored(r)'
                    PROVE  \E u \in Registered(subscriptions) :
                              /\ TenantOf(u) = r[1] /\ u[2] = ProviderOf[r[2]]
                              /\ outbox'[r].ordering_key = orderingKey(u[2], subscriptions[u].id)
        BY DEF QueueHasItsSubscription, Registered
      <3>1. r # r0
        BY SentinelAssumption
      <3>. QED BY <2>2, <3>1 DEF IngressInv, QueueHasItsSubscription, Stored
    <2>. QED BY <2>1, <2>3, <2>4, <2>5
  <1>4. CASE outbox[r0].state # "absent" /\ UNCHANGED outboxVars
    <2>1. UNCHANGED vars /\ RowsKept
      BY <1>4 DEF outboxVars, vars, RowsKept, Stored
    <2>2. IsKept(d)'
      BY <1>1, <1>4 DEF IsKept, Stored, outboxVars
    <2>3. QueueHasItsSubscription'
      BY <2>1 DEF IngressInv, QueueHasItsSubscription, vars, Stored, Registered
    <2>. QED BY <2>1, <2>2, <2>3
  <1>. QED BY <1>3, <1>4 DEF StoreParked

(* Decide gives an accept its verdict.                                      *)
LEMMA Decided ==
    ASSUME IngressInv, NEW p \in Requests, request[p].at \in ResolvingPlaces,
           NEW v \in {"stored", "duplicate", "parked", "unverified"} \cup Errors, Decide(p, v),
           v = "unverified" => request[p].steady = {},
           NEW d, d = request[p].delivery, v \in {"stored", "duplicate", "parked"} => IsKept(d)',
           subscriptions' = subscriptions, RowsKept, IInv', QueueHasItsSubscription'
    PROVE  IngressInv'
  <1>1. PICK q : q = [request[p] EXCEPT !.at = "answer", !.verdict = v, !.found = {},
                         !.owners = {}, !.always = {},
                         !.steady = IF v = "unverified" THEN @ ELSE {}]
    OBVIOUS
  <1>2. request[p] \in RequestState /\ Placed(request[p])
    BY DEF IngressInv, RequestSound
  <1>3. request' = [request EXCEPT ![p] = q]
    BY <1>1, <1>2 DEF Decide, IngressInv, RequestState
  <1>4. v \in Verdicts /\ "answer" \in Places /\ v # "" /\ v \notin EdgeVerdicts
    BY DEF Verdicts, Places, EdgeVerdicts, Refusals, Errors
  <1>5. /\ q \in RequestState /\ q.at = "answer" /\ q.verdict = v /\ q.found = {} /\ q.owners = {}
        /\ q.delivery = d /\ q.status = request[p].status
        /\ v = "unverified" => q.steady = {}
    BY <1>1, <1>2, <1>4 DEF RequestState
  <1>6. q.status = 0
    BY <1>2, <1>5 DEF Placed
  <1>7. Placed(q)' /\ Accounted(q)'
    BY <1>5 DEF Placed, Accounted, ResolvingPlaces
  <1>8. Concluded(q)'
    BY <1>4, <1>5, <1>6 DEF Concluded
  <1>. QED BY <1>3, <1>5, <1>7, <1>8, OneRequest DEF RequestSound

(* ToPark sends an accept to park the delivery.                             *)
LEMMA SentToPark ==
    ASSUME IngressInv, NEW p \in Requests,
           request[p].at \in {"edge", "workspace", "subscription", "verify"},
           NEW why \in {"unreadable", "no owner", "ambiguous", "unverifiable"}, ToPark(p, why),
           why = "no owner" => request[p].steady = {},
           UNCHANGED <<outboxVars, subscriptions>>
    PROVE  IngressInv'
  <1>1. PICK q : q = [request[p] EXCEPT !.at = "park", !.reason = why, !.found = {},
                         !.owners = {}, !.always = {}]
    OBVIOUS
  <1>2. request[p] \in RequestState /\ Placed(request[p]) /\ Concluded(request[p])
    BY DEF IngressInv, RequestSound
  <1>3. request' = [request EXCEPT ![p] = q]
    BY <1>1, <1>2 DEF ToPark, IngressInv, RequestState
  <1>4. /\ q \in RequestState /\ q.at = "park" /\ q.reason = why /\ q.found = {} /\ q.owners = {}
        /\ q.delivery = request[p].delivery /\ q.status = request[p].status
        /\ q.verdict = request[p].verdict /\ q.steady = request[p].steady
    BY <1>1, <1>2 DEF RequestState, Places, ResolvingPlaces
  <1>5. /\ q.delivery \in Deliveries /\ q.verdict = "" /\ q.status = 0
        /\ q.steady \subseteq Owners(subscriptions, q.delivery)
    BY <1>2, <1>4 DEF Placed, ResolvingPlaces
  <1>6. Placed(q) /\ Accounted(q)
    BY <1>4, <1>5 DEF Placed, Accounted, ResolvingPlaces
  <1>7. Concluded(q)
    BY <1>4, <1>5 DEF Concluded, EdgeVerdicts, Refusals
  <1>. QED BY <1>3, <1>4, <1>6, <1>7, QuietRequest DEF RequestSound

(* An accept that goes on with the candidates F it found, having asked those*)
(* in O.                                                                    *)
LEMMA GoesOn ==
    ASSUME IngressInv, NEW p \in Requests, request[p].at \in ResolvingPlaces,
           NEW place \in {"subscription", "verify", "store"},
           NEW F \in SUBSET Candidates, NEW O \in SUBSET Candidates,
           NEW q, q = [request[p] EXCEPT !.at = place, !.found = F, !.owners = O],
           place = "subscription" => O = {},
           \A c \in F \cup O : CandidateSound(request[p], c),
           Accounted(q), request' = [request EXCEPT ![p] = q],
           UNCHANGED <<outboxVars, subscriptions>>
    PROVE  IngressInv'
  <1>1. request[p] \in RequestState /\ Placed(request[p]) /\ Concluded(request[p])
    BY DEF IngressInv, RequestSound
  <1>2. place \in Places
    BY DEF Places, ResolvingPlaces
  <1>3. /\ q \in RequestState /\ q.at = place /\ q.found = F /\ q.owners = O
        /\ q.delivery = request[p].delivery /\ q.status = request[p].status
        /\ q.verdict = request[p].verdict /\ q.steady = request[p].steady
    BY <1>1, <1>2 DEF RequestState
  <1>4. /\ q.delivery \in Deliveries /\ q.verdict = "" /\ q.status = 0
        /\ q.steady \subseteq Owners(subscriptions, q.delivery)
    BY <1>1, <1>3 DEF Placed
  <1>5. \A c \in F \cup O : CandidateSound(q, c)
    BY <1>3 DEF CandidateSound
  <1>6. Placed(q)
    BY <1>3, <1>4, <1>5 DEF Placed
  <1>7. Concluded(q)
    BY <1>3, <1>4 DEF Concluded, EdgeVerdicts, Refusals
  <1>. QED BY <1>3, <1>6, <1>7, QuietRequest DEF RequestSound

-----------------------------------------------------------------------------
(* One lemma per action *)

(* Enter: the queries of an accept start from the owners of this state.     *)
LEMMA EnterInv ==
    ASSUME IngressInv, NEW p \in Requests, Enter(p)
    PROVE  IngressInv'
  <1>. DEFINE d == request[p].delivery
              keys == KeysOf[d]
  <1>1. /\ request[p] \in RequestState /\ request[p].at = "edge" /\ Placed(request[p])
        /\ UNCHANGED <<outboxVars, subscriptions>>
    BY DEF IngressInv, RequestSound, Enter, deliveryKeys
  <1>2. CASE keys.workspace = NoKey /\ keys.subscription = NoKey
    BY <1>1, <1>2, SentToPark DEF Enter, deliveryKeys
  <1>3. CASE ~(keys.workspace = NoKey /\ keys.subscription = NoKey)
    <2>. DEFINE place == IF keys.workspace # NoKey THEN "workspace" ELSE "subscription"
    <2>1. PICK q : q = [request[p] EXCEPT !.at = place, !.steady = Owners(subscriptions, d),
                                          !.always = Owners(subscriptions, d)]
      OBVIOUS
    <2>2. request' = [request EXCEPT ![p] = q]
      BY <1>1, <1>3, <2>1 DEF Enter, deliveryKeys, IngressInv, RequestState
    <2>3. Owners(subscriptions, d) \in SUBSET Slots
      BY DEF Owners, Registered
    <2>4. /\ d \in Deliveries /\ request[p].verdict = "" /\ request[p].status = 0
          /\ request[p].found = {} /\ request[p].owners = {}
      BY <1>1 DEF Placed
    <2>5. /\ q \in RequestState /\ q.at = place /\ q.delivery = d
          /\ q.steady = Owners(subscriptions, d)
          /\ q.verdict = "" /\ q.status = 0 /\ q.found = {} /\ q.owners = {}
      BY <1>1, <2>1, <2>3, <2>4 DEF RequestState, Places, ResolvingPlaces
    <2>6. Placed(q)
      BY <2>4, <2>5 DEF Placed
    <2>7. place = "subscription" => Covers(q.found, q.steady \ BySubscription(subscriptions, d))
      BY <2>5, OwnersFacts DEF Covers
    <2>8. Accounted(q)
      BY <1>3, <2>5, <2>7, FS_EmptySet DEF Accounted
    <2>9. Concluded(q)
      BY <2>5 DEF Concluded, EdgeVerdicts, Refusals
    <2>. QED BY <1>1, <2>2, <2>5, <2>6, <2>8, <2>9, QuietRequest DEF RequestSound
  <1>. QED BY <1>2, <1>3

(* Resolve: what the accept found covers every steady owner.                *)
LEMMA Resolved ==
    ASSUME IngressInv, NEW p \in Requests, request[p].at \in {"workspace", "subscription"},
           NEW F \in SUBSET Candidates, IsFiniteSet(F), Covers(F, request[p].steady),
           \A c \in F : CandidateSound(request[p], c),
           Resolve(p, F), UNCHANGED <<outboxVars, subscriptions>>
    PROVE  IngressInv'
  <1>1. CASE F = {}
    <2>1. ~(Cardinality(F) > MaxCandidates)
      BY <1>1, FS_EmptySet, HubAssumption
    <2>2. request[p].steady = {}
      BY <1>1, <2>1 DEF Covers, Among
    <2>3. ToPark(p, "no owner")
      BY <1>1, <2>1 DEF Resolve
    <2>. QED BY <2>2, <2>3, SentToPark
  <1>2. CASE F # {} /\ Cardinality(F) > MaxCandidates
    <2>1. ToPark(p, "ambiguous")
      BY <1>2 DEF Resolve
    <2>. QED BY <2>1, SentToPark
  <1>3. CASE F # {} /\ ~(Cardinality(F) > MaxCandidates)
    <2>1. request[p] \in RequestState /\ Placed(request[p])
      BY DEF IngressInv, RequestSound
    <2>2. PICK q : q = [request[p] EXCEPT !.at = "verify", !.found = F, !.owners = {}]
      OBVIOUS
    <2>3. request[p].owners = {}
      BY <2>1 DEF Placed
    <2>4. request' = [request EXCEPT ![p].at = "verify", ![p].found = F]
      BY <1>3 DEF Resolve
    <2>5. request' = [request EXCEPT ![p] = q]
      BY <2>1, <2>2, <2>3, <2>4 DEF IngressInv, RequestState
    <2>6. q.at = "verify" /\ q.found = F /\ q.owners = {} /\ q.steady = request[p].steady
      BY <2>1, <2>2 DEF RequestState
    <2>7. Accounted(q)
      BY <1>3, <2>6 DEF Accounted, Covers, Among
    <2>8. {} \in SUBSET Candidates /\ \A c \in F \cup {} : CandidateSound(request[p], c)
      OBVIOUS
    <2>. QED BY <2>2, <2>5, <2>7, <2>8, GoesOn DEF ResolvingPlaces
  <1>. QED BY <1>1, <1>2, <1>3

(* CandidatesByWorkspace finds every steady owner that the second query will*)
(* not.                                                                     *)
LEMMA ByWorkspaceInv ==
    ASSUME IngressInv, NEW p \in Requests, CandidatesByWorkspace(p)
    PROVE  IngressInv'
  <1>. DEFINE d == request[p].delivery
              S == ByWorkspace(subscriptions, d)
              F == Rows(S)
  <1>1. /\ request[p] \in RequestState /\ Placed(request[p]) /\ request[p].at = "workspace"
        /\ UNCHANGED <<outboxVars, subscriptions>> /\ TableOK
        /\ request[p].steady \subseteq Owners(subscriptions, d)
    BY DEF IngressInv, RequestSound, CandidatesByWorkspace, Placed, ResolvingPlaces
  <1>2. S \in SUBSET Registered(subscriptions) /\ \A s \in S : SameProvider(d, s)
    BY DEF ByWorkspace
  <1>3. /\ F \in SUBSET Candidates /\ IsFiniteSet(F) /\ Covers(F, S)
        /\ \A c \in F : /\ c.slot \in S /\ c.id = subscriptions[c.slot].id
                        /\ c.secret = subscriptions[c.slot].secret
    BY <1>1, <1>2, RowsFacts
  <1>4. \A c \in F : CandidateSound(request[p], c)
    BY <1>2, <1>3 DEF CandidateSound
  <1>5. \A s \in request[p].steady :
           s \in S \/ (KeysOf[d].subscription # NoKey /\ s \in BySubscription(subscriptions, d))
    BY <1>1, OwnersFacts
  <1>. HIDE DEF F, S
  <1>6. CASE KeysOf[d].subscription # NoKey
    <2>1. PICK q : q = [request[p] EXCEPT !.at = "subscription", !.found = F, !.owners = {}]
      OBVIOUS
    <2>2. request[p].owners = {}
      BY <1>1 DEF Placed
    <2>3. request' = [request EXCEPT ![p].at = "subscription", ![p].found = F]
      BY <1>6 DEF CandidatesByWorkspace, F, S
    <2>4. request' = [request EXCEPT ![p] = q]
      BY <1>1, <2>1, <2>2, <2>3 DEF IngressInv, RequestState
    <2>5. q.at = "subscription" /\ q.found = F /\ q.steady = request[p].steady /\ q.delivery = d
      BY <1>1, <2>1 DEF RequestState
    <2>6. Covers(F, q.steady \ BySubscription(subscriptions, d))
      BY <1>3, <1>5, <2>5 DEF Covers
    <2>7. Accounted(q)
      BY <1>3, <1>6, <2>5, <2>6 DEF Accounted
    <2>8. {} \in SUBSET Candidates /\ \A c \in F \cup {} : CandidateSound(request[p], c)
      BY <1>4
    <2>. QED BY <1>1, <1>3, <2>1, <2>4, <2>7, <2>8, GoesOn DEF ResolvingPlaces
  <1>7. CASE KeysOf[d].subscription = NoKey
    <2>1. Resolve(p, F)
      BY <1>7 DEF CandidatesByWorkspace, F, S
    <2>2. Covers(F, request[p].steady)
      BY <1>3, <1>5, <1>7 DEF Covers
    <2>. QED BY <1>1, <1>3, <1>4, <2>1, <2>2, Resolved
  <1>. QED BY <1>6, <1>7

(* A row of the second query whose id the first one returned is the same    *)
(* subscription: the union of the two answers covers what either does.      *)
LEMMA UnionFacts ==
    ASSUME TableOK, NEW S \in SUBSET Registered(subscriptions),
           NEW F \in SUBSET Candidates, IsFiniteSet(F),
           \A c \in F : c.slot \in Registered(subscriptions) /\ c.id = subscriptions[c.slot].id
    PROVE  /\ Union(F, Rows(S)) \in SUBSET Candidates /\ IsFiniteSet(Union(F, Rows(S)))
           /\ F \subseteq Union(F, Rows(S))
           /\ \A c \in Union(F, Rows(S)) : c \in F \/ c \in Rows(S)
           /\ Covers(Union(F, Rows(S)), S)
  <1>. DEFINE G == Rows(S)
              U == Union(F, G)
  <1>1. /\ G \in SUBSET Candidates /\ IsFiniteSet(G) /\ Covers(G, S)
        /\ \A c \in G : c.slot \in S /\ c.id = subscriptions[c.slot].id
        /\ \A b, c \in G : b.slot = c.slot => b = c
    BY RowsFacts
  <1>. HIDE DEF G
  <1>2. F \subseteq U /\ U \in SUBSET (F \cup G)
    BY DEF Union
  <1>3. IsFiniteSet(U)
    <2>1. IsFiniteSet(F \cup G)
      BY <1>1, FS_Union
    <2>. QED BY <1>2, <2>1, FS_Subset
  <1>4. \A c \in G : Among(c.slot, U)
    <2>. SUFFICES ASSUME NEW c \in G PROVE Among(c.slot, U)
      OBVIOUS
    <2>1. CASE \A f \in F : f.id # c.id
      BY <2>1 DEF Union, Among
    <2>2. CASE \E f \in F : f.id = c.id
      <3>1. PICK f \in F : f.id = c.id
        BY <2>2
      <3>2. f.slot = c.slot
        BY <1>1, <3>1 DEF TableOK
      <3>. QED BY <1>2, <3>2 DEF Among
    <2>. QED BY <2>1, <2>2
  <1>5. \A s : Among(s, G) => Among(s, U)
    BY <1>4 DEF Among
  <1>. HIDE DEF U
  <1>6. Covers(U, S)
    BY <1>1, <1>3, <1>5, CoversMore
  <1>. QED BY <1>1, <1>2, <1>3, <1>6 DEF U, G

(* CandidatesBySubscription: now every steady owner is found, or too many   *)
(* candidates were.                                                         *)
LEMMA BySubscriptionInv ==
    ASSUME IngressInv, NEW p \in Requests, CandidatesBySubscription(p)
    PROVE  IngressInv'
  <1>. DEFINE d == request[p].delivery
              S == BySubscription(subscriptions, d)
              F == request[p].found
              U == Union(F, Rows(S))
  <1>1. /\ request[p] \in RequestState /\ request[p].at = "subscription"
        /\ Placed(request[p]) /\ Accounted(request[p])
        /\ UNCHANGED <<outboxVars, subscriptions>> /\ TableOK /\ Resolve(p, U)
    BY DEF IngressInv, RequestSound, CandidatesBySubscription
  <1>2. S \in SUBSET Registered(subscriptions) /\ \A s \in S : SameProvider(d, s)
    BY DEF BySubscription
  <1>3. \A c \in Rows(S) : /\ c.slot \in S /\ c.id = subscriptions[c.slot].id
                           /\ c.secret = subscriptions[c.slot].secret
    BY <1>1, <1>2, RowsFacts
  <1>. HIDE DEF S
  <1>4. /\ F \in SUBSET Candidates /\ IsFiniteSet(F) /\ Covers(F, request[p].steady \ S)
        /\ \A c \in F : CandidateSound(request[p], c)
    BY <1>1 DEF Placed, Accounted, RequestState, S
  <1>5. /\ U \in SUBSET Candidates /\ IsFiniteSet(U) /\ F \subseteq U
        /\ \A c \in U : c \in F \/ c \in Rows(S)
        /\ Covers(U, S)
    BY <1>1, <1>2, <1>4, UnionFacts DEF CandidateSound
  <1>. HIDE DEF F, U
  <1>6. \A c \in U : CandidateSound(request[p], c)
    BY <1>2, <1>3, <1>4, <1>5 DEF CandidateSound
  <1>7. Covers(U, request[p].steady)
    <2>1. CASE Cardinality(F) > MaxCandidates
      <3>1. Cardinality(F) <= Cardinality(U) /\ Cardinality(F) \in Nat /\ Cardinality(U) \in Nat
        BY <1>4, <1>5, FS_Subset, FS_CardinalityType
      <3>. QED BY <2>1, <3>1, HubAssumption DEF Covers
    <2>2. CASE \A s \in request[p].steady \ S : Among(s, F)
      BY <1>5, <2>2 DEF Covers, Among
    <2>. QED BY <1>4, <2>1, <2>2 DEF Covers
  <1>. QED BY <1>1, <1>5, <1>6, <1>7, Resolved

(* verifyOne drops a candidate only if it does not own the delivery, or was *)
(* written meanwhile.                                                       *)
LEMMA VerifyInv ==
    ASSUME IngressInv, NEW p \in Requests, verifyOne(p)
    PROVE  IngressInv'
  <1>. DEFINE r == request[p]
              c == CHOOSE x \in r.found : \A y \in r.found : x.id <= y.id
              O == IF c.secret \in SignedWith[r.delivery] THEN r.owners \cup {c} ELSE r.owners
              F == r.found \ {c}
  <1>1. /\ r \in RequestState /\ r.at = "verify" /\ Placed(r) /\ Accounted(r)
        /\ UNCHANGED <<outboxVars, subscriptions>> /\ r.found # {}
        /\ r.steady \subseteq Owners(subscriptions, r.delivery)
    BY DEF IngressInv, RequestSound, verifyOne, AskedEnough, Placed, ResolvingPlaces
  <1>2. c \in r.found
    <2>. DEFINE I == {x.id : x \in r.found}
    <2>1. r.found \in SUBSET Candidates
      BY <1>1 DEF RequestState
    <2>2. \A x \in r.found : x.id \in Nat
      BY <2>1, TableAssumption DEF Candidates
    <2>3. I \in SUBSET Nat /\ I # {}
      BY <1>1, <2>2
    <2>4. PICK m \in I : \A n \in I : m <= n
      BY <2>3, LeastSeq
    <2>5. \E x \in r.found : \A y \in r.found : x.id <= y.id
      BY <2>4
    <2>. QED BY <2>5
  <1>3. request' = [request EXCEPT ![p].found = F, ![p].owners = O]
    BY <1>1 DEF verifyOne, IngressInv, RequestState
  <1>. HIDE DEF c
  <1>4. r.found \in SUBSET Candidates /\ r.owners \in SUBSET Candidates
    BY <1>1 DEF RequestState
  <1>5. F \in SUBSET Candidates /\ O \in SUBSET Candidates
    BY <1>2, <1>4
  <1>6. \A x \in F \cup O : CandidateSound(r, x)
    BY <1>1, <1>2 DEF Placed
  <1>. HIDE DEF F, O
  <1>7. PICK q : q = [r EXCEPT !.at = "verify", !.found = F, !.owners = O]
    OBVIOUS
  <1>8. /\ request' = [request EXCEPT ![p] = q]
        /\ q.at = "verify" /\ q.found = F /\ q.owners = O /\ q.steady = r.steady
    <2>1. q = [r EXCEPT !.found = F, !.owners = O]
      BY <1>1, <1>7 DEF RequestState
    <2>2. request' = [request EXCEPT ![p] = q]
      BY <1>3, <2>1 DEF IngressInv
    <2>. QED BY <1>1, <1>7, <2>2 DEF RequestState
  <1>9. \A s \in r.steady : Among(s, F \cup O)
    <2>. SUFFICES ASSUME NEW s \in r.steady PROVE Among(s, F \cup O)
      OBVIOUS
    <2>1. PICK x \in r.found \cup r.owners : x.slot = s
      BY <1>1 DEF Accounted, Among
    <2>2. CASE x # c \/ x \in r.owners
      BY <2>1, <2>2 DEF F, O, Among
    <2>3. CASE x = c
      <3>1. c.secret = subscriptions[s].secret
        BY <1>1, <1>2, <2>1, <2>3 DEF Placed, CandidateSound
      <3>2. c \in O
        BY <1>1, <3>1, OwnersFacts DEF O
      <3>. QED BY <2>1, <2>3, <3>2 DEF Among
    <2>. QED BY <2>2, <2>3
  <1>10. Accounted(q)
    BY <1>8, <1>9 DEF Accounted
  <1>. QED BY <1>1, <1>5, <1>6, <1>7, <1>8, <1>10, GoesOn DEF ResolvingPlaces

(* A Verify that panics settles nothing: the delivery is parked.            *)
LEMMA PanicInv ==
    ASSUME IngressInv, NEW p \in Requests, VerifyPanics(p)
    PROVE  IngressInv'
  BY SentToPark DEF VerifyPanics

(* Settle: of no owner nothing is left to ask, and one owner is every steady*)
(* one.                                                                     *)
LEMMA SettleInv ==
    ASSUME IngressInv, NEW p \in Requests, Settle(p)
    PROVE  IngressInv'
  <1>. DEFINE r == request[p]
  <1>1. /\ r \in RequestState /\ r.at = "verify" /\ Placed(r) /\ Accounted(r)
        /\ UNCHANGED <<outboxVars, subscriptions>> /\ AskedEnough(r.found, r.owners)
    BY DEF IngressInv, RequestSound, Settle
  <1>2. Cardinality({}) = 0
    BY FS_EmptySet
  <1>3. CASE r.owners = {}
    <2>1. Decide(p, "unverified")
      BY <1>2, <1>3 DEF Settle
    <2>2. r.steady = {}
      BY <1>1, <1>2, <1>3 DEF AskedEnough, Accounted, Among
    <2>3. RowsKept /\ UNCHANGED vars
      BY <1>1 DEF outboxVars, vars, RowsKept, Stored
    <2>4. IInv' /\ QueueHasItsSubscription'
      BY <1>1, <2>3, StepInv DEF IngressInv, QueueHasItsSubscription, vars, Stored, Registered
    <2>5. PICK d : d = r.delivery
      OBVIOUS
    <2>. QED BY <1>1, <2>1, <2>2, <2>3, <2>4, <2>5, Decided DEF ResolvingPlaces
  <1>4. CASE r.owners # {} /\ Cardinality(r.owners) = 1
    <2>1. Goto(p, "store") /\ r.found = {}
      BY <1>1, <1>4 DEF Settle, AskedEnough
    <2>2. PICK q : q = [r EXCEPT !.at = "store", !.found = {}, !.owners = r.owners]
      OBVIOUS
    <2>3. /\ request' = [request EXCEPT ![p] = q]
          /\ q.at = "store" /\ q.found = {} /\ q.owners = r.owners /\ q.steady = r.steady
      BY <1>1, <2>1, <2>2 DEF Goto, IngressInv, RequestState
    <2>4. Accounted(q)
      BY <1>1, <1>4, <2>1, <2>3 DEF Accounted, Among
    <2>5. PICK O : O = r.owners
      OBVIOUS
    <2>6. /\ {} \in SUBSET Candidates /\ O \in SUBSET Candidates
          /\ \A c \in {} \cup O : CandidateSound(r, c)
      BY <1>1, <2>5 DEF RequestState, Placed
    <2>. QED BY <1>1, <2>2, <2>3, <2>4, <2>5, <2>6, GoesOn DEF ResolvingPlaces
  <1>5. CASE r.owners # {} /\ Cardinality(r.owners) # 1
    <2>1. ToPark(p, "ambiguous")
      BY <1>5 DEF Settle
    <2>. QED BY <1>1, <2>1, SentToPark
  <1>. QED BY <1>3, <1>4, <1>5

(* The stores, reported.                                                    *)
LEMMA AcceptOwnedInv ==
    ASSUME IngressInv, NEW p \in Requests, acceptOwned(p)
    PROVE  IngressInv' /\ [Next]_vars
  <1>1. PICK d : d = request[p].delivery
    OBVIOUS
  <1>2. PICK v \in {"stored", "duplicate"} : Decide(p, v)
    BY DEF acceptOwned
  <1>3. /\ request[p].at = "store" /\ StoreOwned(p) /\ subscriptions' = subscriptions
    BY DEF acceptOwned
  <1>4. [Next]_vars /\ RowsKept /\ IsKept(d)' /\ QueueHasItsSubscription'
    BY <1>1, <1>3, StoredRows
  <1>5. IInv'
    BY <1>4, StepInv DEF IngressInv
  <1>. QED BY <1>1, <1>2, <1>3, <1>4, <1>5, Decided DEF ResolvingPlaces

(* As the stores, for a delivery nobody owns.                               *)
LEMMA ParkRequestInv ==
    ASSUME IngressInv, NEW p \in Requests, park(p)
    PROVE  IngressInv' /\ [Next]_vars
  <1>1. PICK d : d = request[p].delivery
    OBVIOUS
  <1>2. /\ request[p].at = "park" /\ StoreParked(p) /\ subscriptions' = subscriptions
        /\ Decide(p, "parked")
    BY DEF park
  <1>3. [Next]_vars /\ RowsKept /\ IsKept(d)' /\ QueueHasItsSubscription'
    BY <1>1, <1>2, ParkedRows
  <1>4. IInv'
    BY <1>3, StepInv DEF IngressInv
  <1>. QED BY <1>1, <1>2, <1>3, <1>4, Decided DEF ResolvingPlaces

(* HubError: what the transaction stored stays, and nobody was told.        *)
LEMMA HubErrorInv ==
    ASSUME IngressInv, NEW p \in Requests, HubError(p)
    PROVE  IngressInv' /\ [Next]_vars
  <1>1. PICK d : d = request[p].delivery
    OBVIOUS
  <1>2. PICK e \in Errors : Decide(p, e)
    BY DEF HubError
  <1>3. request[p].at \in ResolvingPlaces /\ subscriptions' = subscriptions
    BY DEF HubError, Resolving, ResolvingPlaces
  <1>4. [Next]_vars /\ RowsKept /\ QueueHasItsSubscription'
    <2>1. CASE request[p].at = "store" /\ StoreOwned(p)
      BY <1>1, <1>3, <2>1, StoredRows
    <2>2. CASE request[p].at = "park" /\ StoreParked(p)
      BY <1>1, <1>3, <2>2, ParkedRows
    <2>3. CASE UNCHANGED outboxVars
      BY <1>3, <2>3 DEF outboxVars, vars, RowsKept, Stored, IngressInv, QueueHasItsSubscription,
                        Registered
    <2>. QED BY <2>1, <2>2, <2>3 DEF HubError
  <1>5. IInv'
    BY <1>4, StepInv DEF IngressInv
  <1>6. e \notin {"stored", "duplicate", "parked", "unverified"}
    BY DEF Errors
  <1>. QED BY <1>1, <1>2, <1>3, <1>4, <1>5, <1>6, Decided

(* A request nobody has made.                                               *)
LEMMA IdleFields ==
    /\ IdleRequest.at = "free" /\ IdleRequest.delivery = "none" /\ IdleRequest.verdict = ""
    /\ IdleRequest.status = 0 /\ IdleRequest.found = {} /\ IdleRequest.owners = {}
    /\ IdleRequest.steady = {}
  BY DEF IdleRequest

(* An answer the edge gives by itself never reads as a failed signature.    *)
LEMMA ReplyInv ==
    ASSUME IngressInv, NEW p \in Requests, Free(p), NEW v \in EdgeVerdicts,
           NEW n \in Int \ {401, 403}, Reply(p, v, n), UNCHANGED <<outboxVars, subscriptions>>
    PROVE  IngressInv'
  <1>1. PICK q : q = [request[p] EXCEPT !.at = "answer", !.verdict = v, !.status = n]
    OBVIOUS
  <1>2. request[p] \in RequestState /\ request[p] = IdleRequest
    BY DEF IngressInv, RequestSound, Concluded, Free
  <1>3. request' = [request EXCEPT ![p] = q]
    BY <1>1, <1>2 DEF Reply, IngressInv, RequestState
  <1>4. v \in Verdicts /\ v # "unverified"
    BY DEF Verdicts, EdgeVerdicts, Refusals
  <1>5. /\ q \in RequestState /\ q.at = "answer" /\ q.verdict = v /\ q.status = n
        /\ q.delivery = "none" /\ q.found = {} /\ q.owners = {}
    <2>1. n \in Int /\ "answer" \in Places
      BY DEF Places
    <2>2. q \in RequestState
      BY <1>1, <1>2, <1>4, <2>1 DEF RequestState
    <2>3. q.at = "answer" /\ q.verdict = v /\ q.status = n
      BY <1>1, <1>2 DEF RequestState
    <2>4. q.delivery = request[p].delivery /\ q.found = request[p].found
          /\ q.owners = request[p].owners
      BY <1>1, <1>2 DEF RequestState
    <2>5. request[p] = IdleRequest
      BY <1>2
    <2>6. request[p].delivery = "none"
      BY <2>5, IdleFields
    <2>7. request[p].found = {}
      BY <2>5, IdleFields
    <2>8. request[p].owners = {}
      BY <2>5, IdleFields
    <2>. QED BY <2>2, <2>3, <2>4, <2>6, <2>7, <2>8
  <1>6. Placed(q) /\ Accounted(q)
    BY <1>5 DEF Placed, Accounted, ResolvingPlaces
  <1>7. Concluded(q)
    BY <1>4, <1>5 DEF Concluded, EdgeVerdicts, Refusals
  <1>. QED BY <1>3, <1>5, <1>6, <1>7, QuietRequest DEF RequestSound

(* What the edge answers, of a handshake or a request that is no delivery.  *)
LEMMA EdgeInv ==
    ASSUME IngressInv, NEW p \in Requests, Refuse(p) \/ Handshake(p)
    PROVE  IngressInv'
  <1>1. CASE Refuse(p)
    <2>1. PICK why \in Refusals : Reply(p, why, RefusalStatus(why))
      BY <1>1 DEF Refuse
    <2>2. RefusalStatus(why) \in {404, 413, 400}
      <3>1. CASE why \in {"unknown provider", "no webhook source"}
        BY <3>1 DEF RefusalStatus
      <3>2. CASE why = "too large"
        <4>1. RefusalStatus("too large") = 413
          BY Zenon DEF RefusalStatus
        <4>. QED BY <3>2, <4>1
      <3>3. CASE why = "cut short"
        <4>1. RefusalStatus("cut short") = 400
          BY Zenon DEF RefusalStatus
        <4>. QED BY <3>3, <4>1
      <3>. QED BY <3>1, <3>2, <3>3 DEF Refusals
    <2>3. why \in EdgeVerdicts /\ RefusalStatus(why) \in Int \ {401, 403}
      BY <2>2 DEF EdgeVerdicts
    <2>4. PICK n : n = RefusalStatus(why)
      OBVIOUS
    <2>. QED BY <1>1, <2>1, <2>3, <2>4, ReplyInv DEF Refuse
  <1>2. CASE Handshake(p)
    <2>1. PICK asked \in ReplyStatuses, wellFormed \in BOOLEAN :
             Reply(p, "handshake", writeReply(asked, wellFormed))
      BY <1>2 DEF Handshake
    <2>2. PICK n : n = writeReply(asked, wellFormed)
      OBVIOUS
    <2>3. n \in Int \ {401, 403}
      BY <2>2 DEF writeReply, handshakeStatus, ReplyStatuses
    <2>4. "handshake" \in EdgeVerdicts
      BY DEF EdgeVerdicts
    <2>. QED BY <1>2, <2>1, <2>2, <2>3, <2>4, ReplyInv DEF Handshake
  <1>. QED BY <1>1, <1>2

(* A delivery is posted.                                                    *)
LEMMA PostInv ==
    ASSUME IngressInv, NEW p \in Requests, NEW d \in Deliveries, Post(p, d)
    PROVE  IngressInv'
  <1>1. PICK q : q = [request[p] EXCEPT !.at = "edge", !.delivery = d]
    OBVIOUS
  <1>2. request[p] \in RequestState /\ request[p] = IdleRequest
    BY DEF IngressInv, RequestSound, Concluded, Post, Free
  <1>3. request' = [request EXCEPT ![p] = q] /\ UNCHANGED <<outboxVars, subscriptions>>
    BY <1>1, <1>2 DEF Post, IngressInv, RequestState
  <1>4. /\ q \in RequestState /\ q.at = "edge" /\ q.verdict = "" /\ q.status = 0
        /\ q.delivery = d /\ q.found = {} /\ q.owners = {} /\ q.steady = {}
    BY <1>1, <1>2, IdleFields DEF RequestState, Places
  <1>5. Placed(q) /\ Accounted(q)
    BY <1>4 DEF Placed, Accounted, ResolvingPlaces
  <1>6. Concluded(q)
    BY <1>4 DEF Concluded, EdgeVerdicts, Refusals
  <1>. QED BY <1>3, <1>4, <1>5, <1>6, QuietRequest DEF RequestSound

(* It promises nothing.                                                     *)
LEMMA IdleSound == RequestSound(IdleRequest)
  <1>1. IdleRequest \in RequestState
    BY DEF IdleRequest, RequestState, Places, Verdicts
  <1>2. Placed(IdleRequest) /\ Accounted(IdleRequest)
    BY DEF Placed, Accounted, IdleRequest, ResolvingPlaces
  <1>3. Concluded(IdleRequest)
    BY DEF Concluded, IdleRequest, EdgeVerdicts, Refusals
  <1>. QED BY <1>1, <1>2, <1>3 DEF RequestSound

(* serveHTTP answers: the request is over.                                  *)
LEMMA AnswerInv ==
    ASSUME IngressInv, NEW p \in Requests, Answer(p)
    PROVE  IngressInv'
  <1>1. PICK q : q = IdleRequest
    OBVIOUS
  <1>2. request' = [request EXCEPT ![p] = q] /\ UNCHANGED <<outboxVars, subscriptions>>
    BY <1>1 DEF Answer
  <1>. QED BY <1>1, <1>2, IdleSound, QuietRequest

(* The process stops, and is started again: rows and subscriptions stay.    *)
LEMMA ServerInv ==
    ASSUME IngressInv, Shutdown \/ Exit
    PROVE  IngressInv'
  <1>1. UNCHANGED <<outboxVars, subscriptions>>
    BY DEF Shutdown, Exit
  <1>2. RowsKept /\ UNCHANGED vars
    BY <1>1 DEF outboxVars, RowsKept, Stored, vars
  <1>3. IInv' /\ QueueHasItsSubscription' /\ TableOK'
    BY <1>1, <1>2, StepInv DEF IngressInv, QueueHasItsSubscription, vars, Stored, Registered,
                               TableOK
  <1>4. request' = [p \in Requests |-> request'[p]]
    BY DEF Shutdown, Exit, IngressInv
  <1>5. ASSUME NEW p \in Requests PROVE RequestSound(request[p])'
    <2>1. PICK q : q = request'[p]
      OBVIOUS
    <2>2. RequestSound(q)
      BY <2>1, IdleSound DEF Shutdown, Exit, IngressInv
    <2>3. RequestSound(q)'
      BY <1>1, <1>2, <2>2, SoundKept
    <2>. QED BY <2>1, <2>3
  <1>. QED BY <1>3, <1>4, <1>5 DEF IngressInv

(* Register stores or updates one row, which keeps its id.                  *)
LEMMA RegisterFacts ==
    ASSUME IngressInv, NEW n \in Registrations, Register(n.slot, n.row)
    PROVE  /\ TableOK'
           /\ Registered(subscriptions) \subseteq Registered(subscriptions')
           /\ \A s \in Registered(subscriptions) : subscriptions'[s].id = subscriptions[s].id
           /\ \A s \in Slots \ {n.slot} : subscriptions'[s] = subscriptions[s]
  <1>. DEFINE new == Upserted(n.slot, n.row)
  <1>1. n.slot \in Slots /\ n.row \in Subscription /\ NoSubscription \notin Subscription
    BY TableAssumption
  <1>2. TableOK /\ subscriptions' = [subscriptions EXCEPT ![n.slot] = new]
        /\ ~IdTaken(n.slot, n.row)
    BY DEF IngressInv, Register
  <1>3. /\ new \in Subscription
        /\ n.slot \in Registered(subscriptions) => new.id = subscriptions[n.slot].id
        /\ n.slot \notin Registered(subscriptions) => new = n.row
    BY <1>1, <1>2 DEF Upserted, TableOK, Registered, Subscription
  <1>. HIDE DEF new
  <1>4. /\ subscriptions'[n.slot] = new
        /\ \A s \in Slots \ {n.slot} : subscriptions'[s] = subscriptions[s]
        /\ subscriptions' \in [Slots -> Subscription \cup {NoSubscription}]
    BY <1>1, <1>2, <1>3 DEF TableOK
  <1>5. Registered(subscriptions') = Registered(subscriptions) \cup {n.slot}
    BY <1>1, <1>3, <1>4 DEF Registered
  <1>6. \A s \in Registered(subscriptions) : subscriptions'[s].id = subscriptions[s].id
    BY <1>3, <1>4 DEF Registered
  <1>7. ASSUME NEW s \in Registered(subscriptions'), NEW u \in Registered(subscriptions'),
               subscriptions'[s].id = subscriptions'[u].id
        PROVE  s = u
    <2>1. CASE s \in Registered(subscriptions) /\ u \in Registered(subscriptions)
      BY <1>2, <1>6, <1>7, <2>1 DEF TableOK
    <2>2. CASE n.slot \notin Registered(subscriptions)
      <3>1. \A v \in Registered(subscriptions) : subscriptions[v].id # new.id
        BY <1>2, <1>3, <2>2 DEF IdTaken
      <3>. QED BY <1>4, <1>5, <1>6, <1>7, <2>1, <3>1
    <2>. QED BY <1>5, <2>1, <2>2
  <1>. QED BY <1>4, <1>5, <1>6, <1>7 DEF TableOK

(* An accept that resolves goes on resolving beside a Register: what was    *)
(* written is no longer steady.                                             *)
LEMMA RegisterInv ==
    ASSUME IngressInv, Operator
    PROVE  IngressInv'
  <1>1. PICK n \in Registrations : Register(n.slot, n.row)
    BY DEF Operator
  <1>2. UNCHANGED outboxVars
    BY <1>1 DEF Register
  <1>3. /\ TableOK'
        /\ Registered(subscriptions) \subseteq Registered(subscriptions')
        /\ \A s \in Registered(subscriptions) : subscriptions'[s].id = subscriptions[s].id
        /\ \A s \in Slots \ {n.slot} : subscriptions'[s] = subscriptions[s]
    BY <1>1, RegisterFacts
  <1>4. IInv' /\ UNCHANGED vars
    BY <1>2, StepInv DEF IngressInv, outboxVars, vars
  <1>5. QueueHasItsSubscription'
    <2>. SUFFICES ASSUME NEW r \in RowId, r[1] \in Tenants, Stored(r)
                  PROVE  \E s \in Registered(subscriptions') :
                            /\ TenantOf(s) = r[1] /\ s[2] = ProviderOf[r[2]]
                            /\ outbox[r].ordering_key = orderingKey(s[2], subscriptions'[s].id)
      BY <1>4 DEF QueueHasItsSubscription, vars, Stored
    <2>. QED BY <1>3 DEF IngressInv, QueueHasItsSubscription
  <1>6. request' = [p \in Requests |-> request'[p]]
    BY <1>1 DEF Register
  <1>7. ASSUME NEW p \in Requests PROVE RequestSound(request[p])'
    <2>1. PICK r : r = request[p]
      OBVIOUS
    <2>2. PICK q : q = request'[p]
      OBVIOUS
    <2>3. RequestSound(r)
      BY <2>1 DEF IngressInv
    <2>4. CASE ~Resolving(p)
      <3>1. q = r
        BY <1>1, <2>1, <2>2, <2>4 DEF Register
      <3>2. r.at \notin ResolvingPlaces
        BY <2>1, <2>4 DEF Resolving, ResolvingPlaces
      <3>3. Placed(r)' /\ Accounted(r)'
        BY <2>3, <3>2 DEF RequestSound, Placed, Accounted, ResolvingPlaces
      <3>4. Concluded(r)'
        BY <1>4, <2>3 DEF RequestSound, Concluded, IsKept, vars, Stored
      <3>. QED BY <2>2, <2>3, <3>1, <3>3, <3>4 DEF RequestSound
    <2>5. CASE Resolving(p)
      <3>1. q = [r EXCEPT !.steady = @ \ {n.slot},
                          !.always = @ \cap Owners(subscriptions', r.delivery)]
        BY <1>1, <2>1, <2>2, <2>5 DEF Register
      <3>2. r \in RequestState /\ r.at \in ResolvingPlaces
        BY <2>1, <2>3, <2>5 DEF RequestSound, Resolving, ResolvingPlaces
      <3>3. /\ q \in RequestState /\ q.at = r.at /\ q.delivery = r.delivery
            /\ q.verdict = r.verdict /\ q.status = r.status /\ q.reason = r.reason
            /\ q.found = r.found /\ q.owners = r.owners /\ q.steady = r.steady \ {n.slot}
        BY <3>1, <3>2 DEF RequestState
      <3>4. \A s \in q.steady : s \in Registered(subscriptions) /\ subscriptions'[s] = subscriptions[s]
        BY <1>3, <2>3, <3>2, <3>3 DEF RequestSound, Placed, Owners, Registered
      <3>5. q.steady \subseteq Owners(subscriptions', q.delivery)
        BY <1>3, <2>3, <3>2, <3>3, <3>4 DEF RequestSound, Placed, Owners
      <3>6. \A c \in q.found \cup q.owners : CandidateSound(q, c)'
        <4>. SUFFICES ASSUME NEW c \in r.found \cup r.owners PROVE CandidateSound(q, c)'
          BY <3>3
        <4>1. CandidateSound(r, c)
          BY <2>3 DEF RequestSound, Placed
        <4>. QED BY <1>3, <3>3, <3>4, <4>1 DEF CandidateSound
      <3>7. Placed(q)'
        BY <2>3, <3>2, <3>3, <3>5, <3>6 DEF RequestSound, Placed, ResolvingPlaces
      <3>8. Accounted(q)'
        <4>1. \A s \in q.steady : s \in BySubscription(subscriptions, q.delivery)
                                     => s \in BySubscription(subscriptions', q.delivery)
          BY <1>3, <3>4 DEF BySubscription
        <4>2. \A T : Covers(q.found, T) => Covers(q.found, T)'
          BY DEF Covers, Among
        <4>. QED BY <2>3, <3>3, <4>1 DEF RequestSound, Accounted, Covers
      <3>9. Concluded(q)'
        BY <2>3, <3>2, <3>3 DEF RequestSound, Placed, Concluded, ResolvingPlaces, EdgeVerdicts,
                                Refusals
      <3>. QED BY <2>2, <3>3, <3>7, <3>8, <3>9 DEF RequestSound
    <2>. QED BY <2>4, <2>5
  <1>. QED BY <1>3, <1>4, <1>5, <1>6, <1>7 DEF IngressInv

-----------------------------------------------------------------------------
(* The theorems *)

(* Nothing is stored, and no accept is in flight, when the process starts.  *)
LEMMA IngressInitInv == IngressInit => IngressInv
  <1>. SUFFICES ASSUME IngressInit PROVE IngressInv
    OBVIOUS
  <1>1. IInv
    BY InitInv DEF IngressInit, HubInit
  <1>2. TableOK
    <2>1. subscriptions \in Before
      BY DEF IngressInit, HubInit
    <2>. QED BY <2>1, TableAssumption DEF TableOK, Registered
  <1>3. QueueHasItsSubscription
    BY DEF IngressInit, HubInit, Init, QueueHasItsSubscription, Stored, AbsentRow, NewRow
  <1>4. request = [p \in Requests |-> IdleRequest]
    BY DEF IngressInit, HubInit
  <1>. QED BY <1>1, <1>2, <1>3, <1>4, IdleSound DEF IngressInv

(* Every step of the ingress, and what it does to the outbox.               *)
LEMMA IngressStep ==
    ASSUME IngressInv, [IngressNext]_ingressVars
    PROVE  IngressInv' /\ [Next]_vars
  <1>1. CASE UNCHANGED ingressVars
    <2>1. UNCHANGED <<outboxVars, subscriptions, request>>
      BY <1>1 DEF ingressVars, hubVars
    <2>2. RowsKept /\ UNCHANGED vars
      BY <2>1 DEF outboxVars, RowsKept, Stored, vars
    <2>3. IInv' /\ QueueHasItsSubscription' /\ TableOK'
      BY <2>1, <2>2, StepInv DEF IngressInv, QueueHasItsSubscription, vars, Stored, Registered,
                                 TableOK
    <2>4. ASSUME NEW p \in Requests PROVE RequestSound(request[p])'
      <3>1. PICK q : q = request[p]
        OBVIOUS
      <3>2. RequestSound(q)'
        BY <2>1, <2>2, <3>1, SoundKept DEF IngressInv
      <3>. QED BY <2>1, <3>1, <3>2
    <2>5. request' = [p \in Requests |-> request'[p]]
      BY <2>1 DEF IngressInv
    <2>. QED BY <2>2, <2>3, <2>4, <2>5 DEF IngressInv
  <1>2. CASE \E p \in Requests : Refuse(p) \/ Handshake(p) \/ Enter(p) \/ Answer(p)
    <2>1. UNCHANGED vars
      BY <1>2 DEF Refuse, Handshake, Enter, Answer, outboxVars, vars
    <2>. QED BY <1>2, <2>1, EdgeInv, EnterInv, AnswerInv
  <1>3. CASE \E p \in Requests, d \in Deliveries : Post(p, d)
    BY <1>3, PostInv DEF Post, outboxVars, vars
  <1>4. CASE \E p \in Requests : HubStepOf(p)
    <2>1. PICK p \in Requests : HubStep(p)
      BY <1>4 DEF HubStepOf
    <2>2. CASE acceptOwned(p) \/ park(p)
      BY <2>2, AcceptOwnedInv, ParkRequestInv
    <2>3. CASE CandidatesByWorkspace(p) \/ CandidatesBySubscription(p)
      BY <2>3, ByWorkspaceInv, BySubscriptionInv
         DEF CandidatesByWorkspace, CandidatesBySubscription, outboxVars, vars
    <2>4. CASE verifyOne(p) \/ Settle(p)
      BY <2>4, VerifyInv, SettleInv DEF verifyOne, Settle, outboxVars, vars
    <2>. QED BY <2>1, <2>2, <2>3, <2>4 DEF HubStep
  <1>5. CASE \E p \in Requests : HubFaultOf(p)
    <2>1. PICK p \in Requests : VerifyPanics(p) \/ HubError(p)
      BY <1>5 DEF HubFaultOf
    <2>2. CASE VerifyPanics(p)
      BY <2>2, PanicInv DEF VerifyPanics, outboxVars, vars
    <2>. QED BY <2>1, <2>2, HubErrorInv
  <1>6. CASE Operator
    BY <1>6, RegisterInv DEF Operator, Register, outboxVars, vars
  <1>7. CASE Shutdown \/ Exit
    BY <1>7, ServerInv DEF Shutdown, Exit, outboxVars, vars
  <1>. QED BY <1>1, <1>2, <1>3, <1>4, <1>5, <1>6, <1>7 DEF IngressNext

(* IngressInv holds in every state of the ingress.                          *)
LEMMA IngressInductive == IngressSpec => []IngressInv
  <1>1. IngressInv /\ [IngressNext]_ingressVars => IngressInv'
    BY IngressStep
  <1>. QED BY <1>1, IngressInitInv, PTL DEF IngressSpec

(* To the outbox the ingress is one of its clients: every step of a request,*)
(* an operator or the process is a step of module Outbox or changes no row, *)
(* so what the outbox promises holds behind the ingress.                    *)
THEOREM IngressUsesOutbox == IngressSpec => Spec
  <1>1. IngressInv /\ [IngressNext]_ingressVars => [Next]_vars
    BY IngressStep
  <1>2. IngressInit => Init
    BY DEF IngressInit, HubInit
  <1>. QED BY <1>1, <1>2, IngressInductive, PTL DEF IngressSpec, Spec

(* A re-registered subscription goes on with the queue it had.              *)
THEOREM QueuesKeepTheirSubscription == IngressSpec => []QueueHasItsSubscription
  <1>1. IngressInv => QueueHasItsSubscription
    BY DEF IngressInv
  <1>. QED BY <1>1, IngressInductive, PTL

(* A delivery answered with a 2xx is stored, whatever failed before.        *)
THEOREM AcknowledgedIsStored == IngressSpec => []AcknowledgedIsKept
  <1>1. IngressInv => AcknowledgedIsKept
    <2>. SUFFICES ASSUME IngressInv, NEW p \in Requests, request[p].at = "answer",
                         request[p].delivery # "none", status(request[p]) \in 200..299
                  PROVE  \E t \in Tenants \cup {Sentinel} : Stored(<<t, request[p].delivery>>)
      BY DEF AcknowledgedIsKept
    <2>1. Concluded(request[p]) /\ request[p] \in RequestState
      BY DEF IngressInv, RequestSound
    <2>2. request[p].verdict \notin EdgeVerdicts
      BY <2>1 DEF Concluded
    <2>3. request[p].verdict \in {"stored", "duplicate", "parked"}
      <3>. SUFFICES ASSUME request[p].verdict \notin {"stored", "duplicate", "parked"}
                    PROVE  status(request[p]) \in {401, 503, 500, 0}
        OBVIOUS
      <3>1. request[p].status = 0
        BY <2>1, <2>2 DEF Concluded
      <3>. QED BY <3>1 DEF status
    <2>. QED BY <2>1, <2>3 DEF Concluded, IsKept
  <1>. QED BY <1>1, IngressInductive, PTL

(* A 401 is only ever said of a delivery no steady subscription owns.       *)
THEOREM UnverifiedMeansNobody == IngressSpec => []UnverifiedIsTrue
  <1>1. IngressInv => UnverifiedIsTrue
    <2>. SUFFICES ASSUME IngressInv, NEW p \in Requests
                  PROVE  /\ \/ request[p].verdict = "unverified"
                            \/ request[p].at = "park" /\ request[p].reason = "no owner"
                            => request[p].steady = {}
                         /\ request[p].verdict \in EdgeVerdicts
                               => status(request[p]) \notin {401, 403}
      BY DEF UnverifiedIsTrue
    <2>1. Concluded(request[p]) /\ Accounted(request[p])
      BY DEF IngressInv, RequestSound
    <2>2. request[p].verdict \in EdgeVerdicts => status(request[p]) = request[p].status
      BY DEF status, EdgeVerdicts, Refusals
    <2>. QED BY <2>1, <2>2 DEF Concluded, Accounted
  <1>. QED BY <1>1, IngressInductive, PTL

(* Principle 2: a stored delivery is owned by no steady subscription but    *)
(* the one it is stored for.                                                *)
THEOREM OnlyOwnerGetsIt == IngressSpec => RoutedToOnlyOwner
  <1>1. IngressInv => \A p \in Requests : request[p].at = "store" =>
           request[p].steady \subseteq {c.slot : c \in request[p].owners}
    <2>. SUFFICES ASSUME IngressInv, NEW p \in Requests, request[p].at = "store",
                         NEW s \in request[p].steady
                  PROVE  \E c \in request[p].owners : s = c.slot
      OBVIOUS
    <2>. QED BY DEF IngressInv, RequestSound, Accounted, Among
  <1>2. IngressInv /\ [IngressNext]_ingressVars =>
           [\A p \in Requests, r \in RowId :
               Routes(p, r) => request[p].steady \subseteq
                                  {c.slot : c \in request[p].owners}]_ingressVars
    BY <1>1 DEF Routes
  <1>. QED BY <1>2, IngressInductive, PTL DEF IngressSpec, RoutedToOnlyOwner

-----------------------------------------------------------------------------
(* The routing table *)

Routed == offered \cup {edge}

(* What newMux registers: the routes, and their guards.                     *)
Registrable == Routed \cup {Guard(r) : r \in {x \in Routed : redirectRoot(x.path) # <<>>}}

(* A pattern that answers a path by itself, not from further up.            *)
Meets(u, method, path) ==
    /\ method \in MethodsOf[u.method] /\ PathMatches(u.path, path)
    /\ StoredAs[Last(u.path)].kind = "rest" => Len(path) = Len(u.path) /\ Last(path) = ""

AnyMeets(t, method, path) == \E u \in t : Meets(u, method, path)

(* A route that newMux is done with has its guard, or needs none.           *)
GuardedOrNot(r) ==
    LET root == redirectRoot(r.path) IN
    root # <<>> => \/ Guard(r) \in table
                   \/ AnyMeets(table, r.method, root)
                   \/ ~AnyMeets(Routed, r.method, Append(root, ""))

(* A guard stands where the routes alone would redirect.                    *)
GuardWasNeeded(g) ==
    \E r \in Routed :
        LET root == redirectRoot(r.path) IN
        /\ root # <<>> /\ g = Guard(r)
        /\ \/ ~Clean(root)
           \/ /\ ~AnyMeets(Routed, r.method, root)
              /\ AnyMeets(Routed, r.method, Append(root, ""))

(* What newMux has built so far: no two patterns conflict, each route it is *)
(* done with is as it should be, and each guard was needed.                 *)
RoutingInv ==
    /\ offered \subseteq Wiring /\ IsFiniteSet(offered)
    /\ stage \in {"handle", "guard", "served"} => \A r \in offered : check(r)
    /\ stage = "guard" => todo \subseteq Routed
    /\ stage = "served" => todo = {}
    /\ stage \in {"guard", "served"} =>
          /\ Routed \subseteq table /\ table \subseteq Registrable /\ IsFiniteSet(table)
          /\ \A r, s \in table : r # s => ~Conflict(r, s)
          /\ \A r \in Routed \ todo : GuardedOrNot(r)
          /\ \A g \in table \ Routed : GuardWasNeeded(g)

-----------------------------------------------------------------------------
(* The patterns of the table *)

(* A sequence of two. *)
LEMMA PairIs ==
    ASSUME NEW S, NEW a \in S, NEW b \in S
    PROVE  <<a, b>> \in Seq(S) /\ Len(<<a, b>>) = 2
  <1>1. <<a, b>> \in [1..2 -> S]
    OBVIOUS
  <1>. QED BY <1>1

(* What arithmetic the lengths need. *)
LEMMA OneAndTwo ==
    /\ 1 \in 1..2 /\ \A i \in 1..2 : i = 1 \/ i = 2
    /\ \A n \in Nat \ {0} : (n > 1 \/ n = 1) /\ n \in 1..n
  OBVIOUS

(* And what a slash behind a path adds to them. *)
LEMMA OneMore ==
    ASSUME NEW n \in Nat \ {0}
    PROVE  /\ n + 1 > 1 /\ \A k \in Nat : k + 1 = n + 1 => k = n
           /\ \A i \in 1..n : i \in 1..(n + 1)
           /\ \A i \in 1..(n + 1) : i \in 1..n \/ i = n + 1
  OBVIOUS

(* What the edge's pattern is, and matches.                                 *)
LEMMA EdgeIs ==
    /\ edge.method = "POST" /\ edge.path \in Seq(DOMAIN StoredAs) /\ edge.path # <<>>
    /\ Len(edge.path) = 2 /\ DOMAIN edge.path = 1..2
    /\ edge.path[1] = "ingress" /\ edge.path[2] = "{provider}"
    /\ StoredAs["ingress"].kind = "text" /\ StoredAs["{provider}"].kind = "one"
    /\ \A text : /\ SegmentMatches("ingress", text) <=> text = "ingress"
                 /\ SegmentMatches("{provider}", text) <=> text # ""
  <1>1. "ingress" \in DOMAIN StoredAs /\ "{provider}" \in DOMAIN StoredAs
    BY SpellingAssumption
  <1>2. edge.method = "POST" /\ edge.path[1] = "ingress" /\ edge.path[2] = "{provider}"
    BY Zenon DEF edge
  <1>3. DOMAIN edge.path = 1..2
    BY Z3 DEF edge
  <1>4. edge.path \in Seq(DOMAIN StoredAs)
    BY <1>1, PairIs, Zenon DEF edge
  <1>5. Len(edge.path) = 2
    BY <1>1, PairIs, Zenon DEF edge
  <1>6. edge.path # <<>>
    BY Zenon DEF edge
  <1>7. StoredAs["ingress"].kind = "text" /\ StoredAs["ingress"].text = "ingress"
    BY SpellingAssumption
  <1>8. StoredAs["{provider}"].kind = "one"
    BY SpellingAssumption
  <1>9. \A text : SegmentMatches("ingress", text) <=> text = "ingress"
    BY <1>7 DEF SegmentMatches
  <1>10. \A text : SegmentMatches("{provider}", text) <=> text # ""
    BY <1>8 DEF SegmentMatches
  <1>. QED BY <1>2, <1>3, <1>4, <1>5, <1>6, <1>7, <1>8, <1>9, <1>10, Zenon

(* A sequence with at least one segment, and its length.                    *)
LEMMA SequenceIs ==
    ASSUME NEW S, NEW p \in Seq(S), p # <<>>
    PROVE  Len(p) \in Nat \ {0} /\ DOMAIN p = 1..Len(p) /\ \A i \in 1..Len(p) : p[i] \in S
  OBVIOUS

(* What is known of a route a caller asks for, or the edge's own.           *)
LEMMA RouteIs ==
    ASSUME NEW r \in Wiring \cup {edge}
    PROVE  /\ r.method \in Methods /\ r.path \in Patterns
           /\ r.path \in Seq(DOMAIN StoredAs) /\ r.path # <<>>
           /\ Len(r.path) \in Nat \ {0} /\ DOMAIN r.path = 1..Len(r.path)
           /\ \A i \in 1..(Len(r.path) - 1) : r.path[i] # "" /\ ~SegmentMatches(r.path[i], "")
  <1>1. r.path \in Patterns
    BY DEF Patterns
  <1>2. CASE r \in Wiring
    <2>1. /\ r.method \in Methods /\ r.path \in Seq(DOMAIN StoredAs) /\ r.path # <<>>
          /\ \A i \in 1..(Len(r.path) - 1) : r.path[i] # "" /\ ~SegmentMatches(r.path[i], "")
      BY <1>2, SpellingAssumption
    <2>. QED BY <1>1, <2>1, SequenceIs
  <1>3. CASE r = edge
    <2>1. \A i \in 1..(2 - 1) : i = 1
      OBVIOUS
    <2>2. edge.path[1] # "" /\ ~SegmentMatches(edge.path[1], "")
      BY EdgeIs
    <2>3. "POST" \in Methods
      BY DEF Methods
    <2>4. \A i \in 1..(Len(r.path) - 1) : r.path[i] # "" /\ ~SegmentMatches(r.path[i], "")
      BY <1>3, <2>1, <2>2, EdgeIs, Zenon
    <2>5. r.method \in Methods /\ r.path \in Seq(DOMAIN StoredAs) /\ r.path # <<>>
      BY <1>3, <2>3, EdgeIs, Zenon
    <2>. QED BY <1>1, <2>4, <2>5, SequenceIs
  <1>. QED BY <1>2, <1>3

(* A path of two segments or more has a root.                               *)
LEMMA LongHasRoot ==
    ASSUME NEW S, NEW p \in Seq(S), Len(p) > 1
    PROVE  redirectRoot(p) # <<>>
  <1>1. PICK n \in Nat : n = Len(p)
    OBVIOUS
  <1>2. n > 1 /\ redirectRoot(p) = SubSeq(p, 1, n - 1)
    BY <1>1 DEF redirectRoot
  <1>3. \A i \in 1..(n - 1) : p[i] \in S
    BY <1>1
  <1>4. Len(redirectRoot(p)) = n - 1
    BY <1>1, <1>2, <1>3, SubSeqProperties
  <1>. QED BY <1>2, <1>4

(* The root of a route: its segments but the last, none of which matches    *)
(* the end of a path with a trailing slash.                                 *)
LEMMA RootIs ==
    ASSUME NEW r \in Wiring \cup {edge}, redirectRoot(r.path) # <<>>,
           NEW root, root = redirectRoot(r.path)
    PROVE  /\ root \in Patterns /\ root \in Seq(DOMAIN StoredAs) /\ root # <<>>
           /\ Len(root) \in Nat \ {0} /\ DOMAIN root = 1..Len(root) /\ Len(r.path) = Len(root) + 1
           /\ \A i \in 1..Len(root) :
                 root[i] = r.path[i] /\ root[i] # "" /\ ~SegmentMatches(root[i], "")
           /\ Last(root) # "" /\ StoredAs[Last(root)].kind # "rest"
  <1>1. PICK n \in Nat \ {0} : n = Len(r.path) /\ r.path \in Seq(DOMAIN StoredAs)
    BY RouteIs
  <1>2. n > 1 /\ root = SubSeq(r.path, 1, n - 1)
    BY <1>1 DEF redirectRoot
  <1>3. \A i \in 1..(n - 1) : r.path[i] \in DOMAIN StoredAs
    BY <1>1
  <1>4. /\ root \in Seq(DOMAIN StoredAs) /\ Len(root) = n - 1
        /\ \A i \in 1..(n - 1) : root[i] = r.path[i]
    BY <1>1, <1>2, <1>3, SubSeqProperties
  <1>5. \A i \in 1..(n - 1) : root[i] # "" /\ ~SegmentMatches(root[i], "")
    <2>1. \A i \in 1..(Len(r.path) - 1) : r.path[i] # "" /\ ~SegmentMatches(r.path[i], "")
      BY RouteIs
    <2>. QED BY <2>1, <1>1, <1>4
  <1>6. root \in Patterns
    BY DEF Patterns
  <1>7. Len(root) \in Nat \ {0} /\ DOMAIN root = 1..Len(root)
    BY <1>4, SequenceIs
  <1>8. PICK segment : segment = root[n - 1] /\ Last(root) = segment
    BY <1>4 DEF Last
  <1>9. segment # "" /\ ~SegmentMatches(segment, "")
    <2>1. n - 1 \in 1..(n - 1)
      BY <1>2
    <2>. QED BY <2>1, <1>5, <1>8
  <1>10. StoredAs[segment].kind # "rest"
    BY <1>9 DEF SegmentMatches
  <1>11. Last(root) # "" /\ StoredAs[Last(root)].kind # "rest"
    BY <1>8, <1>9, <1>10, Zenon
  <1>12. Len(r.path) = Len(root) + 1
    BY <1>1, <1>2, <1>4
  <1>13. \A i \in 1..Len(root) : root[i] = r.path[i] /\ root[i] # "" /\ ~SegmentMatches(root[i], "")
    BY <1>4, <1>5
  <1>. QED BY <1>4, <1>6, <1>7, <1>11, <1>12, <1>13

(* A pattern of a route or of a guard. *)
LEMMA PatternIs ==
    ASSUME NEW p \in Patterns
    PROVE  p \in Seq(DOMAIN StoredAs) /\ p # <<>> /\ Len(p) \in Nat \ {0} /\ DOMAIN p = 1..Len(p)
  <1>1. CASE \E r \in Wiring \cup {edge} : p = r.path
    BY <1>1, RouteIs
  <1>2. CASE \E r \in Wiring \cup {edge} : p = redirectRoot(r.path) /\ p # <<>>
    BY <1>2, RootIs
  <1>. QED BY <1>1, <1>2 DEF Patterns

(* What newMux registers has such a pattern. *)
LEMMA RegistrableIs ==
    ASSUME RoutingInv, NEW s \in Registrable
    PROVE  s.path \in Patterns /\ s.method \in Methods
  <1>1. Routed \subseteq Wiring \cup {edge}
    BY DEF RoutingInv, Routed
  <1>2. CASE s \in Routed
    BY <1>1, <1>2, RouteIs
  <1>3. ASSUME NEW r \in Routed, redirectRoot(r.path) # <<>>, s = Guard(r)
        PROVE  s.path \in Patterns /\ s.method \in Methods
    <2>1. s.path = redirectRoot(r.path) /\ s.method = r.method
      BY <1>3 DEF Guard
    <2>. QED BY <2>1, <1>1, <1>3, RouteIs, RootIs
  <1>. QED BY <1>2, <1>3 DEF Registrable

(* What answers a method is answered by whatever answers that.              *)
LEMMA MethodsNest ==
    ASSUME NEW a \in Methods, NEW b \in Methods
    PROVE  /\ a \in MethodsOf[a]
           /\ a \in MethodsOf[b] => MethodsOf[a] \subseteq MethodsOf[b]
  <1>1. /\ MethodsOf[""] = Methods /\ MethodsOf["GET"] = {"GET", "HEAD"}
        /\ MethodsOf["HEAD"] = {"HEAD"} /\ MethodsOf["POST"] = {"POST"}
    BY DEF MethodsOf, Methods
  <1>. QED BY <1>1 DEF Methods

-----------------------------------------------------------------------------
(* net/http's order *)

(* A set of naturals has a least element.                                   *)
LEMMA LeastNat ==
    ASSUME NEW S \in SUBSET Nat, S # {}
    PROVE  \E m \in S : \A n \in S : m <= n
  <1>1. PICK m \in S : \A n \in S : ~(<<n, m>> \in OpToRel(<, Nat))
    BY WFMin, NatLessThanWellFounded, Zenon
  <1>2. \A n \in S : ~(n < m)
    BY <1>1, Zenon DEF OpToRel
  <1>. QED BY <1>2

(* A finite set in which R orders any two one way has a first.              *)
LEMMA FirstOf ==
    ASSUME NEW S, IsFiniteSet(S), S # {}, NEW R \in SUBSET (S \X S),
           \A r \in S : <<r, r>> \in R,
           \A r, s, u \in S : <<r, s>> \in R /\ <<s, u>> \in R => <<r, u>> \in R,
           \A r, s \in S : r # s => (<<r, s>> \in R <=> <<s, r>> \notin R)
    PROVE  \E w \in S : /\ \A s \in S : <<w, s>> \in R
                        /\ \A v \in S : (\A s \in S : <<v, s>> \in R) => v = w
  <1>. DEFINE Under(r) == {x \in S : <<x, r>> \in R}
              Sizes == {Cardinality(Under(r)) : r \in S}
  <1>1. \A r \in S : IsFiniteSet(Under(r)) /\ Cardinality(Under(r)) \in Nat
    BY FS_Subset, FS_CardinalityType
  <1>2. PICK m \in Sizes : m \in Nat /\ \A n \in Sizes : m <= n
    <2>1. \A r \in S : Cardinality(Under(r)) \in Nat
      BY <1>1
    <2>2. Sizes \subseteq Nat
      <3>. HIDE DEF Under
      <3>. QED BY <2>1
    <2>3. Sizes # {}
      <3>1. PICK r \in S : TRUE
        OBVIOUS
      <3>2. Cardinality(Under(r)) \in Sizes
        <4>. HIDE DEF Under
        <4>. QED OBVIOUS
      <3>. HIDE DEF Sizes
      <3>. QED BY <3>2
    <2>. HIDE DEF Sizes
    <2>. QED BY <2>2, <2>3, LeastNat
  <1>3. PICK w \in S : m = Cardinality(Under(w))
    OBVIOUS
  <1>4. ASSUME NEW s \in S, <<w, s>> \notin R
        PROVE  FALSE
    <2>1. w # s /\ <<s, w>> \in R
      BY <1>4
    <2>2. Under(s) \subseteq Under(w) /\ w \in Under(w) /\ w \notin Under(s)
      BY <1>4, <2>1
    <2>3. Cardinality(Under(s)) < Cardinality(Under(w))
      <3>. HIDE DEF Under
      <3>. QED BY <1>1, <2>2, FS_Subset
    <2>4. Cardinality(Under(s)) \in Sizes
      <3>. HIDE DEF Under
      <3>. QED OBVIOUS
    <2>5. m <= Cardinality(Under(s)) /\ m \in Nat
      <3>. HIDE DEF Sizes
      <3>. QED BY <2>4, <1>2
    <2>. QED BY <1>1, <1>3, <2>3, <2>5
  <1>5. \A s \in S : <<w, s>> \in R
    BY <1>4
  <1>6. \A v \in S : (\A s \in S : <<v, s>> \in R) => v = w
    BY <1>5
  <1>. QED BY <1>5, <1>6

(* A set of patterns that Handle accepted.                                  *)
Tabled(t) ==
    /\ IsFiniteSet(t) /\ t \subseteq Registrable
    /\ \A r, s \in t : r # s => ~Conflict(r, s)

Matches(r, method, path) == method \in MethodsOf[r.method] /\ PathMatches(r.path, path)

(* Any two patterns that match the path overlap in Paths.                   *)
Shown(path) ==
    \A r, s \in Patterns : PathMatches(r, path) /\ PathMatches(s, path) => PathsOf[r] \cap PathsOf[s] # {}

(* Of the patterns that match, the mux finds the one within all others.     *)
LEMMA MatchedIs ==
    ASSUME RoutingInv, NEW t, Tabled(t), NEW method, NEW path, Shown(path),
           NEW all, all = {r \in t : Matches(r, method, path)}, all # {}
    PROVE  \E w \in all : /\ w = Matched(t, method, path)
                          /\ \A s \in all : Within(w, s)
                          /\ \A v \in all : (\A s \in all : Within(v, s)) => v = w
  <1>. DEFINE R == {x \in all \X all : Within(x[1], x[2])}
  <1>1. IsFiniteSet(all) /\ all \subseteq t
    BY FS_Subset DEF Tabled
  <1>2. \A r, s \in all : <<r, s>> \in R <=> Within(r, s)
    OBVIOUS
  <1>3. \A r \in all : <<r, r>> \in R
    BY <1>2 DEF Within
  <1>4. \A r, s, u \in all : <<r, s>> \in R /\ <<s, u>> \in R => <<r, u>> \in R
    <2>. HIDE DEF R
    <2>. QED BY <1>2 DEF Within
  <1>5. ASSUME NEW r \in all, NEW s \in all, r # s
        PROVE  <<r, s>> \in R <=> <<s, r>> \notin R
    <2>1. ~Conflict(r, s)
      BY <1>1, <1>5 DEF Tabled
    <2>2. method \in MethodsOf[r.method] \cap MethodsOf[s.method]
      BY DEF Matches
    <2>3. r.path \in Patterns /\ s.path \in Patterns
      BY <1>1, RegistrableIs DEF Tabled
    <2>4. PathsOf[r.path] \cap PathsOf[s.path] # {}
      BY <2>3 DEF Shown, Matches
    <2>5. Within(r, s) <=> ~Within(s, r)
      BY <2>1, <2>2, <2>4 DEF Conflict
    <2>. HIDE DEF R
    <2>. QED BY <1>2, <2>5
  <1>6. R \in SUBSET (all \X all)
    OBVIOUS
  <1>7. PICK w \in all : /\ \A s \in all : <<w, s>> \in R
                         /\ \A v \in all : (\A s \in all : <<v, s>> \in R) => v = w
    <2>1. all # {} /\ \A r, s \in all : r # s => (<<r, s>> \in R <=> <<s, r>> \notin R)
      BY <1>5
    <2>. HIDE DEF R
    <2>2. PICK Q : Q = R
      OBVIOUS
    <2>3. IsFiniteSet(all) /\ all # {} /\ Q \in SUBSET (all \X all)
      BY <1>1, <1>6, <2>2
    <2>4. \A r \in all : <<r, r>> \in Q
      BY <1>3, <2>2
    <2>5. \A r, s, u \in all : <<r, s>> \in Q /\ <<s, u>> \in Q => <<r, u>> \in Q
      BY <1>4, <2>2
    <2>6. \A r, s \in all : r # s => (<<r, s>> \in Q <=> <<s, r>> \notin Q)
      BY <2>1, <2>2
    <2>7. \E w \in all : /\ \A s \in all : <<w, s>> \in Q
                         /\ \A v \in all : (\A s \in all : <<v, s>> \in Q) => v = w
      BY ONLY <2>3, <2>4, <2>5, <2>6, FirstOf
    <2>. QED BY <2>2, <2>7
  <1>8. /\ \A s \in all : Within(w, s)
        /\ \A v \in all : (\A s \in all : Within(v, s)) => v = w
    <2>. HIDE DEF R
    <2>. QED BY <1>2, <1>7
  <1>9. Matched(t, method, path) = CHOOSE r \in all : \A s \in all : Within(r, s)
    BY DEF Matched, Matches
  <1>. HIDE DEF R
  <1>. QED BY <1>8, <1>9

-----------------------------------------------------------------------------
(* What a table answers by itself *)

(* A path requests have shows where two patterns overlap, and so does the   *)
(* path and a slash.                                                        *)
LEMMA PathsShow ==
    ASSUME NEW path \in Paths
    PROVE  Shown(path) /\ Shown(Append(path, ""))
  <1>1. Shown(path)
    BY DEF Shown, PathsOf
  <1>2. Shown(Append(path, ""))
    BY PathsAssumption DEF Shown
  <1>. QED BY <1>1, <1>2

(* The mux's pattern answers a path by itself when some pattern does: one   *)
(* that answers from further up is not within it.                           *)
LEMMA MeetsIsExact ==
    ASSUME RoutingInv, NEW t, Tabled(t), NEW method, NEW path, Len(path) \in Nat, Shown(path)
    PROVE  Exact(t, method, path) <=> AnyMeets(t, method, path)
  <1>0. PICK all, w : /\ all = {r \in t : Matches(r, method, path)}
                     /\ w = Matched(t, method, path)
    OBVIOUS
  <1>1. CASE all = {}
    <2>1. w = NoRoute
      BY <1>0, <1>1 DEF Matched, Matches
    <2>2. ~AnyMeets(t, method, path)
      BY <1>0, <1>1 DEF AnyMeets, Meets, Matches
    <2>. QED BY <1>0, <2>1, <2>2 DEF Exact
  <1>2. CASE all # {}
    <2>1. w \in all /\ \A s \in all : Within(w, s)
      BY <1>0, <1>2, MatchedIs
    <2>2. w \in t /\ Matches(w, method, path)
      BY <1>0, <2>1
    <2>3. w \in Registrable
      BY <2>2 DEF Tabled
    <2>4. w.path \in Patterns /\ w.path # <<>>
      BY <2>3, RegistrableIs, PatternIs
    <2>5. w # NoRoute
      <3>1. NoRoute.path = <<>>
        BY DEF NoRoute
      <3>. QED BY <2>4, <3>1
    <2>6. Exact(t, method, path) <=> Meets(w, method, path)
      BY <1>0, <2>2, <2>5 DEF Exact, Meets, Matches
    <2>7. ASSUME NEW u \in t, Meets(u, method, path)
          PROVE  Meets(w, method, path)
      <3>1. u \in all
        BY <1>0, <2>7 DEF Meets, Matches
      <3>2. Within(w, u) /\ u.path \in Patterns
        BY <2>1, <2>7, <3>1, RegistrableIs DEF Tabled
      <3>3. SUFFICES ASSUME StoredAs[Last(w.path)].kind = "rest"
                     PROVE  Len(path) = Len(w.path) /\ Last(path) = ""
        BY <2>2 DEF Meets, Matches
      <3>4. PathsOf[w.path] \cap PathsOf[u.path] # {}
        <4>1. PathMatches(w.path, path) /\ PathMatches(u.path, path)
          BY <2>2, <2>7 DEF Matches, Meets
        <4>. QED BY <4>1, <2>4, <3>2 DEF Shown
      <3>5. PathsOf[w.path] \subseteq PathsOf[u.path]
        BY <3>2 DEF Within
      <3>6. StoredAs[Last(u.path)].kind = "rest" /\ ~(Len(w.path) < Len(u.path))
        BY <2>4, <3>2, <3>3, <3>4, <3>5, PathsAssumption
      <3>7. Len(path) = Len(u.path) /\ Last(path) = ""
        BY <2>7, <3>6 DEF Meets
      <3>8. Len(path) >= Len(w.path)
        BY <2>2, <3>3 DEF Matches, PathMatches
      <3>9. PICK a, b \in Nat : a = Len(w.path) /\ b = Len(u.path)
        BY <2>4, <3>2, PatternIs
      <3>10. ~(a < b)
        BY <3>6, <3>9
      <3>11. b >= a
        BY <3>7, <3>8, <3>9, Zenon
      <3>12. a = b
        BY <3>10, <3>11
      <3>. QED BY <3>7, <3>9, <3>12, Zenon
    <2>. QED BY <2>2, <2>6, <2>7 DEF AnyMeets
  <1>. QED BY <1>1, <1>2

-----------------------------------------------------------------------------
(* A root, as it is written *)

(* A segment of a root matches its own text: a wildcard's name is one.      *)
LEMMA OwnText ==
    ASSUME NEW a \in DOMAIN StoredAs \ Escaped, a # "", ~SegmentMatches(a, "")
    PROVE  SegmentMatches(a, a)
  <1>1. CASE StoredAs[a].kind = "text"
    <2>1. StoredAs[a].text \in {a, ""}
      BY <1>1, SpellingAssumption
    <2>. QED BY <1>1, <2>1 DEF SegmentMatches
  <1>2. CASE StoredAs[a].kind # "text"
    BY <1>2 DEF SegmentMatches
  <1>. QED BY <1>1, <1>2

(* What matches a segment of a root as it is written matches all that the   *)
(* segment does: the text of a wildcard is the text of no pattern.          *)
LEMMA TextStandsForAll ==
    ASSUME NEW a \in DOMAIN StoredAs \ Escaped, a # "", ~SegmentMatches(a, ""),
           NEW b \in DOMAIN StoredAs \ Escaped, SegmentMatches(b, a),
           NEW text, SegmentMatches(a, text)
    PROVE  SegmentMatches(b, text)
  <1>1. CASE StoredAs[a].kind = "text"
    <2>1. StoredAs[a].text \in {a, ""}
      BY <1>1, SpellingAssumption
    <2>2. StoredAs[a].text # ""
      BY <1>1 DEF SegmentMatches
    <2>3. text = a
      BY <1>1, <2>1, <2>2 DEF SegmentMatches
    <2>. QED BY <2>3
  <1>2. CASE StoredAs[a].kind # "text" /\ StoredAs[b].kind = "text"
    <2>1. StoredAs[b].text \in {b, ""}
      BY <1>2, SpellingAssumption
    <2>2. a = b
      BY <1>2, <2>1 DEF SegmentMatches
    <2>. QED BY <2>2
  <1>3. CASE StoredAs[a].kind # "text" /\ StoredAs[b].kind # "text"
    <2>1. text # ""
      OBVIOUS
    <2>. QED BY <1>3, <2>1 DEF SegmentMatches
  <1>. QED BY <1>1, <1>2, <1>3

(* check and the edge: nothing registered is written with an escape.        *)
LEMMA NothingEscaped ==
    ASSUME RoutingInv, stage \in {"guard", "served"}, NEW s \in Registrable
    PROVE  \A i \in 1..Len(s.path) : s.path[i] \in DOMAIN StoredAs \ Escaped
  <1>1. ASSUME NEW r \in Routed
        PROVE  /\ \A i \in 1..Len(r.path) : r.path[i] \in DOMAIN StoredAs \ Escaped
               /\ r \in Wiring \cup {edge} /\ \A i \in DOMAIN r.path : r.path[i] \notin Escaped
    <2>1. r \in Wiring \cup {edge}
      BY DEF RoutingInv, Routed
    <2>2. DOMAIN r.path = 1..Len(r.path) /\ \A i \in 1..Len(r.path) : r.path[i] \in DOMAIN StoredAs
      BY <2>1, RouteIs, SequenceIs
    <2>3. CASE r \in offered
      BY <2>1, <2>2, <2>3 DEF RoutingInv, check
    <2>4. CASE r = edge
      <3>1. edge.path[1] \notin Escaped /\ edge.path[2] \notin Escaped
        BY EdgeIs, SpellingAssumption
      <3>2. \A i \in DOMAIN edge.path : edge.path[i] \notin Escaped
        BY <3>1, EdgeIs, OneAndTwo, Zenon
      <3>. QED BY <2>1, <2>2, <2>4, <3>2
    <2>. QED BY <2>3, <2>4 DEF Routed
  <1>2. ASSUME NEW r \in Routed, redirectRoot(r.path) # <<>>, s = Guard(r)
        PROVE  \A i \in 1..Len(s.path) : s.path[i] \in DOMAIN StoredAs \ Escaped
    <2>1. PICK root : root = redirectRoot(r.path) /\ s.path = root
      BY <1>2 DEF Guard
    <2>2. PICK n \in Nat \ {0} : n = Len(root)
      BY <1>1, <1>2, <2>1, RootIs
    <2>3. /\ Len(r.path) = n + 1 /\ \A i \in 1..n : root[i] = r.path[i]
      BY <1>1, <1>2, <2>1, <2>2, RootIs
    <2>4. \A i \in 1..n : i \in 1..(n + 1)
      OBVIOUS
    <2>. QED BY <1>1, <2>1, <2>2, <2>3, <2>4
  <1>. QED BY <1>1, <1>2 DEF Registrable

(* newMux asks about a path of Paths.                                       *)
LEMMA RootIsAsked ==
    ASSUME RoutingInv, stage \in {"guard", "served"}, NEW r \in Routed, redirectRoot(r.path) # <<>>
    PROVE  redirectRoot(r.path) \in Paths
  <1>1. r \in Wiring \cup {edge} /\ r \in Registrable
    BY DEF RoutingInv, Routed, Registrable
  <1>2. \A i \in DOMAIN r.path : r.path[i] \notin Escaped
    BY <1>1, NothingEscaped, RouteIs
  <1>. QED BY <1>1, <1>2, PathsAssumption

(* A path and a slash. *)
LEMMA SlashedIs ==
    ASSUME NEW S, NEW p \in Seq(S)
    PROVE  \E slashed : /\ slashed = Append(p, "") /\ Last(slashed) = ""
                        /\ Len(slashed) = Len(p) + 1 /\ slashed[Len(p) + 1] = ""
                        /\ \A i \in 1..Len(p) : slashed[i] = p[i]
  <1>1. \A x : /\ Len(Append(p, x)) = Len(p) + 1 /\ Append(p, x)[Len(p) + 1] = x
               /\ \A i \in 1..Len(p) : Append(p, x)[i] = p[i]
    OBVIOUS
  <1>2. PICK slashed : /\ slashed = Append(p, "")
                       /\ Len(slashed) = Len(p) + 1 /\ slashed[Len(p) + 1] = ""
                       /\ \A i \in 1..Len(p) : slashed[i] = p[i]
    BY <1>1, Zenon
  <1>3. Last(slashed) = ""
    BY <1>2, Zenon DEF Last
  <1>. QED BY <1>2, <1>3

(* A guard never matches a trailing slash.                                  *)
LEMMA GuardsEndInText ==
    ASSUME RoutingInv, NEW r \in Routed, redirectRoot(r.path) # <<>>, NEW path, Last(path) = ""
    PROVE  ~PathMatches(redirectRoot(r.path), path)
  <1>1. PICK root : root = redirectRoot(r.path)
    OBVIOUS
  <1>2. r \in Wiring \cup {edge}
    BY DEF RoutingInv, Routed
  <1>3. PICK n \in Nat \ {0} : n = Len(root) /\ DOMAIN root = 1..n
    BY <1>1, <1>2, RootIs
  <1>4. n \in DOMAIN root /\ ~SegmentMatches(root[n], "") /\ StoredAs[Last(root)].kind # "rest"
    <2>. QED BY <1>1, <1>2, <1>3, OneAndTwo, RootIs
  <1>5. SUFFICES ASSUME PathMatches(root, path) PROVE FALSE
    BY <1>1
  <1>6. Len(path) = n /\ SegmentMatches(root[n], path[n])
    BY <1>3, <1>4, <1>5 DEF PathMatches
  <1>. QED BY <1>4, <1>6 DEF Last

-----------------------------------------------------------------------------
(* A root, and the paths it matches *)

(* The segments of a root, one by one: none matches a trailing slash, each  *)
(* matches its own text, and the root matches path for path.                *)
LEMMA RootMatches ==
    ASSUME RoutingInv, stage \in {"guard", "served"}, NEW r \in Routed,
           NEW root, root = redirectRoot(r.path), root # <<>>
    PROVE  /\ PathMatches(root, root)
           /\ \A path : PathMatches(root, path) <=>
                 Len(path) = Len(root) /\ \A i \in 1..Len(root) : SegmentMatches(root[i], path[i])
           /\ \A i \in 1..Len(root) : /\ root[i] \in DOMAIN StoredAs \ Escaped
                                      /\ root[i] # "" /\ ~SegmentMatches(root[i], "")
  <1>1. r \in Wiring \cup {edge} /\ r \in Registrable
    BY DEF RoutingInv, Routed, Registrable
  <1>2. Guard(r) \in Registrable /\ Guard(r).path = root
    BY DEF Registrable, Guard
  <1>3. /\ DOMAIN root = 1..Len(root) /\ StoredAs[Last(root)].kind # "rest"
        /\ \A i \in 1..Len(root) : root[i] # "" /\ ~SegmentMatches(root[i], "")
    BY <1>1, RootIs
  <1>4. \A i \in 1..Len(root) : root[i] \in DOMAIN StoredAs \ Escaped
    BY <1>2, NothingEscaped
  <1>5. \A path : PathMatches(root, path) <=>
           Len(path) = Len(root) /\ \A i \in 1..Len(root) : SegmentMatches(root[i], path[i])
    BY <1>3 DEF PathMatches
  <1>6. \A i \in 1..Len(root) : SegmentMatches(root[i], root[i])
    BY <1>3, <1>4, OwnText
  <1>. QED BY <1>3, <1>4, <1>5, <1>6

(* What a root matches does not end in a slash, and is as clean.            *)
LEMMA RootedPath ==
    ASSUME RoutingInv, stage \in {"guard", "served"}, NEW r \in Routed,
           NEW root, root = redirectRoot(r.path), root # <<>>,
           NEW S, NEW path \in Seq(S), PathMatches(root, path)
    PROVE  Last(path) # "" /\ (Clean(path) => Clean(root))
  <1>1. PICK n \in Nat \ {0} : n = Len(root) /\ DOMAIN root = 1..n
    BY RootIs DEF RoutingInv, Routed
  <1>2. Len(path) = n /\ DOMAIN path = 1..n
    <2>1. Len(path) = n
      BY <1>1, RootMatches
    <2>2. DOMAIN path = 1..Len(path)
      OBVIOUS
    <2>. QED BY <2>1, <2>2
  <1>3. \A i \in 1..n : /\ SegmentMatches(root[i], path[i]) /\ ~SegmentMatches(root[i], "")
                        /\ root[i] \in DOMAIN StoredAs
    BY <1>1, RootMatches
  <1>4. Last(path) # ""
    <2>1. n \in 1..n
      BY OneAndTwo
    <2>. QED BY <1>2, <1>3, <2>1 DEF Last
  <1>5. ASSUME NEW i \in 1..n, root[i] \in Dots
        PROVE  path[i] \in Dots
    <2>1. PICK a \in DOMAIN StoredAs \cap Dots : a = root[i] /\ SegmentMatches(a, path[i])
      BY <1>3, <1>5
    <2>2. StoredAs[a].kind = "text" /\ StoredAs[a].text = a
      BY SpellingAssumption
    <2>. QED BY <2>1, <2>2 DEF SegmentMatches
  <1>. QED BY <1>1, <1>2, <1>4, <1>5 DEF Clean

(* What answers a root as it is written answers all that the root matches,  *)
(* and what answers the root and a slash answers those and a slash.         *)
LEMMA RootStandsForPaths ==
    ASSUME RoutingInv, stage \in {"guard", "served"}, NEW r \in Routed,
           NEW root, root = redirectRoot(r.path), root # <<>>,
           NEW S, NEW path \in Seq(S), PathMatches(root, path),
           NEW u \in Registrable, NEW method \in MethodsOf[r.method]
    PROVE  /\ Meets(u, r.method, root) => Meets(u, method, path)
           /\ Meets(u, r.method, Append(root, "")) => Meets(u, method, Append(path, ""))
  <1>1. PICK n \in Nat \ {0} : n = Len(root) /\ DOMAIN root = 1..n /\ root \in Seq(DOMAIN StoredAs)
    BY RootIs DEF RoutingInv, Routed
  <1>2. Len(path) = n /\ Last(root) # ""
    <2>1. r \in Wiring \cup {edge}
      BY DEF RoutingInv, Routed
    <2>. QED BY <1>1, <2>1, RootIs, RootMatches
  <1>3. PICK k \in Nat \ {0} : k = Len(u.path) /\ DOMAIN u.path = 1..k
    BY RegistrableIs, PatternIs
  <1>4. \A i \in 1..n : /\ SegmentMatches(root[i], path[i])
                        /\ root[i] \in DOMAIN StoredAs \ Escaped
                        /\ root[i] # "" /\ ~SegmentMatches(root[i], "")
    BY <1>1, RootMatches
  <1>5. \A i \in 1..k : u.path[i] \in DOMAIN StoredAs \ Escaped
    BY <1>3, NothingEscaped
  <1>6. \A i \in 1..k : i \in 1..n /\ SegmentMatches(u.path[i], root[i])
                            => SegmentMatches(u.path[i], path[i])
    BY <1>4, <1>5, TextStandsForAll
  <1>7. r.method \in MethodsOf[u.method] => method \in MethodsOf[u.method]
    <2>1. r.method \in Methods /\ u.method \in Methods
      <3>1. r \in Registrable
        BY DEF Registrable
      <3>. QED BY <3>1, RegistrableIs
    <2>. QED BY <2>1, MethodsNest
  <1>8. ASSUME Meets(u, r.method, root)
        PROVE  Meets(u, method, path)
    <2>1. k = n /\ StoredAs[Last(u.path)].kind # "rest"
      BY <1>1, <1>2, <1>3, <1>8 DEF Meets, PathMatches
    <2>2. \A i \in 1..k : SegmentMatches(u.path[i], path[i])
      BY <1>3, <1>6, <1>8, <2>1 DEF Meets, PathMatches
    <2>. QED BY <1>2, <1>3, <1>7, <1>8, <2>1, <2>2 DEF Meets, PathMatches
  <1>9. ASSUME Meets(u, r.method, Append(root, ""))
        PROVE  Meets(u, method, Append(path, ""))
    <2>1. PICK rootSlash : /\ rootSlash = Append(root, "") /\ Last(rootSlash) = ""
                          /\ Len(rootSlash) = n + 1 /\ rootSlash[n + 1] = ""
                          /\ \A i \in 1..n : rootSlash[i] = root[i]
      <3>1. PICK rootSlash : /\ rootSlash = Append(root, "") /\ Last(rootSlash) = ""
                            /\ Len(rootSlash) = Len(root) + 1 /\ rootSlash[Len(root) + 1] = ""
                            /\ \A i \in 1..Len(root) : rootSlash[i] = root[i]
        BY <1>1, SlashedIs
      <3>. QED BY <3>1, <1>1, Zenon
    <2>2. PICK pathSlash : /\ pathSlash = Append(path, "") /\ Last(pathSlash) = ""
                          /\ Len(pathSlash) = n + 1 /\ pathSlash[n + 1] = ""
                          /\ \A i \in 1..n : pathSlash[i] = path[i]
      <3>1. PICK pathSlash : /\ pathSlash = Append(path, "") /\ Last(pathSlash) = ""
                            /\ Len(pathSlash) = Len(path) + 1 /\ pathSlash[Len(path) + 1] = ""
                            /\ \A i \in 1..Len(path) : pathSlash[i] = path[i]
        BY <1>1, SlashedIs
      <3>. QED BY <3>1, <1>2, Zenon
    <2>3. Meets(u, r.method, rootSlash)
      BY <1>9, <2>1
    <2>4. k = n + 1
      BY <1>3, <2>1, <2>3 DEF Meets, PathMatches
    <2>5. \A i \in 1..k : SegmentMatches(u.path[i], rootSlash[i])
      BY <1>3, <2>3 DEF Meets, PathMatches
    <2>6. \A i \in 1..k : i \in 1..n \/ i = n + 1
      BY <2>4
    <2>7. \A i \in 1..k : SegmentMatches(u.path[i], pathSlash[i])
      BY <1>6, <2>1, <2>2, <2>5, <2>6
    <2>8. Meets(u, method, pathSlash)
      BY <1>3, <1>7, <2>2, <2>3, <2>4, <2>7 DEF Meets, PathMatches
    <2>. QED BY <2>2, <2>8
  <1>. QED BY <1>8, <1>9

-----------------------------------------------------------------------------
(* The table, step by step *)

LEMMA RoutingInvInit == RoutingInit => RoutingInv
  BY DEF RoutingInit, RoutingInv

LEMMA ConflictsBothWays == \A r, s : Conflict(r, s) <=> Conflict(s, r)
  BY DEF Conflict

(* While newMux asks: the table, and the routes alone, are such tables as   *)
(* the mux serves.                                                          *)
LEMMA TablesAre ==
    ASSUME RoutingInv, stage \in {"guard", "served"}
    PROVE  Tabled(table) /\ Tabled(Routed) /\ Routed \subseteq table
  <1>1. /\ Routed \subseteq table /\ table \subseteq Registrable /\ IsFiniteSet(table)
        /\ \A r, s \in table : r # s => ~Conflict(r, s)
    BY DEF RoutingInv
  <1>2. IsFiniteSet(Routed)
    BY <1>1, FS_Subset
  <1>. QED BY <1>1, <1>2 DEF Tabled

(* What newMux learns of a root by asking the mux.                          *)
LEMMA AskedOfRoot ==
    ASSUME RoutingInv, stage \in {"guard", "served"}, NEW r \in Routed,
           NEW root, root = redirectRoot(r.path), root # <<>>
    PROVE  Redirected(table, r.method, root) <=>
              \/ ~Clean(root)
              \/ /\ ~AnyMeets(table, r.method, root)
                 /\ AnyMeets(table, r.method, Append(root, ""))
  <1>1. r \in Wiring \cup {edge}
    BY DEF RoutingInv, Routed
  <1>2. root \in Paths
    BY RootIsAsked
  <1>3. root \in Seq(DOMAIN StoredAs) /\ Last(root) # ""
    BY <1>1, RootIs
  <1>4. Len(root) \in Nat /\ Len(Append(root, "")) \in Nat
    <2>1. PICK n \in Nat \ {0} : n = Len(root)
      BY <1>3, SequenceIs
    <2>2. Len(Append(root, "")) = Len(root) + 1
      BY <1>3, SlashedIs
    <2>3. n + 1 \in Nat
      OBVIOUS
    <2>. QED BY <2>1, <2>2, <2>3, Zenon
  <1>5. /\ Exact(table, r.method, root) <=> AnyMeets(table, r.method, root)
        /\ Exact(table, r.method, Append(root, "")) <=> AnyMeets(table, r.method, Append(root, ""))
    BY <1>2, <1>4, PathsShow, TablesAre, MeetsIsExact
  <1>. QED BY <1>3, <1>5 DEF Redirected

LEMMA RoutingInvStep == RoutingInv /\ [RoutingNext]_routingVars => RoutingInv'
  <1>. SUFFICES ASSUME RoutingInv, [RoutingNext]_routingVars PROVE RoutingInv'
    OBVIOUS
  <1>1. CASE Check
    BY <1>1 DEF Check, RoutingInv
  <1>2. CASE Handle
    <2>1. Routed' = Routed /\ offered' = offered /\ stage = "handle"
      BY <1>2 DEF Handle, Routed
    <2>2. CASE stage' = "refused"
      BY <2>1, <2>2 DEF RoutingInv
    <2>3. CASE stage' # "refused"
      <3>1. /\ stage' = "guard" /\ table' = Routed /\ todo' = Routed
            /\ \A r, s \in Routed : r # s => ~Conflict(r, s)
        BY <1>2, <2>3 DEF Handle, Routed
      <3>2. IsFiniteSet(Routed)
        BY FS_AddElement DEF RoutingInv, Routed
      <3>3. Routed \subseteq Registrable'
        BY <2>1 DEF Registrable
      <3>4. Routed' \ todo' = {} /\ table' \ Routed' = {}
        BY <2>1, <3>1
      <3>. QED BY <2>1, <3>1, <3>2, <3>3, <3>4 DEF RoutingInv
    <2>. QED BY <2>2, <2>3
  <1>3. CASE Return
    <2>1. /\ stage = "guard" /\ stage' = "served" /\ todo = {} /\ UNCHANGED <<offered, table, todo>>
      BY <1>3 DEF Return
    <2>2. Routed' = Routed /\ Registrable' = Registrable
      BY <2>1 DEF Routed, Registrable
    <2>. QED BY <2>1, <2>2 DEF RoutingInv, GuardedOrNot, GuardWasNeeded
  <1>4. ASSUME NEW r \in offered \cup {edge}, NoGuard(r)
        PROVE  RoutingInv'
    <2>1. /\ stage = "guard" /\ stage' = stage /\ UNCHANGED <<offered, table>> /\ todo' = todo \ {r}
          /\ ~Needed(r) /\ r \in Routed
      BY <1>4 DEF NoGuard, Turn, Routed
    <2>2. Routed' = Routed /\ Registrable' = Registrable
      BY <2>1 DEF Routed, Registrable
    <2>3. GuardedOrNot(r)
      <3>1. PICK root : root = redirectRoot(r.path)
        OBVIOUS
      <3>2. SUFFICES ASSUME root # <<>>
                     PROVE  \/ AnyMeets(table, r.method, root)
                            \/ ~AnyMeets(Routed, r.method, Append(root, ""))
        BY <3>1 DEF GuardedOrNot
      <3>3. ~Redirected(table, r.method, root)
        BY <2>1, <3>1, <3>2 DEF Needed, redirects
      <3>4. \/ AnyMeets(table, r.method, root)
            \/ ~AnyMeets(table, r.method, Append(root, ""))
        BY <2>1, <3>1, <3>2, <3>3, AskedOfRoot
      <3>5. Routed \subseteq table
        BY <2>1, TablesAre
      <3>. QED BY <3>4, <3>5 DEF AnyMeets
    <2>4. \A x : GuardedOrNot(x)' <=> GuardedOrNot(x)
      BY <2>1, <2>2 DEF GuardedOrNot
    <2>5. \A g : GuardWasNeeded(g)' <=> GuardWasNeeded(g)
      BY <2>2 DEF GuardWasNeeded
    <2>. QED BY <2>1, <2>2, <2>3, <2>4, <2>5 DEF RoutingInv
  <1>5. ASSUME NEW r \in offered \cup {edge}, AddGuard(r)
        PROVE  RoutingInv'
    <2>1. /\ stage = "guard" /\ stage' = stage /\ offered' = offered /\ todo' = todo \ {r}
          /\ table' = table \cup {Guard(r)} /\ \A s \in table : ~Conflict(Guard(r), s)
          /\ Needed(r) /\ r \in Routed
      BY <1>5 DEF AddGuard, Turn, Refuses, Routed
    <2>2. Registrable' = Registrable /\ Routed' = Routed
      BY <2>1 DEF Registrable, Routed
    <2>3. PICK root : root = redirectRoot(r.path)
      OBVIOUS
    <2>4. root # <<>> /\ Redirected(table, r.method, root)
      BY <2>1, <2>3 DEF Needed, redirects
    <2>5. Guard(r) \in Registrable
      BY <2>1, <2>3, <2>4 DEF Registrable
    <2>6. \A s, u \in table' : s # u => ~Conflict(s, u)
      BY <2>1, ConflictsBothWays DEF RoutingInv
    <2>7. IsFiniteSet(table')
      BY <2>1, FS_AddElement DEF RoutingInv
    <2>8. GuardWasNeeded(Guard(r))
      <3>1. \/ ~Clean(root)
            \/ /\ ~AnyMeets(table, r.method, root)
               /\ AnyMeets(table, r.method, Append(root, ""))
        BY <2>1, <2>3, <2>4, AskedOfRoot
      <3>2. ASSUME AnyMeets(table, r.method, Append(root, ""))
            PROVE  AnyMeets(Routed, r.method, Append(root, ""))
        <4>1. PICK u \in table : Meets(u, r.method, Append(root, ""))
          BY <3>2 DEF AnyMeets
        <4>2. Last(Append(root, "")) = ""
          <5>1. r \in Wiring \cup {edge}
            BY <2>1 DEF RoutingInv, Routed
          <5>2. root \in Seq(DOMAIN StoredAs)
            BY <2>3, <2>4, <5>1, RootIs
          <5>. QED BY <5>2, SlashedIs
        <4>3. ASSUME NEW x \in Routed, redirectRoot(x.path) # <<>>, u = Guard(x)
              PROVE  FALSE
          <5>1. u.path = redirectRoot(x.path)
            BY <4>3 DEF Guard
          <5>. QED BY <4>1, <4>2, <4>3, <5>1, GuardsEndInText DEF Meets
        <4>4. u \in Routed
          BY <2>1, <4>3 DEF RoutingInv, Registrable
        <4>. QED BY <4>1, <4>4 DEF AnyMeets
      <3>3. ~AnyMeets(table, r.method, root) => ~AnyMeets(Routed, r.method, root)
        BY <2>1, TablesAre DEF AnyMeets
      <3>. QED BY <2>1, <2>3, <2>4, <3>1, <3>2, <3>3 DEF GuardWasNeeded
    <2>9. \A x \in Routed' \ todo' : GuardedOrNot(x)'
      <3>1. GuardedOrNot(r)'
        BY <2>1 DEF GuardedOrNot
      <3>2. ASSUME NEW x, GuardedOrNot(x)
            PROVE  GuardedOrNot(x)'
        BY <2>1, <2>2, <3>2 DEF GuardedOrNot, AnyMeets
      <3>. QED BY <2>1, <2>2, <3>1, <3>2 DEF RoutingInv
    <2>10. \A g \in table' \ Routed' : GuardWasNeeded(g)'
      <3>1. \A g : GuardWasNeeded(g)' <=> GuardWasNeeded(g)
        BY <2>2 DEF GuardWasNeeded
      <3>. QED BY <2>1, <2>2, <2>8, <3>1 DEF RoutingInv
    <2>. QED BY <2>1, <2>2, <2>5, <2>6, <2>7, <2>9, <2>10 DEF RoutingInv
  <1>6. ASSUME NEW r \in offered \cup {edge}, GuardRefused(r)
        PROVE  RoutingInv'
    BY <1>6 DEF GuardRefused, RoutingInv
  <1>7. CASE UNCHANGED routingVars
    <2>1. UNCHANGED <<offered, stage, table, todo>>
      BY <1>7 DEF routingVars
    <2>2. Routed' = Routed /\ Registrable' = Registrable
      BY <2>1 DEF Routed, Registrable
    <2>3. \A x : /\ GuardedOrNot(x)' <=> GuardedOrNot(x)
                 /\ GuardWasNeeded(x)' <=> GuardWasNeeded(x)
      BY <2>1, <2>2 DEF GuardedOrNot, GuardWasNeeded
    <2>. QED BY <2>1, <2>2, <2>3 DEF RoutingInv
  <1>. QED BY <1>1, <1>2, <1>3, <1>4, <1>5, <1>6, <1>7 DEF RoutingNext

-----------------------------------------------------------------------------
(* The table, when it is served *)

(* What answers a path and a slash is a route, whose root matches the path. *)
LEMMA SlashedRoute ==
    ASSUME RoutingInv, stage \in {"guard", "served"},
           NEW S, NEW path \in Seq(S), path # <<>>, NEW method,
           NEW x \in Registrable, Meets(x, method, Append(path, ""))
    PROVE  /\ x \in Routed /\ redirectRoot(x.path) # <<>>
           /\ PathMatches(redirectRoot(x.path), path)
           /\ Meets(x, x.method, Append(redirectRoot(x.path), ""))
  <1>1. PICK n \in Nat \ {0} : n = Len(path)
    BY SequenceIs
  <1>2. PICK pathSlash : /\ pathSlash = Append(path, "") /\ Last(pathSlash) = ""
                         /\ Len(pathSlash) = n + 1 /\ pathSlash[n + 1] = ""
                         /\ \A i \in 1..n : pathSlash[i] = path[i]
    <2>1. PICK pathSlash : /\ pathSlash = Append(path, "") /\ Last(pathSlash) = ""
                           /\ Len(pathSlash) = Len(path) + 1 /\ pathSlash[Len(path) + 1] = ""
                           /\ \A i \in 1..Len(path) : pathSlash[i] = path[i]
      BY SlashedIs
    <2>. QED BY <2>1, <1>1, Zenon
  <1>3. /\ Meets(x, method, pathSlash) /\ x.path \in Seq(DOMAIN StoredAs)
        /\ Len(x.path) \in Nat /\ DOMAIN x.path = 1..Len(x.path)
    BY <1>2, RegistrableIs, PatternIs
  <1>4. Len(x.path) = n + 1 /\ \A i \in 1..(n + 1) : SegmentMatches(x.path[i], pathSlash[i])
    BY <1>2, <1>3 DEF Meets, PathMatches
  <1>5. x \in Routed
    <2>1. ASSUME NEW r \in Routed, redirectRoot(r.path) # <<>>, x = Guard(r)
          PROVE  FALSE
      <3>1. x.path = redirectRoot(r.path)
        BY <2>1 DEF Guard
      <3>. QED BY <1>2, <1>3, <2>1, <3>1, GuardsEndInText DEF Meets
    <2>. QED BY <2>1 DEF Registrable
  <1>6. PICK root : root = redirectRoot(x.path)
    OBVIOUS
  <1>7. root # <<>>
    <2>1. Len(x.path) > 1
      BY <1>4, OneMore, Zenon
    <2>. QED BY <1>3, <1>6, <2>1, LongHasRoot
  <1>8. /\ root \in Seq(DOMAIN StoredAs) /\ Len(root) = n
        /\ \A i \in 1..n : root[i] = x.path[i]
    <2>1. x \in Wiring \cup {edge}
      BY <1>5 DEF RoutingInv, Routed
    <2>2. PICK k \in Nat : k = Len(root) /\ Len(x.path) = k + 1
      BY <1>6, <1>7, <2>1, RootIs
    <2>3. k = n
      <3>1. k + 1 = n + 1
        BY <1>4, <2>2, Zenon
      <3>. QED BY <3>1, OneMore
    <2>4. /\ root \in Seq(DOMAIN StoredAs)
          /\ \A i \in 1..Len(root) : root[i] = x.path[i]
      BY <1>6, <1>7, <2>1, RootIs
    <2>. QED BY <2>2, <2>3, <2>4, Zenon
  <1>9. PathMatches(root, path)
    <2>1. \A i \in 1..n : SegmentMatches(root[i], path[i])
      BY <1>2, <1>4, <1>8, OneMore, Zenon
    <2>. QED BY <1>1, <1>5, <1>6, <1>7, <1>8, <2>1, RootMatches
  <1>10. Meets(x, x.method, Append(root, ""))
    <2>1. PICK rootSlash : /\ rootSlash = Append(root, "") /\ Last(rootSlash) = ""
                           /\ Len(rootSlash) = n + 1 /\ rootSlash[n + 1] = ""
                           /\ \A i \in 1..n : rootSlash[i] = root[i]
      <3>1. PICK rootSlash : /\ rootSlash = Append(root, "") /\ Last(rootSlash) = ""
                             /\ Len(rootSlash) = Len(root) + 1 /\ rootSlash[Len(root) + 1] = ""
                             /\ \A i \in 1..Len(root) : rootSlash[i] = root[i]
        BY <1>8, SlashedIs
      <3>. QED BY <3>1, <1>8, Zenon
    <2>2. \A i \in 1..n : SegmentMatches(root[i], root[i])
      <3>1. PathMatches(root, root)
        BY <1>5, <1>6, <1>7, RootMatches
      <3>. QED BY <1>5, <1>6, <1>7, <1>8, <3>1, RootMatches
    <2>3. \A i \in 1..(n + 1) : i \in 1..n \/ i = n + 1
      BY OneMore
    <2>4. \A i \in 1..(n + 1) : SegmentMatches(x.path[i], rootSlash[i])
      BY <1>2, <1>4, <1>8, <2>1, <2>2, <2>3
    <2>5. x.method \in MethodsOf[x.method]
      BY RegistrableIs, MethodsNest
    <2>. QED BY <1>3, <1>4, <2>1, <2>4, <2>5 DEF Meets, PathMatches
  <1>. QED BY <1>5, <1>6, <1>7, <1>9, <1>10

(* A path requests have is a sequence with a segment. *)
LEMMA PathIs ==
    ASSUME NEW path \in Paths
    PROVE  \E S : path \in Seq(S) /\ path # <<>> /\ Len(path) \in Nat /\ Len(Append(path, "")) \in Nat
  <1>1. PICK S : path \in Seq(S) /\ path # <<>>
    BY PathsAssumption
  <1>2. PICK n \in Nat \ {0} : n = Len(path)
    BY <1>1, SequenceIs
  <1>3. Len(Append(path, "")) = n + 1
    <2>1. Len(Append(path, "")) = Len(path) + 1
      BY <1>1, SlashedIs
    <2>. QED BY <1>2, <2>1, Zenon
  <1>4. n \in Nat /\ n + 1 \in Nat
    OBVIOUS
  <1>. QED BY <1>1, <1>2, <1>3, <1>4, Zenon

(* What the mux makes of a path, by the patterns that answer it.            *)
LEMMA RedirectedIs ==
    ASSUME RoutingInv, NEW t, Tabled(t), NEW method, NEW path \in Asked
    PROVE  Redirected(t, method, path) <=>
              /\ Last(path) # "" /\ ~AnyMeets(t, method, path)
              /\ AnyMeets(t, method, Append(path, ""))
  <1>1. path \in Paths /\ Clean(path)
    BY DEF Asked
  <1>2. Len(path) \in Nat /\ Len(Append(path, "")) \in Nat
    BY <1>1, PathIs
  <1>3. /\ Exact(t, method, path) <=> AnyMeets(t, method, path)
        /\ Exact(t, method, Append(path, "")) <=> AnyMeets(t, method, Append(path, ""))
    BY <1>1, <1>2, PathsShow, MeetsIsExact
  <1>. QED BY <1>1, <1>3 DEF Redirected

(* The guards leave no redirect: what would answer a path and a slash is a  *)
(* route, and its guard, or what made one needless, answers the path.       *)
LEMMA NoneRedirected ==
    ASSUME RoutingInv, stage = "served", NEW method \in Methods, NEW path \in Asked
    PROVE  ~Redirected(table, method, path)
  <1>. SUFFICES ASSUME Redirected(table, method, path) PROVE FALSE
    OBVIOUS
  <1>1. Tabled(table) /\ Routed \subseteq table
    BY TablesAre
  <1>2. ~AnyMeets(table, method, path) /\ AnyMeets(table, method, Append(path, ""))
    BY <1>1, RedirectedIs
  <1>3. PICK S : path \in Seq(S) /\ path # <<>>
    BY PathIs DEF Asked
  <1>4. PICK x \in table : Meets(x, method, Append(path, ""))
    BY <1>2 DEF AnyMeets
  <1>5. x \in Registrable
    BY DEF RoutingInv
  <1>6. PICK root : root = redirectRoot(x.path)
    OBVIOUS
  <1>7. /\ x \in Routed /\ root # <<>> /\ PathMatches(root, path)
        /\ Meets(x, x.method, Append(root, "")) /\ method \in MethodsOf[x.method]
    BY <1>3, <1>4, <1>5, <1>6, SlashedRoute DEF Meets
  <1>8. GuardedOrNot(x)
    BY <1>7 DEF RoutingInv
  <1>9. CASE Guard(x) \in table
    <2>1. Guard(x).path = root /\ Guard(x).method = x.method
      BY <1>6 DEF Guard
    <2>2. StoredAs[Last(root)].kind # "rest"
      BY <1>6, <1>7, RootIs DEF RoutingInv, Routed
    <2>3. Meets(Guard(x), method, path)
      BY <1>7, <2>1, <2>2 DEF Meets
    <2>. QED BY <1>2, <1>9, <2>3 DEF AnyMeets
  <1>10. CASE AnyMeets(table, x.method, root)
    <2>1. PICK u \in table : Meets(u, x.method, root)
      BY <1>10 DEF AnyMeets
    <2>2. u \in Registrable
      BY DEF RoutingInv
    <2>3. Meets(u, method, path)
      BY <1>3, <1>6, <1>7, <2>1, <2>2, RootStandsForPaths
    <2>. QED BY <1>2, <2>1, <2>3 DEF AnyMeets
  <1>11. CASE ~AnyMeets(Routed, x.method, Append(root, ""))
    BY <1>7, <1>11 DEF AnyMeets
  <1>. QED BY <1>6, <1>7, <1>8, <1>9, <1>10, <1>11 DEF GuardedOrNot

(* A guard answers only what the routes alone would redirect: a route that  *)
(* answered such a path would answer the root, as it is more general.       *)
LEMMA GuardsAnswerRedirects ==
    ASSUME RoutingInv, stage = "served", NEW method \in Methods, NEW path \in Asked,
           NEW w \in table \ Routed, Matches(w, method, path),
           \A s \in Routed : Matches(s, method, path) => Within(w, s)
    PROVE  Redirected(Routed, method, path)
  <1>1. PICK r \in Routed :
           LET root == redirectRoot(r.path) IN
           /\ root # <<>> /\ w = Guard(r)
           /\ \/ ~Clean(root)
              \/ /\ ~AnyMeets(Routed, r.method, root)
                 /\ AnyMeets(Routed, r.method, Append(root, ""))
    BY DEF RoutingInv, GuardWasNeeded
  <1>2. PICK root : root = redirectRoot(r.path)
    OBVIOUS
  <1>3. root # <<>> /\ w.path = root /\ w.method = r.method
    BY <1>1, <1>2 DEF Guard
  <1>4. PICK S : path \in Seq(S) /\ path \in Paths /\ Clean(path)
    BY PathIs DEF Asked
  <1>5. PathMatches(root, path) /\ method \in MethodsOf[r.method]
    BY <1>3 DEF Matches
  <1>6. Last(path) # "" /\ Clean(root)
    BY <1>2, <1>3, <1>4, <1>5, RootedPath
  <1>7. ~AnyMeets(Routed, r.method, root) /\ AnyMeets(Routed, r.method, Append(root, ""))
    BY <1>1, <1>2, <1>6
  <1>8. AnyMeets(Routed, method, Append(path, ""))
    <2>1. PICK u \in Routed : Meets(u, r.method, Append(root, ""))
      BY <1>7 DEF AnyMeets
    <2>2. u \in Registrable
      BY DEF Registrable
    <2>3. Meets(u, method, Append(path, ""))
      BY <1>2, <1>3, <1>4, <1>5, <2>1, <2>2, RootStandsForPaths
    <2>. QED BY <2>3 DEF AnyMeets
  <1>9. ASSUME NEW v \in Routed, Meets(v, method, path)
        PROVE  FALSE
    <2>1. Matches(v, method, path) /\ StoredAs[Last(v.path)].kind # "rest"
      BY <1>6, <1>9 DEF Meets, Matches
    <2>2. Within(w, v)
      BY <2>1
    <2>3. r.method \in MethodsOf[v.method]
      <3>1. r.method \in MethodsOf[r.method]
        BY RouteIs, MethodsNest DEF RoutingInv, Routed
      <3>. QED BY <1>3, <2>2, <3>1 DEF Within
    <2>4. root \in Paths /\ PathMatches(root, root)
      BY <1>2, <1>3, RootIsAsked, RootMatches
    <2>5. root \in Patterns /\ v.path \in Patterns
      <3>1. v \in Registrable /\ r \in Wiring \cup {edge}
        BY DEF Registrable, RoutingInv, Routed
      <3>. QED BY <1>2, <1>3, <3>1, RegistrableIs, RootIs
    <2>6. PathMatches(v.path, root)
      <3>1. root \in PathsOf[root]
        BY <2>4, <2>5 DEF PathsOf
      <3>2. PathsOf[root] \subseteq PathsOf[v.path]
        BY <1>3, <2>2 DEF Within
      <3>. QED BY <2>5, <3>1, <3>2 DEF PathsOf
    <2>7. Meets(v, r.method, root)
      BY <2>1, <2>3, <2>6 DEF Meets
    <2>. QED BY <1>7, <2>7 DEF AnyMeets
  <1>10. ~AnyMeets(Routed, method, path)
    BY <1>9 DEF AnyMeets
  <1>11. Tabled(Routed)
    BY TablesAre
  <1>. QED BY <1>6, <1>8, <1>10, <1>11, RedirectedIs

(* What the routes alone do not redirect has the answer they give it.       *)
LEMMA SameAnswer ==
    ASSUME RoutingInv, stage = "served", NEW method \in Methods, NEW path \in Asked,
           ~Redirected(Routed, method, path)
    PROVE  Matched(table, method, path) = Matched(Routed, method, path)
  <1>1. PICK all, bare : /\ all = {r \in table : Matches(r, method, path)}
                         /\ bare = {r \in Routed : Matches(r, method, path)}
    OBVIOUS
  <1>2. Tabled(table) /\ Tabled(Routed) /\ Routed \subseteq table /\ bare \subseteq all
    <2>1. Tabled(table) /\ Tabled(Routed) /\ Routed \subseteq table
      BY TablesAre
    <2>. QED BY <1>1, <2>1
  <1>3. Shown(path)
    BY PathsShow DEF Asked
  <1>4. CASE all = {}
    <2>1. bare = {}
      BY <1>2, <1>4
    <2>. QED BY <1>1, <1>4, <2>1 DEF Matched, Matches
  <1>5. CASE all # {}
    <2>1. PICK w \in all : w = Matched(table, method, path) /\ \A s \in all : Within(w, s)
      BY <1>1, <1>2, <1>3, <1>5, MatchedIs
    <2>2. w \in table /\ Matches(w, method, path)
      BY <1>1
    <2>3. CASE w \in Routed
      <3>1. w \in bare
        BY <1>1, <2>2, <2>3
      <3>2. \E v \in bare : /\ v = Matched(Routed, method, path)
                            /\ \A x \in bare : (\A s \in bare : Within(x, s)) => x = v
        BY <1>1, <1>2, <1>3, <3>1, MatchedIs
      <3>. QED BY <1>2, <2>1, <3>1, <3>2
    <2>4. CASE w \notin Routed
      <3>1. \A s \in Routed : Matches(s, method, path) => Within(w, s)
        BY <1>1, <1>2, <2>1
      <3>. QED BY <2>2, <2>4, <3>1, GuardsAnswerRedirects
    <2>. QED BY <2>3, <2>4
  <1>. QED BY <1>4, <1>5

(* newMux and canonicalPathOnly: whatever routes a caller adds, no request  *)
(* is answered with a redirect; and the guards that see to it change no     *)
(* answer that the routes alone would give without one.                     *)
THEOREM GuardsStandExactly == RoutingSpec => []GuardsAreExact
  <1>1. RoutingInv => GuardsAreExact
    <2>. SUFFICES ASSUME RoutingInv, stage = "served", NEW method \in Methods \ {""}, NEW path \in Asked
                  PROVE  /\ ~Redirected(table, method, path)
                         /\ ~Redirected(Routed, method, path) =>
                               Matched(table, method, path) = Matched(Routed, method, path)
      BY DEF GuardsAreExact, Routed
    <2>. QED BY NoneRedirected, SameAnswer
  <1>. QED BY <1>1, RoutingInvInit, RoutingInvStep, PTL DEF RoutingSpec

(* Nothing but the edge, and what begins with a wildcard, matches a path of *)
(* two segments under the edge's prefix.                                    *)
LEMMA PrefixIsReserved ==
    ASSUME RoutingInv, stage = "served", NEW s \in table, s # edge,
           NEW path, Len(path) = 2, path[1] = "ingress", PathMatches(s.path, path)
    PROVE  StoredAs[s.path[1]].kind # "text"
  <1>. SUFFICES ASSUME StoredAs[s.path[1]].kind = "text" PROVE FALSE
    OBVIOUS
  <1>1. s \in Registrable
    BY DEF RoutingInv
  <1>2. /\ s.path \in Seq(DOMAIN StoredAs) /\ s.path # <<>> /\ s.path \in Patterns
        /\ Len(s.path) \in Nat \ {0} /\ DOMAIN s.path = 1..Len(s.path)
    BY <1>1, RegistrableIs, PatternIs
  <1>3. 1 \in DOMAIN s.path /\ s.path[1] \in DOMAIN StoredAs
    BY <1>2
  <1>4. StoredAs[s.path[1]].text = "ingress"
    BY <1>3 DEF PathMatches, SegmentMatches
  <1>5. s.path[1] = "ingress"
    <2>1. s.path[1] \in DOMAIN StoredAs \ Escaped
      BY <1>1, <1>2, <1>3, NothingEscaped
    <2>2. StoredAs[s.path[1]].text \in {s.path[1], ""}
      BY <2>1, SpellingAssumption
    <2>. QED BY <1>4, <2>2
  <1>6. ASSUME Len(s.path) = 1, s.path[1] = "ingress"
        PROVE  FALSE
    <2>1. Last(s.path) = "ingress"
      BY <1>6 DEF Last
    <2>2. StoredAs["ingress"].kind # "rest"
      BY EdgeIs
    <2>. QED BY <2>1, <2>2, <1>6 DEF PathMatches
  <1>7. CASE s \in offered
    <2>1. check(s)
      BY <1>7 DEF RoutingInv
    <2>2. ~(Len(s.path) > 1)
      BY <2>1, <1>5 DEF check
    <2>3. PICK n \in Nat \ {0} : n = Len(s.path)
      BY <1>2
    <2>4. n = 1
      BY <2>2, <2>3, OneAndTwo, Zenon
    <2>. QED BY <1>5, <2>3, <2>4, <1>6, Zenon
  <1>8. CASE s \notin offered
    <2>1. PICK r \in Routed : redirectRoot(r.path) # <<>> /\ s = Guard(r)
      BY <1>1, <1>8 DEF Registrable, Routed
    <2>2. s.path = redirectRoot(r.path)
      BY <2>1 DEF Guard
    <2>3. r \in Wiring \cup {edge}
      BY DEF RoutingInv, Routed
    <2>4. PICK n \in Nat : n = Len(r.path) /\ r.path \in Seq(DOMAIN StoredAs)
      BY <2>3, RouteIs
    <2>5. n > 1 /\ s.path = SubSeq(r.path, 1, n - 1)
      BY <2>1, <2>2, <2>4 DEF redirectRoot
    <2>6. Len(s.path) = n - 1 /\ s.path[1] = r.path[1]
      BY <2>4, <2>5
    <2>7. CASE r \in offered
      <3>1. check(r)
        BY <2>7 DEF RoutingInv
      <3>. QED BY <3>1, <2>4, <2>5, <2>6, <1>5 DEF check
    <2>8. CASE r = edge
      <3>1. n = 2 /\ r.path[1] = "ingress"
        BY <2>4, <2>8, EdgeIs
      <3>. QED BY <3>1, <2>6, <1>5, <1>6
    <2>. QED BY <2>7, <2>8 DEF Routed
  <1>. QED BY <1>7, <1>8

(* Route.check: whatever routes a caller adds, and whatever guards newMux   *)
(* adds for them, a delivery posted to an endpoint of a provider reaches    *)
(* the edge.                                                                *)
THEOREM EdgeKeepsItsPaths == RoutingSpec => []EdgeAnswersItsDeliveries
  <1>1. RoutingInv => EdgeAnswersItsDeliveries
    <2>. SUFFICES ASSUME RoutingInv, stage = "served", NEW path \in Asked,
                         Len(path) = 2, path[1] = "ingress", path[2] # ""
                  PROVE  Matched(table, "POST", path) = edge
      BY DEF EdgeAnswersItsDeliveries
    <2>. DEFINE all == {r \in table : "POST" \in MethodsOf[r.method] /\ PathMatches(r.path, path)}
    <2>1. MethodsOf["POST"] = {"POST"} /\ edge.method = "POST"
      BY EdgeIs DEF MethodsOf, Methods
    <2>2. PathMatches(edge.path, path)
      <3>1. /\ Len(edge.path) = 2 /\ DOMAIN edge.path = 1..2
            /\ edge.path[1] = "ingress" /\ edge.path[2] = "{provider}"
        BY EdgeIs
      <3>2. Last(edge.path) = "{provider}"
        BY <3>1 DEF Last
      <3>3. SegmentMatches("ingress", path[1]) /\ SegmentMatches("{provider}", path[2])
        BY EdgeIs
      <3>4. StoredAs["{provider}"].kind # "rest"
        BY EdgeIs
      <3>5. \A i \in DOMAIN edge.path : SegmentMatches(edge.path[i], path[i])
        BY <3>1, <3>3, OneAndTwo, Zenon
      <3>6. Len(path) = Len(edge.path)
        BY <3>1
      <3>. QED BY <3>2, <3>4, <3>5, <3>6, Zenon DEF PathMatches
    <2>3. edge \in all
      BY <2>1, <2>2 DEF RoutingInv, Routed
    <2>4. edge \in Registrable /\ path \in Paths
      BY DEF Registrable, Routed, Asked
    <2>5. ASSUME NEW s \in all, s # edge
          PROVE  Within(edge, s) /\ ~Within(s, edge)
      <3>1. s \in Registrable /\ s \in table /\ edge \in table
        BY DEF RoutingInv, Routed
      <3>2. s.path \in Patterns /\ edge.path \in Patterns
        BY <3>1, <2>4, RegistrableIs
      <3>3. \A x \in Paths : /\ x \in PathsOf[s.path] <=> PathMatches(s.path, x)
                             /\ x \in PathsOf[edge.path] <=> PathMatches(edge.path, x)
        BY <3>2 DEF PathsOf
      <3>4. StoredAs[s.path[1]].kind # "text"
        BY <2>5, <3>1, PrefixIsReserved
      <3>5. PICK other \in Paths : other[1] # "ingress" /\ PathMatches(s.path, other)
        <4>1. path \in PathsOf[s.path]
          BY <2>4, <3>3
        <4>2. PICK other \in PathsOf[s.path] : other[1] # "ingress"
          BY <3>2, <3>4, <4>1, PathsAssumption
        <4>3. other \in Paths /\ PathMatches(s.path, other)
          BY <3>2, <4>2 DEF PathsOf
        <4>. QED BY <4>2, <4>3
      <3>6. ~PathMatches(edge.path, other)
        <4>1. 1 \in DOMAIN edge.path /\ edge.path[1] = "ingress"
          BY OneAndTwo, EdgeIs, Zenon
        <4>2. ~SegmentMatches("ingress", other[1])
          BY <3>5, EdgeIs
        <4>. QED BY <4>1, <4>2 DEF PathMatches
      <3>7. ~Within(s, edge)
        BY <3>3, <3>5, <3>6 DEF Within
      <3>8. ~Conflict(edge, s)
        BY <3>1, <2>5 DEF RoutingInv
      <3>9. "POST" \in MethodsOf[edge.method] \cap MethodsOf[s.method]
        BY <2>1
      <3>10. path \in PathsOf[edge.path] \cap PathsOf[s.path]
        BY <2>2, <2>4, <3>3
      <3>. QED BY <3>7, <3>8, <3>9, <3>10 DEF Conflict
    <2>6. \A s \in all : Within(edge, s)
      <3>1. Within(edge, edge)
        BY DEF Within
      <3>. QED BY <3>1, <2>5
    <2>7. \A r \in all : (\A s \in all : Within(r, s)) => r = edge
      BY <2>3, <2>5
    <2>8. Matched(table, "POST", path) = CHOOSE r \in all : \A s \in all : Within(r, s)
      BY <2>3 DEF Matched
    <2>. HIDE DEF all
    <2>. QED BY <2>3, <2>6, <2>7, <2>8
  <1>. QED BY <1>1, RoutingInvInit, RoutingInvStep, PTL DEF RoutingSpec

=============================================================================
