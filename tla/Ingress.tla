------------------------------ MODULE Ingress -------------------------------
(***************************************************************************)
(* The edge (internal/ingress) in front of the hub, the provider that posts*)
(* to it, and the process both run in (cmd/lawang serve).  The edge answers*)
(* what is no delivery by itself and turns the hub's verdict into a status.*)
(* A provider posts a delivery again until an answer settles it, and may   *)
(* post one twice for no reason; an answer may be lost.                    *)
(*                                                                         *)
(* The routing table is module Routing: what it does not route is answered *)
(* 404 before the edge, like a provider nobody registered.                 *)
(***************************************************************************)
EXTENDS Hub

VARIABLES
    settled,        \* the deliveries whose provider has an answer it accepts
    server          \* whether the process takes requests

hubVars == <<outboxVars, subscriptions, request, registered, faults>>
ingressVars == <<hubVars, settled, server>>

(* What the edge answers without the hub: a request that is no delivery.    *)
Refusals == {"unknown provider", "no webhook source", "too large", "cut short"}
EdgeVerdicts == Refusals \cup {"handshake"}

(* The statuses a handshake asks for, one of each class; 0 is unset.        *)
ReplyStatuses == {0, 200, 302, 400, 401, 403, 500}

IngressInit == HubInit /\ settled = {} /\ server = "up"

-----------------------------------------------------------------------------
(* The edge *)

Free(p) == request[p].at = "free" /\ server = "up"

(* serveHTTP and readBody, for a request that is no webhook delivery.       *)
RefusalStatus(why) ==
    CASE why \in {"unknown provider", "no webhook source"} -> 404
      [] why = "too large" -> 413
      [] why = "cut short" -> 400

Reply(p, verdict, n) ==
    request' = [request EXCEPT ![p].at = "answer", ![p].verdict = verdict, ![p].status = n]

Refuse(p) ==
    /\ Free(p)
    /\ \E why \in Refusals : Reply(p, why, RefusalStatus(why))
    /\ UNCHANGED <<outboxVars, subscriptions, registered, faults, settled, server>>

(* handshakeStatus: 401 is kept for a signature that did not verify.        *)
handshakeStatus(status) ==
    status \notin {401, 403} /\ status \in 200..299 \cup 400..499

(* writeReply.  A reply that is too long, or of a content type a handshake  *)
(* may not use, is not wellFormed.                                          *)
writeReply(asked, wellFormed) ==
    LET status == IF asked = 0 THEN 200 ELSE asked
    IN  IF handshakeStatus(status) /\ wellFormed THEN status ELSE 500

(* A challenge is answered before anything is resolved.                     *)
Handshake(p) ==
    /\ Free(p)
    /\ \E asked \in ReplyStatuses, wellFormed \in BOOLEAN :
          Reply(p, "handshake", writeReply(asked, wellFormed))
    /\ UNCHANGED <<outboxVars, subscriptions, registered, faults, settled, server>>

(* A delivery is posted.                                                    *)
Post(p, d) ==
    /\ Free(p)
    /\ request' = [request EXCEPT ![p].at = "edge", ![p].delivery = d]
    /\ UNCHANGED <<outboxVars, subscriptions, registered, faults, settled, server>>

(* The hub takes it over under the accept bound.                            *)
Enter(p) ==
    /\ deliveryKeys(p)
    /\ UNCHANGED <<outboxVars, subscriptions, registered, faults, settled, server>>

(* Mutated form: a deadline reads as an answer.                             *)
statusMutant(q) ==
    CASE q.verdict = "stored" -> 202
      [] q.verdict \in {"duplicate", "parked", "deadline"} -> 200
      [] q.verdict = "unverified" -> 401
      [] q.verdict = "error" -> 500
      [] OTHER -> q.status

(* Mutated form: a re-send of what is stored is a conflict.                 *)
statusConflict(q) ==
    CASE q.verdict = "stored" -> 202
      [] q.verdict = "parked" -> 200
      [] q.verdict = "duplicate" -> 409
      [] q.verdict = "unverified" -> 401
      [] OTHER -> q.status

(* Verdict.status and the switch of serveHTTP; 0 is no answer at all.       *)
status(q) ==
    CASE q.verdict = "stored" -> 202
      [] q.verdict \in {"duplicate", "parked"} -> 200
      [] q.verdict = "unverified" -> 401
      [] q.verdict = "deadline" -> 503
      [] q.verdict = "error" -> 500
      [] OTHER -> q.status

(* The provider sends again whatever is not a 2xx, and gives up on a 401.   *)
Settles(n) == n \in 200..299 \cup {401}

(* serveHTTP answers, and the provider gets it or does not.                 *)
Answer(p) ==
    LET q == request[p] IN
    /\ q.at = "answer"
    /\ request' = [request EXCEPT ![p] = IdleRequest]
    /\ \/ /\ settled' = IF Settles(status(q)) THEN settled \cup ({q.delivery} \ {"none"})
                                           ELSE settled
          /\ UNCHANGED faults
       \/ CountFault /\ UNCHANGED settled
    /\ UNCHANGED <<outboxVars, subscriptions, registered, server>>

-----------------------------------------------------------------------------
(* serveOn *)

(* The context is cancelled: the listener closes, requests go on.           *)
Shutdown ==
    /\ server = "up" /\ CountFault
    /\ server' = "stopping"
    /\ UNCHANGED <<outboxVars, subscriptions, request, registered, settled>>

(* Every request has finished, or the grace ran out, or the process died:   *)
(* whatever was in flight is gone.  The process is started again.           *)
Exit ==
    /\ \/ server = "stopping" /\ UNCHANGED faults /\ \A p \in Requests : request[p].at = "free"
       \/ CountFault
    /\ request' = [p \in Requests |-> IdleRequest]
    /\ server' = "up"
    /\ UNCHANGED <<outboxVars, subscriptions, registered, settled>>

Operator ==
    /\ \E n \in Registrations : Register(n.slot, n.row)
    /\ UNCHANGED <<settled, server>>

HubStepOf(p) == HubStep(p) /\ UNCHANGED <<settled, server>>

HubFaultOf(p) == (VerifyPanics(p) \/ HubError(p)) /\ UNCHANGED <<settled, server>>

IngressNext ==
    \/ \E p \in Requests : Refuse(p) \/ Handshake(p) \/ Enter(p) \/ Answer(p)
    \/ \E p \in Requests, d \in Deliveries : Post(p, d)
    \/ \E p \in Requests : HubStepOf(p) \/ HubFaultOf(p)
    \/ Operator \/ Shutdown \/ Exit

IngressSpec == IngressInit /\ [][IngressNext]_ingressVars

(* A provider sends again what is not settled; every call in an accept is   *)
(* bounded by the accept timeout; a process that stops is started again.    *)
IngressFairness ==
    /\ \A d \in Deliveries : SF_ingressVars(d \notin settled /\ \E p \in Requests : Post(p, d))
    /\ \A p \in Requests : WF_ingressVars(Enter(p) \/ HubStepOf(p) \/ Answer(p))
    /\ WF_ingressVars(Exit /\ faults' = faults)

FairIngressSpec == IngressSpec /\ IngressFairness

-----------------------------------------------------------------------------
(* Properties *)

Routes(p, r) ==
    /\ request[p].at = "store" /\ request'[p].at = "answer"
    /\ outbox[r].state = "absent" /\ outbox'[r].state # "absent"

(* Hub.Accept, principle 2: a delivery that is stored for a tenant is owned *)
(* by no subscription but the one it is stored for.  Subscriptions that an  *)
(* operator wrote while the delivery was being resolved are not counted:    *)
(* the two queries and the store are three transactions.                    *)
RoutedToOnlyOwner ==
    [][\A p \in Requests, r \in RowId :
          Routes(p, r) => request[p].steady \subseteq {c.slot : c \in request[p].owners}]_ingressVars

(* Package hub: when more than one subscription's secret verifies one       *)
(* delivery, it is parked and not routed.  Here, of every subscription that *)
(* owned the delivery from the first query to the store.                    *)
NoOwnerOverlooked ==
    [][\A p \in Requests, r \in RowId :
          Routes(p, r) => request[p].always \subseteq {c.slot : c \in request[p].owners}]_ingressVars

(* ingress: 401 means one thing.  A request is answered 401, or parked for  *)
(* want of an owner, only if no subscription that stood throughout owns it; *)
(* and no handshake and no refusal ever reads as a failed signature.        *)
UnverifiedIsTrue ==
    /\ \A p \in Requests :
          \/ request[p].verdict = "unverified"
          \/ request[p].at = "park" /\ request[p].reason = "no owner"
          => request[p].steady = {}
    /\ \A p \in Requests : request[p].verdict \in EdgeVerdicts => status(request[p]) \notin {401, 403}

(* ingress: a provider that stops sending a delivery, because it was told   *)
(* that it arrived, can rely on it: the row is there, under a tenant or     *)
(* parked, whatever failed in between.  A 401 settles one without a row.    *)
AcknowledgedIsKept ==
    \A p \in Requests :
        /\ request[p].at = "answer"
        /\ request[p].delivery # "none" /\ status(request[p]) \in 200..299
        => \E t \in Tenants \cup {Sentinel} : Stored(<<t, request[p].delivery>>)

(* Register keeps the id of a row it updates: every queue of the outbox is  *)
(* named by a subscription its tenant has, so a re-registered subscription  *)
(* goes on with the queue it had.                                           *)
QueueHasItsSubscription ==
    \A r \in RowId : r[1] \in Tenants /\ Stored(r) =>
        \E s \in Registered(subscriptions) :
            /\ TenantOf(s) = r[1] /\ s[2] = ProviderOf[r[2]]
            /\ outbox[r].ordering_key = orderingKey(s[2], subscriptions[s].id)

(* Every delivery that is posted is settled: a fault, a shutdown or a lost  *)
(* answer only delays it.                                                   *)
EveryDeliverySettles == \A d \in Deliveries : <>(d \in settled)

=============================================================================
