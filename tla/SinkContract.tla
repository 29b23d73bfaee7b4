---------------------------- MODULE SinkContract ----------------------------
(***************************************************************************)
(* What package sink promises a worker (the Sink interface, DeliveryResult *)
(* and Fault of internal/sink/sink.go).  Deliver answers in one of two     *)
(* ways: with a result, and then every record of the batch has an outcome, *)
(* or with a fault, which says nothing about any record.  A worker is told *)
(* that a record was taken only if the receiver has it, and that it was    *)
(* refused only if Lawang or the receiver refused it.  The receiver may    *)
(* take records at any time, long after the call that carried them ended.  *)
(*                                                                         *)
(* A record here is a document: two of them may have one record id.        *)
(***************************************************************************)
EXTENDS FiniteSets

CONSTANTS
    Records,    \* the documents
    Workers     \* the goroutines that call Deliver

VARIABLES
    asked,      \* the batch each worker is in a call with, or {}
    given,      \* every record a sink was ever handed
    held,       \* the records the receiver has
    refused,    \* the records Lawang or the receiver refused
    delivered,  \* the records a result reported as taken
    killed      \* the records a result named in Rejected

vars == <<asked, given, held, refused, delivered, killed>>

ContractTypeOK ==
    /\ asked \in [Workers -> SUBSET Records]
    /\ given \in SUBSET Records
    /\ held \in SUBSET Records
    /\ refused \in SUBSET Records
    /\ delivered \in SUBSET Records
    /\ killed \in SUBSET Records

Init ==
    /\ asked = [w \in Workers |-> {}]
    /\ given = {} /\ held = {} /\ refused = {}
    /\ delivered = {} /\ killed = {}

(* A worker calls Deliver. *)
Hand(w, batch) ==
    /\ asked[w] = {} /\ batch # {}
    /\ asked' = [asked EXCEPT ![w] = batch]
    /\ given' = given \cup batch
    /\ UNCHANGED <<held, refused, delivered, killed>>

(* The receiver takes records it was sent and has not refused.              *)
Take(S) ==
    /\ S \subseteq given \ refused
    /\ held' = held \cup S
    /\ UNCHANGED <<asked, given, refused, delivered, killed>>

(* Lawang or the receiver refuses records nobody has: a repeat of a record  *)
(* that was taken is not refused.                                           *)
Refuse(S) ==
    /\ S \subseteq given \ held
    /\ refused' = refused \cup S
    /\ UNCHANGED <<asked, given, held, delivered, killed>>

(* A DeliveryResult and no error. *)
Result(w, rejected) ==
    /\ asked[w] # {}
    /\ rejected \subseteq asked[w] \cap refused
    /\ asked[w] \ rejected \subseteq held
    /\ asked' = [asked EXCEPT ![w] = {}]
    /\ delivered' = delivered \cup (asked[w] \ rejected)
    /\ killed' = killed \cup rejected
    /\ UNCHANGED <<given, held, refused>>

(* A Fault, or a call nobody is left to hear the end of.                    *)
Fault(w) ==
    /\ asked[w] # {}
    /\ asked' = [asked EXCEPT ![w] = {}]
    /\ UNCHANGED <<given, held, refused, delivered, killed>>

Next ==
    \/ \E w \in Workers, batch \in SUBSET Records : Hand(w, batch)
    \/ \E S \in SUBSET Records : Take(S) \/ Refuse(S)
    \/ \E w \in Workers, rejected \in SUBSET Records : Result(w, rejected)
    \/ \E w \in Workers : Fault(w)

Spec == Init /\ [][Next]_vars

-----------------------------------------------------------------------------
(* Properties *)

(* Sink and DeliveryResult: a record reported as taken is at the receiver,  *)
(* a record reported as refused is not, and never will be: a dead letter is *)
(* never about a record that landed.                                        *)
ReportsAreTrue ==
    /\ delivered \subseteq held
    /\ killed \cap held = {}

=============================================================================
