-------------------------------- MODULE Stub --------------------------------
(***************************************************************************)
(* The strict receiver (internal/sink/stub.go): what one tenant's receiver *)
(* holds, and what it makes of the next document.  Sinks uses it as a sink *)
(* of its own and as the receiver at the other end of the HTTP sink.       *)
(*                                                                         *)
(* Decoding is a verdict per document: those the format refuses are the    *)
(* set Malformed.  Content is what is left of a document without meta, so  *)
(* two documents with one id are a repeat exactly when they are equal here.*)
(***************************************************************************)
EXTENDS Integers, FiniteSets

CONSTANTS
    Records,        \* the documents
    NoId,           \* supersedes nothing
    IdOf,           \* the record id of each document
    SupersedesOf,   \* the id each document supersedes, or NoId
    SizeOf,         \* the length of each document
    Malformed,      \* the documents the format refuses
    MaxDocument     \* StubConfig.MaxDocumentBytes

ASSUME StubAssumption ==
    /\ \A r \in Records : IdOf[r] # NoId
    /\ SizeOf \in [Records -> Nat] /\ MaxDocument \in Nat /\ Malformed \subseteq Records

VARIABLE
    stub    \* stubTenant: the document held under each id

(* The operators take what is held, h, as the methods of stubTenant do.     *)

(* The id the walk of leadsBack is at after n steps, from the id a new      *)
(* document supersedes.  A record that has not arrived yet ends the walk.   *)
Walk(h, supersedes) ==
    LET step[n \in 0..Cardinality(DOMAIN h)] ==
            IF n = 0 THEN supersedes
            ELSE IF step[n - 1] \in DOMAIN h THEN SupersedesOf[h[step[n - 1]]]
            ELSE NoId
    IN step

(* Mutated form: only the document itself is looked for, one link away.     *)
LeadsBackMutant(h, id, supersedes) == supersedes = id

(* stubTenant.leadsBack: the chain comes back to an id it has passed.       *)
LeadsBack(h, id, supersedes) ==
    LET at == Walk(h, supersedes) IN
    \E n \in DOMAIN at :
        at[n] # NoId /\ (at[n] = id \/ \E m \in 0..(n - 1) : at[m] = at[n])

(* Stub.Accept: what it answers, in the order it asks.                      *)
Verdict(h, r) ==
    IF SizeOf[r] > MaxDocument THEN "too_large"
    ELSE IF r \in Malformed THEN "invalid_record"
    ELSE IF IdOf[r] \in DOMAIN h THEN IF h[IdOf[r]] = r THEN "held" ELSE "repeat_differs"
    ELSE IF LeadsBack(h, IdOf[r], SupersedesOf[r]) THEN "supersede_cycle"
    ELSE "new"

Accepts(h, r) == Verdict(h, r) \in {"held", "new"}

(* Accept's one write: a document is stored under its id the first time.    *)
Stored(h, r) ==
    IF Verdict(h, r) = "new"
    THEN [id \in DOMAIN h \cup {IdOf[r]} |-> IF id = IdOf[r] THEN r ELSE h[id]]
    ELSE h

-----------------------------------------------------------------------------
(* Properties *)

(* ErrSupersedeCycle: no chain of what the receiver holds comes back to a   *)
(* record it has passed, in whatever order its links arrived: every set of  *)
(* held ids has one that supersedes nothing in the set.                     *)
ChainsEnd ==
    \A S \in SUBSET DOMAIN stub : S # {} => \E i \in S : SupersedesOf[stub[i]] \notin S

=============================================================================
