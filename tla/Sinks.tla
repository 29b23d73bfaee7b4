------------------------------- MODULE Sinks --------------------------------
(***************************************************************************)
(* The three sinks of internal/sink and what they write to.  A deployment  *)
(* has one of them:                                                        *)
(*   "http"    posts a batch in as many requests as it takes to stay under *)
(*             MaxBytes.  A request or its answer may be lost, a request   *)
(*             may arrive after its sender gave up, something between the  *)
(*             two may answer instead of the receiver, and two workers may *)
(*             send the same batch at once;                                *)
(*   "stub"    is the strict receiver called directly;                     *)
(*   "jsonl"   appends a batch to a file in one write, which may be cut    *)
(*             short.                                                      *)
(* What a worker may conclude from any of them is SinkContract.            *)
(*                                                                         *)
(* One tenant: credential, file and stub are looked up by tenant, and a    *)
(* record of another tenant is in Unsealed.  Deliver is not called with an *)
(* empty batch (worker), which it answers with an empty result.            *)
(***************************************************************************)
EXTENDS Stub, SequencesExt

CONSTANTS
    Workers,        \* the goroutines that call Deliver
    Batches,        \* the batches they may be given: the records of one row
    Unsealed,       \* the documents that are not sealed for this tenant
    MaxBytes,       \* HTTPConfig.MaxRequestBytes
    Framing,        \* bodyFraming
    MaxCalls,       \* bound: calls of Deliver
    MaxFaults       \* bound: what goes wrong outside this program

(* A request: who waits for it, or nobody, its records, how many of them    *)
(* the receiver has looked at, and which of those it refused.               *)
Nobody == "nobody"

(* DeliveryResult: the ids of a batch are distinct, for pipeline.Prepared   *)
(* holds one row per record.                                                *)
ASSUME SinksAssumption ==
    /\ \A b \in Batches :
          /\ b \in Seq(Records) /\ b # <<>>
          /\ \A i, j \in DOMAIN b : IdOf[b[i]] = IdOf[b[j]] => i = j
    /\ Unsealed \subseteq Records
    /\ {MaxBytes, Framing, MaxCalls, MaxFaults} \subseteq Nat
    /\ Nobody \notin Workers

VARIABLES
    kind,           \* the configured sink
    style,          \* how the receiver refuses: by list, or with a 422
    call,           \* the Deliver each worker is in
    wire,           \* the requests under way
    file,           \* the JSONL file
    given,          \* history, as in SinkContract
    refused,
    delivered,
    killed,
    calls,          \* how many calls were made
    faults          \* how much went wrong

history == <<given, refused, delivered, killed>>
counts == <<calls, faults>>
sinkVars == <<kind, style, stub, call, wire, file, history, counts>>

(* batch is what Deliver was given, todo what is left of it: the chunks not *)
(* yet sent, or the records not yet looked at.  rejected is result.Rejected.*)
NoCall == [at |-> "idle", batch |-> <<>>, todo |-> <<>>, rejected |-> {}]

(* The file: the documents that have a line of their own, those written     *)
(* after a truncated line, and whether the last line is truncated.          *)
EmptyFile == [lines |-> {}, spoiled |-> {}, torn |-> FALSE]

SinkInit ==
    /\ kind \in {"http", "stub", "jsonl"}
    /\ style \in {"list", "whole"} /\ (kind # "http" => style = "list")
    /\ stub = << >>
    /\ call = [w \in Workers |-> NoCall]
    /\ wire = {} /\ file = EmptyFile
    /\ given = {} /\ refused = {} /\ delivered = {} /\ killed = {}
    /\ calls = 0 /\ faults = 0

-----------------------------------------------------------------------------
(* Helpers *)

At(w, place) == call[w].at = place

Broken == faults < MaxFaults /\ faults' = faults + 1 /\ UNCHANGED calls

(* Every return of Deliver.  A Fault comes with the zero result.            *)
ReturnFault(w) == call' = [call EXCEPT ![w] = NoCall] /\ UNCHANGED <<refused, delivered, killed>>

ReturnResult(w, rejected) ==
    /\ call' = [call EXCEPT ![w] = NoCall]
    /\ killed' = killed \cup rejected
    /\ delivered' = delivered \cup (Range(call[w].batch) \ rejected)

-----------------------------------------------------------------------------
(* Deliver, as far as the three have it in common *)

Deliver(w, batch) ==
    /\ At(w, "idle") /\ calls < MaxCalls
    /\ call' = [call EXCEPT ![w] =
          [at |-> CASE kind = "http" -> "token" [] kind = "stub" -> "stub" [] OTHER -> "marshal",
           batch |-> batch, todo |-> batch, rejected |-> {}]]
    /\ calls' = calls + 1
    /\ given' = given \cup Range(batch)
    /\ UNCHANGED <<kind, style, stub, wire, file, refused, delivered, killed, faults>>

(* HTTPConfig.Token fails or has nothing; or JSONL's context is done.       *)
NoCredential(w) ==
    /\ At(w, "token") \/ (At(w, "marshal") /\ kind = "jsonl")
    /\ Broken /\ ReturnFault(w)
    /\ UNCHANGED <<kind, style, stub, wire, file, given>>

Token(w) ==
    /\ At(w, "token")
    /\ call' = [call EXCEPT ![w].at = "marshal"]
    /\ UNCHANGED <<kind, style, stub, wire, file, history, counts>>

(* rejectUnsealed, a document the format refuses, and, for a request, one   *)
(* that does not fit alone: refused by Lawang itself.                       *)
Unsendable(sink, r) ==
    \/ r \in Unsealed \cup Malformed
    \/ sink = "http" /\ Framing + SizeOf[r] > MaxBytes

(* The documents of a batch that are sent or written, in its order.         *)
Sendable(sink, batch) ==
    LET docs[n \in 0..Len(batch)] ==
            IF n = 0 THEN <<>>
            ELSE IF Unsendable(sink, batch[n]) THEN docs[n - 1]
            ELSE Append(docs[n - 1], batch[n])
    IN docs[Len(batch)]

-----------------------------------------------------------------------------
(* HTTP *)

(* Mutated form: the comma between two documents is free.                   *)
CostMutant(r, chunk) == SizeOf[r]

(* What a document adds to the body of a request.                           *)
Cost(r, chunk) == IF chunk = <<>> THEN SizeOf[r] ELSE SizeOf[r] + 1

NewChunk == [chunk |-> <<>>, size |-> Framing, sent |-> <<>>]

(* flush: nothing is sent for an empty chunk.                               *)
Flushed(b) == IF b.chunk = <<>> THEN b.sent ELSE Append(b.sent, b.chunk)

(* One turn of the loop of Deliver: flush if the document does not fit.     *)
AddDoc(b, r) ==
    IF b.size + Cost(r, b.chunk) > MaxBytes
    THEN [chunk |-> <<r>>, size |-> Framing + SizeOf[r], sent |-> Flushed(b)]
    ELSE [chunk |-> Append(b.chunk, r), size |-> b.size + Cost(r, b.chunk), sent |-> b.sent]

(* The requests of a batch: what Deliver flushes, in order.                 *)
Chunks(docs) ==
    LET b[n \in 0..Len(docs)] == IF n = 0 THEN NewChunk ELSE AddDoc(b[n - 1], docs[n])
    IN Flushed(b[Len(docs)])

(* marshalAll, and the first part of JSONL.Deliver.  With nothing left to   *)
(* send the call returns what Lawang refused.                               *)
Marshal(w) ==
    LET mine == {r \in Range(call[w].batch) : Unsendable(kind, r)}
        docs == Sendable(kind, call[w].batch) IN
    /\ At(w, "marshal")
    /\ refused' = refused \cup mine
    /\ call' = [call EXCEPT ![w].rejected = mine,
                            ![w].todo = IF kind = "http" THEN Chunks(docs) ELSE docs,
                            ![w].at = IF kind = "http" THEN "send" ELSE "write"]
    /\ UNCHANGED <<kind, style, stub, wire, file, given, delivered, killed, counts>>

(* Deliver's return, with nothing left to send or to write.                 *)
AllDone(w) ==
    /\ call[w].at \in {"send", "stub", "write"} /\ call[w].todo = <<>>
    /\ ReturnResult(w, call[w].rejected)
    /\ UNCHANGED <<kind, style, stub, wire, file, given, refused, counts>>

(* HTTP.send, up to the request. *)
Send(w) ==
    /\ At(w, "send") /\ call[w].todo # <<>>
    /\ wire' = wire \cup {[to |-> w, chunk |-> Head(call[w].todo), done |-> 0, refused |-> {}]}
    /\ call' = [call EXCEPT ![w].at = "wait"]
    /\ UNCHANGED <<kind, style, stub, file, history, counts>>

(* One status of each band statusOf knows, and 200 for 2xx. *)
Statuses == {200, 302, 401, 404, 408, 422, 429, 503}

(* 401 and its like stop the sink, 422 refuses the records, and a status    *)
(* nobody expects is tried again.                                           *)
statusOf(s) ==
    CASE s = 200 -> "read" [] s \in {401, 404} -> "halt" [] s = 422 -> "refused" [] OTHER -> "retry"

(* The bodies of a 2xx answer: empty, an object without the member, the     *)
(* member with null, text, or a list of ids.                                *)
EmptyBody == [form |-> "empty", ids |-> <<>>]
ListBody(ids) == [form |-> "list", ids |-> ids]
Garbage == {[form |-> f, ids |-> <<>>] : f \in {"no member", "null", "text"}}

(* Mutated form: null is an empty list, which is how encoding/json reads it.*)
UnreadableMutant(body, ids) ==
    \/ body.form \in {"no member", "text"}
    \/ \E i \in DOMAIN body.ids : body.ids[i] \notin ids
    \/ ~IsInjective(body.ids)

(* rejectionsFrom: an answer that does not say what the receiver did.  An   *)
(* id that was not sent, or named twice, makes the whole of it unreadable.  *)
Unreadable(body, ids) ==
    \/ body.form \in {"no member", "null", "text"}
    \/ \E i \in DOMAIN body.ids : body.ids[i] \notin ids
    \/ ~IsInjective(body.ids)

(* The rest of send and of the loop, for the answer of the request q: a     *)
(* fault ends the call, and rejections are added to the result.             *)
Answered(q, status, body) ==
    LET w == q.to
        sent == Range(q.chunk)
        what == statusOf(status)
        named == IF what = "refused" THEN sent
                 ELSE {r \in sent : \E i \in DOMAIN body.ids : body.ids[i] = IdOf[r]} IN
    /\ wire' = wire \ {q}
    /\ \/ /\ w = Nobody
          /\ UNCHANGED call
       \/ /\ w # Nobody
          /\ \/ what \in {"halt", "retry"}
             \/ what = "read" /\ Unreadable(body, {IdOf[r] : r \in sent})
          /\ call' = [call EXCEPT ![w] = NoCall]
       \/ /\ w # Nobody
          /\ what = "refused" \/ (what = "read" /\ ~Unreadable(body, {IdOf[r] : r \in sent}))
          /\ call' = [call EXCEPT ![w].at = "send", ![w].todo = Tail(@), ![w].rejected = @ \cup named]

(* The client's Timeout, the worker's context or the process ends: nobody   *)
(* waits for the answer, and the request may still arrive.                  *)
GiveUp(w) ==
    /\ At(w, "wait") /\ Broken /\ ReturnFault(w)
    /\ wire' = {IF q.to = w THEN [q EXCEPT !.to = Nobody] ELSE q : q \in wire}
    /\ UNCHANGED <<kind, style, stub, file, given>>

(* The process dies in a call that waits for nothing outside it.            *)
Crash(w) ==
    /\ call[w].at \in {"send", "stub", "write"} /\ Broken /\ ReturnFault(w)
    /\ UNCHANGED <<kind, style, stub, wire, file, given>>

(* A request or its answer is lost: the connection fails.                   *)
LoseRequest(q) ==
    /\ q \in wire /\ Broken
    /\ wire' = wire \ {q}
    /\ call' = IF q.to = Nobody THEN call ELSE [call EXCEPT ![q.to] = NoCall]
    /\ UNCHANGED <<kind, style, stub, file, history>>

(* Something that is not the receiver answers, whatever the receiver has    *)
(* made of the request so far: a proxy, a gateway, or a body cut on its way.*)
Interfere(q) ==
    /\ q \in wire /\ q.to # Nobody /\ Broken
    /\ \/ \E s \in Statuses \ {200, 422} : Answered(q, s, EmptyBody)
       \/ \E body \in Garbage \cup {ListBody(<<NoId>>), ListBody(<<IdOf[q.chunk[1]], IdOf[q.chunk[1]]>>)} : Answered(q, 200, body)
    /\ UNCHANGED <<kind, style, stub, file, history>>

(* The receiver, which refuses record by record: one record is looked at.   *)
ReceiveRecord(q) ==
    LET r == q.chunk[q.done + 1] IN
    /\ q \in wire /\ style = "list" /\ q.done < Len(q.chunk)
    /\ stub' = Stored(stub, r)
    /\ refused' = IF Accepts(stub, r) THEN refused ELSE refused \cup {r}
    /\ wire' = (wire \ {q}) \cup
          {[q EXCEPT !.done = @ + 1, !.refused = IF Accepts(stub, r) THEN @ ELSE @ \cup {r}]}
    /\ UNCHANGED <<kind, style, call, file, given, delivered, killed, counts>>

(* What a receiver that holds h would hold after each record of a request,  *)
(* and whether it would refuse none of them on the way.                     *)
AllOf(h, chunk) ==
    LET held[n \in 0..Len(chunk)] == IF n = 0 THEN h ELSE Stored(held[n - 1], chunk[n])
    IN held

TakesAll(h, chunk) == \A n \in 1..Len(chunk) : Accepts(AllOf(h, chunk)[n - 1], chunk[n])

(* The receiver that refuses a request for any of its records, and then     *)
(* takes none of them.                                                      *)
ReceiveWhole(q) ==
    /\ q \in wire /\ style = "whole" /\ q.done = 0
    /\ wire' = (wire \ {q}) \cup
          {[q EXCEPT !.done = Len(q.chunk),
                    !.refused = IF TakesAll(stub, q.chunk) THEN {} ELSE Range(q.chunk)]}
    /\ IF TakesAll(stub, q.chunk)
       THEN stub' = AllOf(stub, q.chunk)[Len(q.chunk)] /\ UNCHANGED refused
       ELSE refused' = refused \cup Range(q.chunk) /\ UNCHANGED stub
    /\ UNCHANGED <<kind, style, call, file, given, delivered, killed, counts>>

(* The receiver's answer, when it has looked at every record.               *)
Reply(q) ==
    /\ q \in wire /\ q.done = Len(q.chunk)
    /\ \/ q.refused = {} /\ Answered(q, 200, EmptyBody)
       \/ q.refused # {} /\ style = "whole" /\ Answered(q, 422, EmptyBody)
       \/ /\ q.refused # {} /\ style = "list"
          /\ Answered(q, 200, ListBody(SetToSeq({IdOf[r] : r \in q.refused})))
    /\ UNCHANGED <<kind, style, stub, file, history, counts>>

-----------------------------------------------------------------------------
(* Stub.Deliver: one record, through the same door. *)

StubRecord(w) ==
    LET r == Head(call[w].todo)
        no == Unsendable(kind, r) \/ ~Accepts(stub, r) IN
    /\ At(w, "stub") /\ call[w].todo # <<>>
    /\ stub' = IF Unsendable(kind, r) THEN stub ELSE Stored(stub, r)
    /\ refused' = IF no THEN refused \cup {r} ELSE refused
    /\ call' = [call EXCEPT ![w].todo = Tail(@),
                            ![w].rejected = IF no THEN @ \cup {r} ELSE @]
    /\ UNCHANGED <<kind, style, wire, file, given, delivered, killed, counts>>

-----------------------------------------------------------------------------
(* JSONL: under its mutex, one write to the file. *)

(* The file after the first n documents of a write reached it whole.  A     *)
(* document written behind a truncated line has no line of its own.         *)
Written(docs, n, torn) ==
    LET first == IF file.torn /\ n > 0 THEN {docs[1]} ELSE {}
        whole == {docs[i] : i \in 1..n} IN
    [lines |-> file.lines \cup (whole \ first),
     spoiled |-> file.spoiled \cup first,
     torn |-> torn]

WriteFile(w) ==
    LET docs == call[w].todo IN
    /\ At(w, "write") /\ docs # <<>>
    /\ file' = Written(docs, Len(docs), FALSE)
    /\ call' = [call EXCEPT ![w].todo = <<>>]
    /\ UNCHANGED <<kind, style, stub, wire, history, counts>>

(* The open fails, the write is cut short anywhere, or the close fails; or  *)
(* the process dies in the middle of the write.                             *)
WriteFails(w) ==
    LET docs == call[w].todo IN
    /\ At(w, "write") /\ docs # <<>> /\ Broken
    /\ \/ UNCHANGED file
       \/ \E n \in 0..Len(docs), torn \in BOOLEAN :
             /\ n = Len(docs) => ~torn
             /\ n = 0 => torn
             /\ file' = Written(docs, n, torn)
    /\ call' = [call EXCEPT ![w].at = "failed"]
    /\ UNCHANGED <<kind, style, stub, wire, history>>

(* Mutated form: what a failed write put in the file counts.                *)
WriteFaultMutant(w) ==
    /\ At(w, "failed")
    /\ ReturnResult(w, call[w].rejected)
    /\ UNCHANGED <<kind, style, stub, wire, file, given, refused, counts>>

(* writeFault: nothing in the batch counts as delivered.                    *)
WriteFault(w) ==
    /\ At(w, "failed") /\ ReturnFault(w)
    /\ UNCHANGED <<kind, style, stub, wire, file, given, counts>>

-----------------------------------------------------------------------------

WorkerStep(w) ==
    \/ Token(w) \/ Marshal(w) \/ AllDone(w) \/ Send(w) \/ StubRecord(w)
    \/ WriteFile(w) \/ WriteFault(w)

SinkNext ==
    \/ \E w \in Workers, batch \in Batches : Deliver(w, batch)
    \/ \E w \in Workers : WorkerStep(w) \/ NoCredential(w) \/ GiveUp(w) \/ Crash(w) \/ WriteFails(w)
    \/ \E q \in wire :
          ReceiveRecord(q) \/ ReceiveWhole(q) \/ Reply(q) \/ LoseRequest(q) \/ Interfere(q)

SinkSpec == SinkInit /\ [][SinkNext]_sinkVars

-----------------------------------------------------------------------------
(* Properties *)

(* What the receiver has: what the stub holds, or what was written whole.   *)
Held == Range(stub) \cup file.lines \cup file.spoiled

Asked(w) == Range(call[w].batch)

Contract == INSTANCE SinkContract
    WITH asked <- [w \in Workers |-> Asked(w)], held <- Held

(* A receiver may refuse a request whole and still be one that refuses      *)
(* records, as the contract has it, if the same bytes come back the same way*)
(* (statusOf): if a document is never sent in two different requests.       *)
Requests == UNION {Range(Chunks(Sendable("http", batch))) : batch \in Batches}

SentTogether == \A c, d \in Requests : Range(c) \cap Range(d) # {} => c = d

(* The Sink interface: whatever is lost, late, repeated, garbled or cut     *)
(* short, a record reported as taken is at the receiver, one reported as    *)
(* refused was refused and is not there, and a fault reports nothing.       *)
KeepsContract == Contract!Spec

(* The bytes of a request: a comma in front of each document but the first. *)
BodySize(chunk) ==
    LET size[n \in 0..Len(chunk)] ==
            IF n = 0 THEN Framing ELSE size[n - 1] + SizeOf[chunk[n]] + (IF n = 1 THEN 0 ELSE 1)
    IN size[Len(chunk)]

(* HTTPConfig.MaxRequestBytes: no request is larger, its commas included.   *)
RequestFits == \A q \in wire : BodySize(q.chunk) <= MaxBytes

(* JSONL: one document per line, but for the one behind each line that a    *)
(* failed write truncated.                                                  *)
LinesAreWhole ==
    Cardinality(IF kind = "jsonl" THEN delivered \ file.lines ELSE {}) <= faults

=============================================================================
