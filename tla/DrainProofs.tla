---------------------------- MODULE DrainProofs -----------------------------
(***************************************************************************)
(* What the drain does, for every number of goroutines, rows, records and  *)
(* tokens, every batch and ladder, and any number of crashes.  The first   *)
(* part shows that a goroutine only ever acts for a claim it holds, so     *)
(* that every step of the drain is a step of module Outbox or changes no   *)
(* table: all that OutboxProofs shows of the outbox is true of the drain.  *)
(***************************************************************************)
EXTENDS Drain, OutboxProofs

(* Who holds which claim.  It is DrainTypeOK with the ownership that makes  *)
(* it inductive: no claim is held by two goroutines, or twice by one.       *)
DrainOwns ==
    /\ drain \in [Drains -> [at : Places, batch : SUBSET claims,
                             row : claims \cup {NoClaim}, recs : SUBSET Records]]
    /\ \A g \in Drains : drain[g].at \in {"idle", "unheard"} <=> drain[g].row = NoClaim
    /\ \A g \in Drains : drain[g].row \notin drain[g].batch
    /\ \A g, h \in Drains : g # h => HeldBy(g) \cap HeldBy(h) = {}
    /\ claims \subseteq UNION {HeldBy(g) : g \in Drains}

(* No claim of the outbox is the value that stands for none.                *)
LEMMA NoClaimIsNone ==
    ASSUME IInv
    PROVE  NoClaim \notin claims /\ claims \subseteq Claimed
  BY DrainAssumption DEF IInv, TypeOK

(* A goroutine that works a row goes to another place with it.              *)
LEMMA MoveOwns ==
    ASSUME DrainOwns, NEW g \in Drains, NEW p \in Places, NEW R \in SUBSET Records,
           drain[g].row # NoClaim, p \notin {"idle", "unheard"}, Move(g, p, R),
           claims' = claims
    PROVE  DrainOwns'
  <1>1. \A h \in Drains : HeldBy(h)' = HeldBy(h)
    BY DEF DrainOwns, Move, HeldBy
  <1>. QED BY <1>1 DEF DrainOwns, Move

(* A goroutine that claims, starts, gives back, leaves or crashes: what it  *)
(* holds changes, and what the others hold does not.                        *)
LEMMA HoldOwns ==
    ASSUME DrainOwns, NEW g \in Drains, NEW d,
           NoClaim \notin claims, NoClaim \notin claims',
           d \in [at : Places, batch : SUBSET claims', row : claims' \cup {NoClaim},
                  recs : SUBSET Records],
           drain' = [drain EXCEPT ![g] = d],
           d.at \in {"idle", "unheard"} <=> d.row = NoClaim,
           d.row \notin d.batch,
           claims' = (claims \ HeldBy(g)) \cup d.batch \cup ({d.row} \ {NoClaim}),
           (d.batch \cup ({d.row} \ {NoClaim})) \cap claims \subseteq HeldBy(g)
    PROVE  DrainOwns'
  <1>1. /\ drain'[g] = d
        /\ \A h \in Drains \ {g} : drain'[h] = drain[h]
    BY DEF DrainOwns
  <1>2. HeldBy(g)' = d.batch \cup ({d.row} \ {NoClaim})
    BY <1>1 DEF HeldBy
  <1>3. \A h \in Drains \ {g} : HeldBy(h)' = HeldBy(h)
    BY <1>1 DEF HeldBy
  <1>4. \A h \in Drains : HeldBy(h) \subseteq claims
    BY DEF DrainOwns, HeldBy
  <1>5. \A h \in Drains \ {g} : HeldBy(h) \subseteq claims'
    BY <1>4 DEF DrainOwns
  <1>6. \A h \in Drains \ {g} : drain[h] \in [at : Places, batch : SUBSET claims',
                                   row : claims' \cup {NoClaim}, recs : SUBSET Records]
    BY <1>5 DEF DrainOwns, HeldBy
  <1>7. drain' \in [Drains -> [at : Places, batch : SUBSET claims',
                               row : claims' \cup {NoClaim}, recs : SUBSET Records]]
    BY <1>1, <1>6 DEF DrainOwns
  <1>8. \A h, i \in Drains : h # i => HeldBy(h)' \cap HeldBy(i)' = {}
    BY <1>2, <1>3, <1>4 DEF DrainOwns
  <1>9. claims' \subseteq UNION {HeldBy(h)' : h \in Drains}
    <2>. SUFFICES ASSUME NEW c \in claims' PROVE \E h \in Drains : c \in HeldBy(h)'
      OBVIOUS
    <2>1. CASE c \in d.batch \cup ({d.row} \ {NoClaim})
      BY <1>2, <2>1
    <2>2. CASE c \in claims \ HeldBy(g)
      <3>1. PICK h \in Drains : c \in HeldBy(h)
        BY <2>2 DEF DrainOwns
      <3>. QED BY <1>3, <2>2, <3>1
    <2>. QED BY <2>1, <2>2
  <1>10. /\ \A h \in Drains : drain'[h].at \in {"idle", "unheard"} <=> drain'[h].row = NoClaim
         /\ \A h \in Drains : drain'[h].row \notin drain'[h].batch
    BY <1>1 DEF DrainOwns
  <1>. QED BY <1>7, <1>8, <1>9, <1>10 DEF DrainOwns

-----------------------------------------------------------------------------
(* Every step is a step of the outbox *)

(* What a worker does to the row it holds is a transition of its claim, or  *)
(* nothing: the lease was lost.                                             *)
LEMMA SettleStep ==
    ASSUME NEW c \in claims, NEW g \in Drains,
           \/ Abandon(g) \/ FinishRow(g) \/ FailRow(g) \/ DeadRow(g) \/ HaltRow(g),
           drain[g].row = c, DrainOwns
    PROVE  /\ Transition(c) \/ UNCHANGED outboxVars
           /\ Move(g, "done", {})
           /\ drain[g].at \notin {"idle", "unheard"}
           /\ UNCHANGED claims
  <1>1. drain[g].recs \subseteq Records
    BY DEF DrainOwns
  <1>2. CASE Abandon(g)
    BY <1>2 DEF Abandon, Settle, Working, Transition, outboxVars, MarkAbandoned, ParkDead
  <1>3. CASE FinishRow(g)
    BY <1>1, <1>3 DEF FinishRow, Settle, Working, Transition, outboxVars, MarkDelivered
  <1>4. CASE FailRow(g)
    BY <1>4 DEF FailRow, Settle, Working, Transition, outboxVars, Fail, Retry, ParkDead
  <1>5. CASE DeadRow(g)
    BY <1>5 DEF DeadRow, Settle, Working, Transition, outboxVars, MarkDead, ParkDead
  <1>6. CASE HaltRow(g)
    BY <1>6 DEF HaltRow, Settle, Working, Transition, outboxVars, Halt
  <1>. QED BY <1>2, <1>3, <1>4, <1>5, <1>6

(* The steps that leave the tables and the claims alone.                    *)
LEMMA QuietStep ==
    ASSUME NEW g \in Drains,
           \/ Start(g) \/ ReadWork(g) \/ Reopen(g) \/ Normalize(g) \/ Offer(g) \/ NoSink(g)
           \/ Lose(g) \/ Shutdown(g) \/ Restart(g)
    PROVE  UNCHANGED outboxVars
  BY DEF Start, ReadWork, Reopen, Normalize, Offer, NoSink, Lose, Shutdown, Restart

(* A goroutine that works a row works one of the outbox's claims.           *)
LEMMA RowIsClaim ==
    ASSUME DrainOwns, NEW g \in Drains, drain[g].at \notin {"idle", "unheard"}
    PROVE  drain[g].row \in claims /\ drain[g].row # NoClaim
  BY DEF DrainOwns

(* What goroutine g itself does.                                            *)
StepOf(g) == DrainStep(g) \/ NoSink(g) \/ Lose(g) \/ Crash(g) \/ Shutdown(g) \/ Restart(g)

(* A step of a goroutine is one step of module Outbox for a claim that the  *)
(* goroutine holds, or a new claim, or no step of it.                       *)
LEMMA OwnStep ==
    ASSUME IInv, DrainOwns, NEW g \in Drains, StepOf(g)
    PROVE  \/ UNCHANGED outboxVars
           \/ \E S \in SUBSET RowId, tok \in Tokens : Claim(S, tok)
           \/ \E c \in HeldBy(g) : c \in claims /\ Transition(c)
           \/ \E C \in SUBSET claims : Drop(C)
  <1>. DEFINE c == drain[g].row
  <1>1. drain[g].at \notin {"idle", "unheard"} => c \in HeldBy(g) /\ c \in claims
    BY RowIsClaim DEF HeldBy
  <1>2. CASE ClaimBatch(g)
    BY <1>2 DEF ClaimBatch
  <1>3. CASE \/ Start(g) \/ ReadWork(g) \/ Reopen(g) \/ Normalize(g) \/ Offer(g)
             \/ NoSink(g) \/ Lose(g) \/ Shutdown(g) \/ Restart(g)
    BY <1>3, QuietStep
  <1>4. CASE GiveBack(g)
    <2>1. PICK d \in drain[g].batch : Release(d) \/ UNCHANGED outboxVars
      BY <1>4 DEF GiveBack
    <2>2. d \in claims /\ d \in HeldBy(g)
      BY DEF DrainOwns, HeldBy
    <2>. QED BY <2>1, <2>2 DEF Transition
  <1>5. CASE Leave(g)
    BY <1>1, <1>5 DEF Leave, Working
  <1>6. CASE Abandon(g) \/ FinishRow(g) \/ FailRow(g) \/ DeadRow(g) \/ HaltRow(g)
    <2>1. drain[g].at \notin {"idle", "unheard"}
      BY <1>6 DEF Abandon, FinishRow, FailRow, DeadRow, HaltRow, Working
    <2>. QED BY <1>1, <1>6, <2>1, SettleStep
  <1>7. CASE Prepare(g)
    <2>1. drain[g].at \notin {"idle", "unheard"}
      BY <1>7 DEF Prepare, Working
    <2>2. NewRecords(c.row[1], drain[g].recs) \subseteq SUBSET Records
      BY DEF NewRecords, DrainOwns
    <2>3. CASE \E R \in SUBSET Records : PrepareIn(c, R)
      BY <1>1, <2>1, <2>3 DEF Transition
    <2>. QED BY <1>7, <2>2, <2>3 DEF Prepare
  <1>8. CASE Crash(g)
    <2>1. HeldBy(g) \subseteq claims
      BY DEF HeldBy, DrainOwns
    <2>. QED BY <1>8, <2>1 DEF Crash
  <1>9. CASE Forget(g)
    <2>1. drain[g].batch \subseteq claims
      BY DEF DrainOwns
    <2>. QED BY <1>9, <2>1 DEF Forget
  <1>. QED BY <1>2, <1>3, <1>4, <1>5, <1>6, <1>7, <1>8, <1>9 DEF StepOf, DrainStep

(* Each step of the drain is one step of module Outbox, or none.            *)
LEMMA OutboxStep ==
    ASSUME IInv, DrainOwns, DrainNext
    PROVE  [Next]_vars
  <1>1. CASE \E g \in Drains : StepOf(g)
    BY <1>1, OwnStep DEF Next, outboxVars, vars
  <1>2. CASE \E r \in RowId : TimePasses(r)
    BY <1>2 DEF TimePasses, Next
  <1>3. CASE Others
    BY <1>3 DEF Others, Next
  <1>. QED BY <1>1, <1>2, <1>3 DEF DrainNext, StepOf

(* A goroutine at another place, with another row and another batch.        *)
LEMMA NewState ==
    ASSUME NEW C, NEW w \in [at : Places, batch : SUBSET C, row : C \cup {NoClaim},
                             recs : SUBSET Records],
           NEW p \in Places, NEW r \in C \cup {NoClaim}, NEW b \in SUBSET C,
           NEW D, b \subseteq D, r \in D \cup {NoClaim},
           NEW d, d = [w EXCEPT !.at = p, !.row = r, !.batch = b]
    PROVE  /\ d \in [at : Places, batch : SUBSET D, row : D \cup {NoClaim},
                     recs : SUBSET Records]
           /\ d.at = p /\ d.row = r /\ d.batch = b
  OBVIOUS

(* Each step of the drain keeps track of who holds which claim.             *)
LEMMA OwnsStep ==
    ASSUME IInv, IInv', DrainOwns, [DrainNext]_drainVars
    PROVE  DrainOwns'
  <1>0. NoClaim \notin claims /\ NoClaim \notin claims'
    BY DrainAssumption DEF IInv, TypeOK
  <1>1. ASSUME UNCHANGED <<drain, claims>>
        PROVE  DrainOwns'
    BY <1>1 DEF DrainOwns, HeldBy
  <1>2. ASSUME NEW g \in Drains, NEW p \in Places \ {"idle", "unheard"},
               NEW R \in SUBSET Records, drain[g].at \notin {"idle", "unheard"},
               Move(g, p, R), claims' = claims
        PROVE  DrainOwns'
    BY <1>2, RowIsClaim, MoveOwns
  <1>3. ASSUME NEW g \in Drains, DrainStep(g)
        PROVE  DrainOwns'
    <2>0. drain[g] \in [at : Places, batch : SUBSET claims,
                        row : claims \cup {NoClaim}, recs : SUBSET Records]
      BY DEF DrainOwns
    <2>1. CASE ClaimBatch(g)
      <3>1. PICK S \in SUBSET RowId, tok \in Tokens : Claim(S, tok)
        BY <2>1 DEF ClaimBatch
      <3>2. drain[g] = IdleDrain
        BY <2>1 DEF ClaimBatch
      <3>. DEFINE B == claims' \ claims
                  Now(p) == [at |-> p, batch |-> B, row |-> NoClaim, recs |-> {}]
      <3>3. PICK p \in {"idle", "unheard"} : drain' = [drain EXCEPT ![g] = Now(p)]
        <4>. HIDE DEF B
        <4>1. drain[g] = [at |-> "idle", batch |-> {}, row |-> NoClaim, recs |-> {}]
          BY <3>2 DEF IdleDrain
        <4>2. CASE drain' = [drain EXCEPT ![g].batch = B]
          <5>1. drain' = [drain EXCEPT ![g] = [drain[g] EXCEPT !.batch = B]]
            BY <4>2 DEF DrainOwns
          <5>2. [drain[g] EXCEPT !.batch = B] = Now("idle")
            BY <4>1
          <5>. QED BY <5>1, <5>2
        <4>3. CASE drain' = [drain EXCEPT ![g].batch = B, ![g].at = "unheard"]
          <5>1. drain' = [drain EXCEPT ![g] = [drain[g] EXCEPT !.batch = B, !.at = "unheard"]]
            BY <4>3 DEF DrainOwns
          <5>2. [drain[g] EXCEPT !.batch = B, !.at = "unheard"] = Now("unheard")
            <6>1. [drain[g] EXCEPT !.batch = B] = Now("idle")
              BY <4>1
            <6>2. [Now("idle") EXCEPT !.at = "unheard"] = Now("unheard")
              OBVIOUS
            <6>. QED BY <6>1, <6>2
          <5>. QED BY <5>1, <5>2
        <4>. QED BY <2>1, <4>2, <4>3 DEF ClaimBatch, B
      <3>. DEFINE d == Now(p)
      <3>4. d.at = p /\ d.batch = claims' \ claims /\ d.row = NoClaim /\ d.recs = {}
            /\ d = [at |-> p, batch |-> claims' \ claims, row |-> NoClaim, recs |-> {}]
        OBVIOUS
      <3>5. claims \subseteq claims'
        BY <3>1 DEF Claim
      <3>6. HeldBy(g) = {}
        BY <3>2 DEF HeldBy, IdleDrain
      <3>. HIDE DEF d
      <3>7. drain' = [drain EXCEPT ![g] = d]
        BY <3>3 DEF d
      <3>. QED BY <1>0, <3>4, <3>5, <3>6, <3>7, HoldOwns DEF Places
    <2>2. CASE Start(g)
      <3>1. PICK c \in drain[g].batch :
               drain' = [drain EXCEPT ![g].at = "started", ![g].row = c, ![g].batch = @ \ {c}]
        BY <2>2 DEF Start
      <3>. DEFINE d == [drain[g] EXCEPT !.at = "started", !.row = c, !.batch = @ \ {c}]
      <3>2. drain' = [drain EXCEPT ![g] = d]
        BY <3>1 DEF DrainOwns
      <3>3. /\ drain[g].row = NoClaim /\ claims' = claims /\ c \in claims
            /\ HeldBy(g) = drain[g].batch
        BY <2>0, <2>2, <1>0 DEF Start, Working, DrainOwns, outboxVars, HeldBy
      <3>4. /\ d \in [at : Places, batch : SUBSET claims', row : claims' \cup {NoClaim},
                      recs : SUBSET Records]
            /\ d.at = "started" /\ d.row = c /\ d.batch = drain[g].batch \ {c}
        <4>. DEFINE b == drain[g].batch \ {c}
        <4>1. b \in SUBSET claims
          BY <2>0
        <4>2. d = [drain[g] EXCEPT !.at = "started", !.row = c, !.batch = b]
          BY <2>0
        <4>3. "started" \in Places
          BY DEF Places
        <4>. HIDE DEF b, d
        <4>4. d \in [at : Places, batch : SUBSET claims', row : claims' \cup {NoClaim},
                     recs : SUBSET Records] /\ d.at = "started" /\ d.row = c /\ d.batch = b
          BY <2>0, <3>3, <4>1, <4>2, <4>3, NewState
        <4>. QED BY <4>4 DEF b
      <3>. HIDE DEF d
      <3>5. claims' = (claims \ HeldBy(g)) \cup d.batch \cup ({d.row} \ {NoClaim})
        BY <1>0, <2>0, <3>3, <3>4
      <3>. QED BY <1>0, <3>2, <3>3, <3>4, <3>5, HoldOwns
    <2>3. CASE GiveBack(g)
      <3>1. PICK c \in drain[g].batch :
               /\ Release(c) \/ UNCHANGED outboxVars
               /\ drain' = [drain EXCEPT ![g].at = "done", ![g].row = c, ![g].batch = @ \ {c}]
        BY <2>3 DEF GiveBack
      <3>. DEFINE d == [drain[g] EXCEPT !.at = "done", !.row = c, !.batch = @ \ {c}]
      <3>2. drain' = [drain EXCEPT ![g] = d]
        BY <3>1 DEF DrainOwns
      <3>3. /\ drain[g].row = NoClaim /\ claims' = claims /\ c \in claims
            /\ HeldBy(g) = drain[g].batch
        BY <2>0, <2>3, <3>1, <1>0 DEF GiveBack, Working, DrainOwns, outboxVars, HeldBy, Release
      <3>4. /\ d \in [at : Places, batch : SUBSET claims', row : claims' \cup {NoClaim},
                      recs : SUBSET Records]
            /\ d.at = "done" /\ d.row = c /\ d.batch = drain[g].batch \ {c}
        <4>. DEFINE b == drain[g].batch \ {c}
        <4>1. b \in SUBSET claims
          BY <2>0
        <4>2. d = [drain[g] EXCEPT !.at = "done", !.row = c, !.batch = b]
          BY <2>0
        <4>3. "done" \in Places
          BY DEF Places
        <4>. HIDE DEF b, d
        <4>4. d \in [at : Places, batch : SUBSET claims', row : claims' \cup {NoClaim},
                     recs : SUBSET Records] /\ d.at = "done" /\ d.row = c /\ d.batch = b
          BY <2>0, <3>3, <4>1, <4>2, <4>3, NewState
        <4>. QED BY <4>4 DEF b
      <3>. HIDE DEF d
      <3>5. claims' = (claims \ HeldBy(g)) \cup d.batch \cup ({d.row} \ {NoClaim})
        BY <1>0, <2>0, <3>3, <3>4
      <3>. QED BY <1>0, <3>2, <3>3, <3>4, <3>5, HoldOwns
    <2>4. CASE Leave(g)
      <3>. DEFINE d == [drain[g] EXCEPT !.at = "idle", !.row = NoClaim]
      <3>1. drain' = [drain EXCEPT ![g] = d]
        BY <2>4 DEF Leave, DrainOwns
      <3>2. /\ drain[g].row \in claims /\ drain[g].row # NoClaim
            /\ drain[g].row \notin drain[g].batch
            /\ claims' = claims \ {drain[g].row}
        BY <2>4, RowIsClaim DEF Leave, Working, Drop, DrainOwns
      <3>3. HeldBy(g) = drain[g].batch \cup {drain[g].row}
        BY <3>2 DEF HeldBy
      <3>4. /\ d \in [at : Places, batch : SUBSET claims', row : claims' \cup {NoClaim},
                      recs : SUBSET Records]
            /\ d.at = "idle" /\ d.row = NoClaim /\ d.batch = drain[g].batch
        <4>1. drain[g].batch \subseteq claims' /\ drain[g].batch \in SUBSET claims
          BY <2>0, <3>2
        <4>2. d = [drain[g] EXCEPT !.at = "idle", !.row = NoClaim, !.batch = drain[g].batch]
          BY <2>0
        <4>. QED BY <2>0, <4>1, <4>2, NewState DEF Places
      <3>. HIDE DEF d
      <3>5. claims' = (claims \ HeldBy(g)) \cup d.batch \cup ({d.row} \ {NoClaim})
        <4>1. HeldBy(g) \subseteq claims
          BY DEF HeldBy, DrainOwns
        <4>. QED BY <2>0, <3>2, <3>3, <3>4, <4>1
      <3>. QED BY <1>0, <3>1, <3>3, <3>4, <3>5, HoldOwns
    <2>5. CASE ReadWork(g)
      <3>1. NextStage(outbox[drain[g].row.row]) \in Places \ {"idle", "unheard"}
        BY DEF NextStage, Places
      <3>. QED BY <1>2, <2>5, <3>1 DEF ReadWork, Working, outboxVars
    <2>6. CASE Reopen(g)
      <3>1. Waiting(drain[g].row.row) \in SUBSET Records
        BY DEF Waiting
      <3>. QED BY <1>2, <2>6, <3>1 DEF Reopen, Working, outboxVars, Places
    <2>7. CASE Normalize(g)
      BY <1>2, <2>7 DEF Normalize, Working, outboxVars, Places
    <2>8. CASE Prepare(g)
      <3>1. NewRecords(drain[g].row.row[1], drain[g].recs) \subseteq SUBSET Records
        BY <2>0 DEF NewRecords
      <3>2. /\ drain[g].at \notin {"idle", "unheard"} /\ claims' = claims
            /\ \E R \in SUBSET Records, p \in {"deliver", "retry", "done"} : Move(g, p, R)
        BY <2>8, <3>1 DEF Prepare, Working, PrepareIn, outboxVars
      <3>. QED BY <1>2, <3>2 DEF Places
    <2>9. CASE Offer(g)
      <3>1. \A taken : Refused(drain[g].recs, taken) \in SUBSET Records
        BY <2>0 DEF Refused
      <3>2. /\ drain[g].at \notin {"idle", "unheard"} /\ claims' = claims
            /\ \E R \in SUBSET Records, p \in {"answered", "retry", "halt"} : Move(g, p, R)
        BY <2>9, <3>1 DEF Offer, Working, outboxVars
      <3>. QED BY <1>2, <3>2 DEF Places
    <2>10. CASE Abandon(g) \/ FinishRow(g) \/ FailRow(g) \/ DeadRow(g) \/ HaltRow(g)
      <3>1. drain[g].row \in claims
        BY <2>10, RowIsClaim DEF Abandon, FinishRow, FailRow, DeadRow, HaltRow, Working
      <3>. QED BY <1>2, <2>10, <3>1, SettleStep DEF Places
    <2>11. CASE Forget(g)
      <3>1. /\ drain' = [drain EXCEPT ![g] = IdleDrain] /\ claims' = claims \ drain[g].batch
            /\ drain[g].row = NoClaim
        BY <2>11 DEF Forget, Drop, Working, DrainOwns
      <3>2. HeldBy(g) = drain[g].batch
        BY <3>1 DEF HeldBy
      <3>. QED BY <1>0, <3>1, <3>2, HoldOwns DEF IdleDrain, Places
    <2>. QED BY <1>3, <2>1, <2>2, <2>3, <2>4, <2>5, <2>6, <2>7, <2>8, <2>9, <2>10, <2>11 DEF DrainStep
  <1>4. ASSUME NEW g \in Drains, NoSink(g) \/ Lose(g)
        PROVE  DrainOwns'
    BY <1>2, <1>4 DEF NoSink, Lose, Working, outboxVars, Places
  <1>5. ASSUME NEW g \in Drains, Crash(g)
        PROVE  DrainOwns'
    <2>1. drain' = [drain EXCEPT ![g] = IdleDrain] /\ claims' = claims \ HeldBy(g)
      BY <1>5 DEF Crash, Drop
    <2>. QED BY <1>0, <2>1, HoldOwns DEF IdleDrain, Places
  <1>6. CASE \E g \in Drains : Shutdown(g) \/ Restart(g)
    BY <1>1, <1>6 DEF Shutdown, Restart, outboxVars
  <1>7. CASE \E r \in RowId : TimePasses(r)
    BY <1>1, <1>7 DEF TimePasses, Elapse
  <1>8. CASE Others
    BY <1>1, <1>8 DEF Others, Accept, Replay
  <1>9. CASE UNCHANGED drainVars
    BY <1>1, <1>9 DEF drainVars, outboxVars
  <1>. QED BY <1>3, <1>4, <1>5, <1>6, <1>7, <1>8, <1>9 DEF DrainNext

-----------------------------------------------------------------------------
(* The inductive invariant of the drain, and what follows from it *)

DrainInv == IInv /\ DrainOwns

(* DrainInit: the process starts on an empty table with nothing claimed, so *)
(* the invariant holds and the table part is Init of Outbox.                *)
LEMMA DrainInitInv == DrainInit => Init /\ DrainInv
  <1>. SUFFICES ASSUME DrainInit PROVE DrainInv /\ Init
    OBVIOUS
  <1>1. Init /\ IInv
    BY InitInv DEF DrainInit
  <1>2. claims = {} /\ drain = [g \in Drains |-> IdleDrain]
    BY DEF DrainInit, Init
  <1>3. DrainOwns
    BY <1>2 DEF DrainOwns, HeldBy, IdleDrain, Places
  <1>. QED BY <1>1, <1>3 DEF DrainInv

(* DrainNext: every step of a drain, the clock, the ingress or an operator  *)
(* keeps the invariant, and is a step of Outbox on the tables or none.      *)
LEMMA DrainStepInv ==
    ASSUME DrainInv, [DrainNext]_drainVars
    PROVE  DrainInv' /\ [Next]_vars
  <1>1. [Next]_vars
    BY OutboxStep DEF DrainInv, drainVars, outboxVars, vars
  <1>2. IInv'
    BY <1>1, StepInv DEF DrainInv
  <1>. QED BY <1>1, <1>2, OwnsStep DEF DrainInv

(* The drain implements the outbox: whatever the goroutines do, crash or    *)
(* leave half done, the tables change only by operations of package outbox, *)
(* each for a claim a running goroutine holds.                              *)
THEOREM DrainImplementsOutbox == DrainSpec => ImplementsOutbox
  <1>1. DrainInit => Init /\ DrainInv
    BY DrainInitInv
  <1>2. DrainInv /\ [DrainNext]_drainVars => DrainInv' /\ [Next]_vars
    BY DrainStepInv
  <1>. QED BY <1>1, <1>2, PTL DEF DrainSpec, ImplementsOutbox, Spec

(* The drain's type invariant, and who holds which claim.                   *)
THEOREM DrainTypeCorrect == DrainSpec => []DrainTypeOK
  <1>. DEFINE Rest ==
           /\ record_ledger \in [Tenants -> SUBSET Records]
           /\ sink \in [Tenants -> SUBSET Records]
           /\ skipped \in [RowId -> SUBSET Records]
           /\ reached \in [Tenants \X OrderingKeys -> 0..MaxSeq]
           /\ stopping \in [Drains -> BOOLEAN]
           /\ crashes \in 0..MaxCrashes /\ halts \in 0..MaxHalts
           /\ left \subseteq Claimed
  <1>1. DrainInit => DrainInv /\ Rest
    <2>1. 0 \in 0..MaxSeq /\ 0 \in 0..MaxCrashes /\ 0 \in 0..MaxHalts
      BY BoundAssumption, DrainAssumption
    <2>. QED BY <2>1, DrainInitInv DEF DrainInit
  <1>2. DrainInv /\ Rest /\ [DrainNext]_drainVars => DrainInv' /\ Rest'
    <2>. SUFFICES ASSUME DrainInv, Rest, [DrainNext]_drainVars PROVE Rest'
      BY DrainStepInv
    <2>1. ASSUME UNCHANGED <<outside, control>> PROVE Rest'
      BY <2>1 DEF outside, control
    <2>2. ASSUME CountCrash \/ CountHalt \/ UNCHANGED <<crashes, halts>>
          PROVE  crashes' \in 0..MaxCrashes /\ halts' \in 0..MaxHalts
      BY <2>2, DrainAssumption DEF CountCrash, CountHalt
    <2>c. \A g \in Drains : drain[g].batch \subseteq Claimed /\ HeldBy(g) \subseteq Claimed
      BY NoClaimIsNone DEF DrainInv, DrainOwns, HeldBy
    <2>3. ASSUME NEW g \in Drains, DrainStep(g) PROVE Rest'
      <3>1. CASE Prepare(g)
        <4>1. \/ UNCHANGED <<outside, control>>
              \/ \E R \in SUBSET Records, S \in SUBSET Records :
                    /\ record_ledger' = [record_ledger EXCEPT ![drain[g].row.row[1]] = @ \cup R]
                    /\ skipped' = [skipped EXCEPT ![drain[g].row.row] = S]
                    /\ UNCHANGED <<sink, reached, control>>
          <5>1. drain[g].recs \subseteq Records
            BY DEF DrainInv, DrainOwns
          <5>2. CASE \E R \in NewRecords(drain[g].row.row[1], drain[g].recs) :
                   /\ record_ledger' = [record_ledger EXCEPT ![drain[g].row.row[1]] = @ \cup R]
                   /\ skipped' = [skipped EXCEPT ![drain[g].row.row] =
                                    drain[g].recs \cap record_ledger[drain[g].row.row[1]]]
                   /\ UNCHANGED <<sink, reached>>
            <6>1. UNCHANGED control
              BY <3>1 DEF Prepare
            <6>2. \A R \in NewRecords(drain[g].row.row[1], drain[g].recs) : R \in SUBSET Records
              BY <5>1 DEF NewRecords
            <6>3. drain[g].recs \cap record_ledger[drain[g].row.row[1]] \in SUBSET Records
              BY <5>1
            <6>. QED BY <5>2, <6>1, <6>2, <6>3
          <5>. QED BY <3>1, <5>2 DEF Prepare
        <4>. QED BY <2>1, <4>1 DEF control
      <3>2. CASE Offer(g)
        <4>. DEFINE c == drain[g].row
        <4>1. drain[g].recs \subseteq Records /\ outbox \in [RowId -> Row]
          BY DEF DrainInv, DrainOwns, IInv, TypeOK
        <4>2. c.row \in RowId /\ outbox[c.row].seq \in 0..MaxSeq
          BY <3>2, <4>1, RowIsClaim DEF Offer, Working, DrainInv, IInv, TypeOK, Claimed, Row
        <4>3. \E taken \in SUBSET drain[g].recs :
                 sink' = [sink EXCEPT ![c.row[1]] = @ \cup taken]
          BY <3>2 DEF Offer
        <4>4. sink' \in [Tenants -> SUBSET Records]
          BY <4>1, <4>3
        <4>5. reached' \in [Tenants \X OrderingKeys -> 0..MaxSeq]
          BY <3>2, <4>2 DEF Offer
        <4>6. /\ halts' \in 0..MaxHalts /\ crashes' = crashes
              /\ UNCHANGED <<record_ledger, skipped, stopping>>
          BY <3>2, DrainAssumption DEF Offer, CountHalt
        <4>7. left' = left
          BY <3>2 DEF Offer, CountHalt
        <4>. QED BY <4>4, <4>5, <4>6, <4>7
      <3>3. CASE ClaimBatch(g)
        <4>1. left' \subseteq left
          BY <3>3 DEF ClaimBatch
        <4>2. UNCHANGED outside /\ UNCHANGED stopping
          BY <3>3 DEF ClaimBatch
        <4>3. crashes' \in 0..MaxCrashes /\ halts' \in 0..MaxHalts
          BY <2>2, <3>3 DEF ClaimBatch
        <4>. QED BY <4>1, <4>2, <4>3 DEF outside
      <3>4. CASE GiveBack(g) \/ Forget(g)
        <4>1. left' \subseteq left \cup drain[g].batch
          BY <3>4 DEF GiveBack, Forget
        <4>2. UNCHANGED <<outside, stopping, crashes, halts>>
          BY <3>4 DEF GiveBack, Forget
        <4>. QED BY <2>c, <4>1, <4>2 DEF outside
      <3>. QED
        BY <2>1, <2>3, <3>1, <3>2, <3>3, <3>4 DEF DrainStep, Start, Leave, Abandon,
           ReadWork, Reopen, Normalize, FinishRow, FailRow, DeadRow, HaltRow, Settle
    <2>4. ASSUME NEW g \in Drains, NoSink(g) \/ Lose(g) PROVE Rest'
      <3>1. crashes' \in 0..MaxCrashes /\ halts' \in 0..MaxHalts
        BY <2>2, <2>4 DEF NoSink, Lose, LeaveBehind
      <3>2. UNCHANGED outside /\ UNCHANGED stopping
        BY <2>4 DEF NoSink, Lose
      <3>3. left' \subseteq Claimed
        <4>1. CASE NoSink(g)
          BY <4>1 DEF NoSink, CountHalt
        <4>2. CASE Lose(g)
          <5>1. left' = left \cup {drain[g].row} /\ drain[g].row \in claims
            BY <4>2, RowIsClaim DEF Lose, LeaveBehind, DrainInv
          <5>. QED BY <5>1, NoClaimIsNone DEF DrainInv
        <4>. QED BY <2>4, <4>1, <4>2
      <3>. QED BY <3>1, <3>2, <3>3 DEF outside
    <2>5. ASSUME NEW g \in Drains, Crash(g) \/ Shutdown(g) \/ Restart(g) PROVE Rest'
      <3>1. UNCHANGED outside /\ crashes' \in 0..MaxCrashes /\ halts' \in 0..MaxHalts
        BY <2>2, <2>5 DEF Crash, Shutdown, Restart, LeaveBehind
      <3>2. stopping' \in [Drains -> BOOLEAN]
        BY <2>5 DEF Crash, Shutdown, Restart
      <3>3. left' \subseteq left \cup HeldBy(g)
        BY <2>5 DEF Crash, Shutdown, Restart, LeaveBehind, CountHalt
      <3>. QED BY <2>c, <3>1, <3>2, <3>3 DEF outside
    <2>6. CASE Others \/ UNCHANGED drainVars \/ \E r \in RowId : TimePasses(r)
      BY <2>1, <2>6 DEF Others, drainVars, TimePasses, outside, control
    <2>. QED BY <2>3, <2>4, <2>5, <2>6 DEF DrainNext
  <1>3. DrainInv /\ Rest => DrainTypeOK
    <2>1. ASSUME DrainInv, NEW g \in Drains PROVE HeldBy(g) \subseteq claims /\ drain[g] \in DrainState
      BY <2>1, NoClaimIsNone DEF DrainInv, DrainOwns, HeldBy, DrainState
    <2>2. DrainInv => drain \in [Drains -> DrainState] /\ claims = UNION {HeldBy(g) : g \in Drains}
      BY <2>1 DEF DrainInv, DrainOwns
    <2>. QED BY <2>2 DEF DrainTypeOK, DrainInv, DrainOwns
  <1>. QED BY <1>1, <1>2, <1>3, PTL DEF DrainSpec

-----------------------------------------------------------------------------
(***************************************************************************)
(* What the drain promises about deliveries, whatever is late, taken over, *)
(* replayed or crashed: the outbox, the ledger and the sink agree, a row   *)
(* is given up exactly at the end of its ladder, and a lease outlives only *)
(* a worker that was lost.  Each step of a goroutine is an operation on    *)
(* the row it claimed, or none; the proofs follow the claim from goroutine *)
(* to row.                                                                 *)
(***************************************************************************)

-----------------------------------------------------------------------------
(* What each operation of the outbox does to each row *)

(* A step that at most marks r as the head, or makes it due.                *)
Alike(r) ==
    /\ outbox'[r].state = outbox[r].state
    /\ outbox'[r].ordering_key = outbox[r].ordering_key
    /\ outbox'[r].seq = outbox[r].seq
    /\ outbox'[r].attempts = outbox[r].attempts
    /\ outbox'[r].lease_token = outbox[r].lease_token
    /\ outbox'[r].prepared_at = outbox[r].prepared_at
    /\ outbox'[r].dead_reason = outbox[r].dead_reason

(* A step that ends r: its lease is gone, and its reason is why.            *)
Ended(r, st, why) ==
    /\ outbox'[r].state = st
    /\ outbox'[r].ordering_key = outbox[r].ordering_key
    /\ outbox'[r].seq = outbox[r].seq
    /\ outbox'[r].attempts = outbox[r].attempts
    /\ outbox'[r].lease_token = NoToken
    /\ outbox'[r].prepared_at = outbox[r].prepared_at
    /\ outbox'[r].dead_reason = why

(* A step that lets go of r with work left.                                 *)
GivenUp(r) ==
    /\ outbox'[r].state = outbox[r].state
    /\ outbox'[r].ordering_key = outbox[r].ordering_key
    /\ outbox'[r].seq = outbox[r].seq
    /\ outbox'[r].lease_token = NoToken
    /\ outbox'[r].prepared_at = outbox[r].prepared_at
    /\ outbox'[r].dead_reason = outbox[r].dead_reason

(* finishIn ends its own row and marks at most one other.                   *)
LEMMA FinishRows ==
    ASSUME IInv, NEW c \in claims, NEW st, NEW why, NEW err,
           Finish(c.row, FinishedRow(c.row, st, why, err))
    PROVE  /\ Ended(c.row, st, why)
           /\ \A u \in RowId \ {c.row} : Alike(u) /\ outbox'[u].due = outbox[u].due
  <1>1. c.row \in RowId /\ \A u \in RowId : outbox[u] \in Row
    BY HeldFacts DEF IInv, TypeOK
  <1>2. outbox'[c.row] = FinishedRow(c.row, st, why, err)
    BY <1>1 DEF Finish
  <1>3. Ended(c.row, st, why)
    BY <1>1, <1>2 DEF FinishedRow, Ended, Row
  <1>4. ASSUME NEW u \in RowId \ {c.row} PROVE Alike(u) /\ outbox'[u].due = outbox[u].due
    <2>1. outbox'[u] = IF NextHead(c.row, u) THEN [outbox[u] EXCEPT !.is_head = TRUE]
                       ELSE outbox[u]
      BY DEF Finish
    <2>. QED BY <1>1, <2>1 DEF Alike, Row
  <1>. QED BY <1>3, <1>4

(* markDead.                                                                *)
LEMMA ParkDeadRows ==
    ASSUME IInv, NEW c \in claims, NEW why, NEW err, ParkDead(c, why, err)
    PROVE  /\ Held(c) /\ Ended(c.row, "dead", why)
           /\ \A u \in RowId \ {c.row} : Alike(u) /\ outbox'[u].due = outbox[u].due
           /\ UNCHANGED <<outbox_record, claims>>
  BY FinishRows DEF ParkDead

(* Outbox.MarkDelivered: the records it refused are dead, and those that    *)
(* waited besides are delivered.                                            *)
LEMMA MarkDeliveredRows ==
    ASSUME IInv, NEW c \in claims, NEW refused, MarkDelivered(c, refused)
    PROVE  /\ Held(c) /\ Ended(c.row, "delivered", outbox[c.row].dead_reason)
           /\ \A u \in RowId \ {c.row} :
                 Alike(u) /\ outbox'[u].due = outbox[u].due /\ outbox_record'[u] = outbox_record[u]
           /\ \A x \in Records :
                 outbox_record'[c.row][x] = IF x \in refused THEN "dead"
                     ELSE IF x \in Waiting(c.row) THEN "delivered" ELSE outbox_record[c.row][x]
           /\ claims' = claims
  <1>1. c.row \in RowId /\ outbox_record \in [RowId -> [Records -> RecordState]]
    BY HeldFacts DEF IInv, TypeOK
  <1>2. outbox_record' = [outbox_record EXCEPT ![c.row] = Answered(@, refused)]
    BY DEF MarkDelivered
  <1>3. /\ outbox_record'[c.row] = Answered(outbox_record[c.row], refused)
        /\ \A u \in RowId \ {c.row} : outbox_record'[u] = outbox_record[u]
    BY <1>1, <1>2
  <1>4. \A x \in Records :
           outbox_record'[c.row][x] = IF x \in refused THEN "dead"
               ELSE IF x \in Waiting(c.row) THEN "delivered" ELSE outbox_record[c.row][x]
    BY <1>1, <1>3 DEF Answered, Waiting
  <1>. QED BY <1>3, <1>4, FinishRows DEF MarkDelivered

(* Release, Halt and Retry.                                                 *)
LEMMA GivenUpRows ==
    ASSUME IInv, NEW c \in claims, Release(c) \/ Halt(c) \/ Retry(c)
    PROVE  /\ Held(c) /\ GivenUp(c.row)
           /\ \A u \in RowId \ {c.row} : outbox'[u] = outbox[u]
           /\ UNCHANGED <<outbox_record, claims>>
  <1>1. c.row \in RowId /\ outbox[c.row] \in Row /\ outbox \in [RowId -> Row]
    BY HeldFacts DEF IInv, TypeOK
  <1>. DEFINE back == GiveAttemptBack(outbox[c.row])
  <1>2. /\ back \in Row /\ back.state = outbox[c.row].state
        /\ back.ordering_key = outbox[c.row].ordering_key /\ back.seq = outbox[c.row].seq
        /\ back.lease_token = NoToken
        /\ back.prepared_at = outbox[c.row].prepared_at
        /\ back.dead_reason = outbox[c.row].dead_reason
    <2>1. \A n : [outbox[c.row] EXCEPT !.lease_token = NoToken, !.attempts = n].dead_reason
                   = outbox[c.row].dead_reason
      BY <1>1 DEF Row
    <2>. QED BY <1>1, <2>1, GiveBackFacts DEF GiveAttemptBack
  <1>3. CASE Release(c)
    <2>1. outbox' = [outbox EXCEPT ![c.row] = [back EXCEPT !.due = TRUE]]
      BY <1>3 DEF Release
    <2>. HIDE DEF back
    <2>. QED BY <1>1, <1>2, <1>3, <2>1 DEF GivenUp, Row, Release
  <1>4. CASE Halt(c)
    <2>1. outbox' = [outbox EXCEPT ![c.row] = [back EXCEPT !.due = FALSE,
                                                           !.last_error = "reported"]]
      BY <1>4 DEF Halt
    <2>. HIDE DEF back
    <2>2. Held(c) /\ UNCHANGED <<outbox_record, claims>>
      BY <1>4 DEF Halt
    <2>. QED BY <1>1, <1>2, <2>1, <2>2 DEF GivenUp, Row
  <1>5. CASE Retry(c)
    BY <1>1, <1>5 DEF Retry, GivenUp, Row
  <1>. QED BY <1>3, <1>4, <1>5

(* Outbox.PrepareIn stores exactly the new records, on a row that had none. *)
LEMMA PrepareRows ==
    ASSUME IInv, NEW c \in claims, NEW R \in SUBSET Records, PrepareIn(c, R)
    PROVE  /\ Held(c) /\ outbox[c.row].state = "pending" /\ outbox'[c.row].state = "prepared"
           /\ outbox'[c.row].lease_token = outbox[c.row].lease_token
           /\ outbox'[c.row].attempts = outbox[c.row].attempts
           /\ outbox'[c.row].dead_reason = outbox[c.row].dead_reason
           /\ outbox'[c.row].ordering_key = outbox[c.row].ordering_key
           /\ outbox'[c.row].seq = outbox[c.row].seq
           /\ outbox'[c.row].due = outbox[c.row].due
           /\ \A x \in Records : outbox_record[c.row][x] = "none"
           /\ \A x \in Records : outbox_record'[c.row][x] = IF x \in R THEN "prepared" ELSE "none"
           /\ \A u \in RowId \ {c.row} : outbox'[u] = outbox[u] /\ outbox_record'[u] = outbox_record[u]
           /\ claims' = claims
  <1>1. /\ c.row \in RowId /\ outbox[c.row] \in Row /\ outbox \in [RowId -> Row]
        /\ outbox_record \in [RowId -> [Records -> RecordState]]
    BY HeldFacts DEF IInv, TypeOK
  <1>2. ~outbox[c.row].prepared_at /\ \A x \in Records : outbox_record[c.row][x] = "none"
    BY <1>1 DEF PrepareIn, IInv, RowConsistent, RecordsFollowRow
  <1>3. outbox_record'[c.row] = [x \in Records |-> IF x \in R THEN "prepared"
                                                   ELSE outbox_record[c.row][x]]
    BY <1>1 DEF PrepareIn
  <1>. QED BY <1>1, <1>2, <1>3 DEF PrepareIn, Row

(* Outbox.Claim leases the rows it chose under a token nobody holds.        *)
LEMMA ClaimRows ==
    ASSUME IInv, NEW S \in SUBSET RowId, NEW tok \in Tokens, Claim(S, tok)
    PROVE  /\ \A v \in S :
                 /\ outbox[v].is_head /\ IsUnfinished(v) /\ outbox[v].due
                 /\ outbox'[v].state = outbox[v].state
                 /\ outbox'[v].ordering_key = outbox[v].ordering_key
                 /\ outbox'[v].seq = outbox[v].seq
                 /\ outbox'[v].lease_token = tok /\ ~outbox'[v].due
                 /\ outbox'[v].prepared_at = outbox[v].prepared_at
                 /\ outbox'[v].dead_reason = outbox[v].dead_reason
                 /\ \E c \in claims' \ claims : c.row = v /\ c.token = tok
           /\ \A c \in claims' \ claims : c.row \in S /\ c.token = tok
           /\ \A c \in claims : c.token # tok
           /\ claims \subseteq claims'
           /\ \A u \in RowId \ S : outbox'[u] = outbox[u]
           /\ outbox_record' = outbox_record
  <1>1. \A r \in RowId : outbox[r] \in Row
    BY DEF IInv, TypeOK
  <1>2. \A c \in claims : c.token # tok
    BY DEF Claim, UsedTokens
  <1>3. claims' = claims \cup
           {[row |-> r, attempt |-> AttemptOf(outbox[r]), token |-> tok] : r \in S}
    BY DEF Claim
  <1>4. \A r \in S : \E c \in claims' \ claims : c.row = r /\ c.token = tok
    <2>. TAKE r \in S
    <2>. DEFINE c == [row |-> r, attempt |-> AttemptOf(outbox[r]), token |-> tok]
    <2>1. c \in claims' /\ c.row = r /\ c.token = tok
      BY <1>3
    <2>. QED BY <1>2, <2>1
  <1>5. \A r \in S : outbox[r].is_head /\ IsUnfinished(r) /\ outbox[r].due
    BY DEF Claim, DueHead, IInv, QueueInv, HeadIsUnfinished
  <1>6. \A u \in RowId \ S : outbox'[u] = outbox[u]
    BY DEF Claim
  <1>7. ASSUME NEW r \in S
        PROVE  outbox'[r] = [outbox[r] EXCEPT !.lease_token = tok, !.due = FALSE,
                                              !.attempts = AttemptOf(outbox[r])]
    BY DEF Claim
  <1>8. ASSUME NEW r \in S
        PROVE  /\ outbox'[r].state = outbox[r].state
               /\ outbox'[r].ordering_key = outbox[r].ordering_key
               /\ outbox'[r].seq = outbox[r].seq
               /\ outbox'[r].lease_token = tok /\ ~outbox'[r].due
               /\ outbox'[r].prepared_at = outbox[r].prepared_at
               /\ outbox'[r].dead_reason = outbox[r].dead_reason
    <2>1. outbox[r] \in Row
      BY <1>1
    <2>2. outbox'[r] = [outbox[r] EXCEPT !.lease_token = tok, !.due = FALSE,
                                         !.attempts = AttemptOf(outbox[r])]
      BY <1>7
    <2>. QED BY <2>1, <2>2 DEF Row
  <1>9. claims \subseteq claims' /\ \A c \in claims' \ claims : c.row \in S /\ c.token = tok
    BY <1>3
  <1>. QED BY <1>2, <1>4, <1>5, <1>6, <1>8, <1>9 DEF Claim

(* Outbox.Replay sends a finished row to the back of its key, with its dead *)
(* records waiting again.                                                   *)
LEMMA ReplayRows ==
    ASSUME IInv, NEW r \in RowId, Replay(r)
    PROVE  /\ r[1] \in Tenants /\ outbox[r].state \in Finished
           /\ outbox'[r].state \in Unfinished
           /\ outbox[r].lease_token = NoToken /\ outbox'[r].lease_token = NoToken
           /\ outbox'[r].ordering_key = outbox[r].ordering_key
           /\ outbox'[r].prepared_at = outbox[r].prepared_at
           /\ outbox'[r].dead_reason = ""
           /\ NextSeq(KeyOf(r), outbox'[r].seq)
           /\ \A u \in RowId \ {r} : outbox'[u] = outbox[u] /\ outbox_record'[u] = outbox_record[u]
           /\ \A x \in Records : outbox_record'[r][x] =
                 IF outbox_record[r][x] = "dead" THEN "prepared" ELSE outbox_record[r][x]
           /\ claims' = claims
  <1>1. /\ outbox \in [RowId -> Row] /\ outbox[r] \in Row
        /\ outbox_record \in [RowId -> [Records -> RecordState]]
    BY DEF IInv, TypeOK
  <1>2. PICK n \in 1..MaxSeq :
           /\ NextSeq(KeyOf(r), n)
           /\ outbox' = [outbox EXCEPT ![r] =
                [@ EXCEPT !.seq = n, !.is_head = KeyIsIdle(KeyOf(r)),
                          !.state = ReplayState(outbox[r]), !.attempts = 0,
                          !.due = TRUE, !.dead_reason = ""]]
    BY DEF Replay
  <1>. DEFINE head == KeyIsIdle(KeyOf(r))
              st == ReplayState(outbox[r])
  <1>3. st \in Unfinished
    BY DEF ReplayState, Unfinished
  <1>4. outbox' = [outbox EXCEPT ![r] = [@ EXCEPT !.seq = n, !.is_head = head, !.state = st,
                                    !.attempts = 0, !.due = TRUE, !.dead_reason = ""]]
    BY <1>2
  <1>. HIDE DEF head, st
  <1>5. /\ outbox'[r].state = st /\ outbox'[r].seq = n /\ outbox'[r].dead_reason = ""
        /\ outbox'[r].lease_token = outbox[r].lease_token
        /\ outbox'[r].ordering_key = outbox[r].ordering_key
        /\ outbox'[r].prepared_at = outbox[r].prepared_at
    BY <1>1, <1>4 DEF Row
  <1>6. outbox[r].state \in Finished /\ outbox[r].lease_token = NoToken
    BY DEF Replay, Replayable, Finished, IInv, RowConsistent, QueueInv, HeadIsUnfinished,
           IsUnfinished, Unfinished
  <1>7. /\ outbox_record'[r] = Revived(outbox_record[r])
        /\ \A u \in RowId \ {r} : outbox_record'[u] = outbox_record[u]
    BY <1>1 DEF Replay
  <1>8. \A x \in Records : outbox_record'[r][x] =
           IF outbox_record[r][x] = "dead" THEN "prepared" ELSE outbox_record[r][x]
    BY <1>7 DEF Revived
  <1>9. \A u \in RowId \ {r} : outbox'[u] = outbox[u]
    BY <1>1, <1>4
  <1>10. NextSeq(KeyOf(r), outbox'[r].seq)
    BY <1>2, <1>5
  <1>. QED BY <1>3, <1>5, <1>6, <1>7, <1>8, <1>9, <1>10 DEF Replay

(* The clock reaches due_at of one row.                                     *)
LEMMA ElapseRows ==
    ASSUME IInv, NEW r \in RowId, Elapse(r)
    PROVE  /\ \A u \in RowId : Alike(u)
           /\ \A u \in RowId \ {r} : outbox'[u] = outbox[u]
           /\ UNCHANGED <<outbox_record, claims>>
  <1>1. outbox \in [RowId -> Row]
    BY DEF IInv, TypeOK
  <1>. QED BY <1>1 DEF Elapse, Alike, Row

-----------------------------------------------------------------------------
(* What one goroutine may assume while the others run *)

(* A step that is not taken for claim c.                                    *)
AloofFrom(c) ==
    \/ \E t \in Tenants, d \in Deliveries, k \in OrderingKeys : Accept(t, d, k)
    \/ \E d \in Deliveries : Park(d)
    \/ \E S \in SUBSET RowId, tok \in Tokens : Claim(S, tok)
    \/ \E d \in claims \ {c} : Transition(d)
    \/ \E r \in RowId : Replay(r) \/ Elapse(r)
    \/ UNCHANGED <<outbox, outbox_record>>

(* The row and the records behind a claim.                                  *)
Undisturbed(r) ==
    Alike(r) /\ outbox_record'[r] = outbox_record[r]
        /\ (outbox'[r].due = outbox[r].due \/ Elapse(r))

(* The lease guard: nobody gives a worker back the lease it lost, and while *)
(* it is held only its holder changes the row, unless it ran out and the    *)
(* row is claimed again.                                                    *)
LEMMA Aloof ==
    ASSUME IInv, NEW c \in claims, AloofFrom(c)
    PROVE  /\ Held(c)' => Held(c)
           /\ Held(c) /\ (Held(c)' \/ ~outbox[c.row].due) => Undisturbed(c.row)
  <1>. DEFINE r == c.row
  <1>1. /\ r \in RowId /\ c.token # NoToken
        /\ Held(c) <=> outbox[r].lease_token = c.token
        /\ Held(c)' => outbox'[r].lease_token = c.token
    BY HeldFacts, TokenAssumption DEF Held, IInv, ClaimIsCurrent
  <1>2. ASSUME outbox'[r] = outbox[r], outbox_record'[r] = outbox_record[r]
        PROVE  Undisturbed(r) /\ (Held(c)' => Held(c))
    BY <1>1, <1>2 DEF Undisturbed, Alike
  <1>3. ASSUME NEW t \in Tenants, NEW d \in Deliveries, NEW k \in OrderingKeys, Accept(t, d, k)
        PROVE  (Held(c)' => Held(c)) /\ (Held(c) => Undisturbed(r))
    BY <1>1, <1>2, <1>3, AcceptRows DEF Held, IsUnfinished, Unfinished
  <1>4. ASSUME NEW d \in Deliveries, Park(d)
        PROVE  (Held(c)' => Held(c)) /\ (Held(c) => Undisturbed(r))
    BY <1>1, <1>2, <1>4, ParkRows DEF Held, IsUnfinished, Unfinished
  <1>5. ASSUME NEW S \in SUBSET RowId, NEW tok \in Tokens, Claim(S, tok)
        PROVE  /\ Held(c)' => Held(c)
               /\ Held(c) /\ (Held(c)' \/ ~outbox[r].due) => Undisturbed(r)
    <2>0. /\ c.token # tok
          /\ \A u \in RowId \ S : outbox'[u] = outbox[u]
          /\ outbox_record' = outbox_record
      BY <1>5, ClaimRows
    <2>1. \A u \in S : outbox[u].due /\ outbox'[u].lease_token = tok
      BY <1>5, ClaimRows
    <2>2. CASE r \in S
      BY <1>1, <2>0, <2>1, <2>2
    <2>3. CASE r \notin S
      BY <1>1, <1>2, <2>0, <2>3
    <2>. QED BY <2>2, <2>3
  <1>6. ASSUME NEW d \in claims \ {c}, Transition(d)
        PROVE  (Held(c)' => Held(c)) /\ (Held(c) => Undisturbed(r))
    <2>1. Held(d)
      BY <1>6 DEF Transition, PrepareIn, MarkDelivered, Release, Halt, Fail, Retry, MarkDead,
                  MarkAbandoned, ParkDead
    <2>2. Held(c) => d.row # r
      <3>. SUFFICES ASSUME Held(c), d.row = r PROVE FALSE
        OBVIOUS
      <3>1. c.token = d.token /\ c.attempt = d.attempt
        BY <2>1 DEF Held, IInv, ClaimIsCurrent
      <3>2. c \in Claimed /\ d \in Claimed
        BY DEF IInv, TypeOK
      <3>. QED BY <3>1, <3>2 DEF Claimed
    <2>3. outbox'[r].lease_token \in {NoToken, outbox[r].lease_token}
      <3>1. Next
        BY <1>6 DEF Next
      <3>2. CASE \E S \in SUBSET RowId, tok \in Tokens : Claim(S, tok)
        <4>1. PICK S \in SUBSET RowId, tok \in Tokens : Claim(S, tok)
          BY <3>2
        <4>2. claims' # claims
          BY <4>1, ClaimRows DEF Claim
        <4>3. claims' = claims
          BY <1>6 DEF Transition, PrepareIn, MarkDelivered, Release, Halt, Fail, Retry,
                      MarkDead, MarkAbandoned, ParkDead
        <4>. QED BY <4>2, <4>3
      <3>. QED BY <1>1, <3>1, <3>2, OnlyClaimLeases
    <2>4. ASSUME r # d.row PROVE Undisturbed(r)
      <3>1. CASE \E R \in SUBSET Records : PrepareIn(d, R)
        BY <1>1, <1>2, <2>4, <3>1, PrepareRows
      <3>2. CASE \E refused \in SUBSET Records : MarkDelivered(d, refused)
        BY <1>1, <2>4, <3>2, MarkDeliveredRows DEF Undisturbed
      <3>3. CASE Release(d) \/ Halt(d) \/ Retry(d)
        BY <1>1, <1>2, <2>4, <3>3, GivenUpRows
      <3>4. CASE \E why, err : ParkDead(d, why, err)
        BY <1>1, <2>4, <3>4, ParkDeadRows DEF Undisturbed
      <3>. QED BY <1>6, <3>1, <3>2, <3>3, <3>4 DEF Transition, Fail, MarkDead, MarkAbandoned
    <2>. QED BY <1>1, <2>2, <2>3, <2>4
  <1>7. ASSUME NEW u \in RowId, Replay(u)
        PROVE  (Held(c)' => Held(c)) /\ (Held(c) => Undisturbed(r))
    <2>1. CASE u = r
      BY <1>1, <1>7, <2>1, ReplayRows
    <2>2. CASE u # r
      BY <1>1, <1>2, <1>7, <2>2, ReplayRows
    <2>. QED BY <2>1, <2>2
  <1>8. ASSUME NEW u \in RowId, Elapse(u)
        PROVE  (Held(c)' => Held(c)) /\ (Held(c) => Undisturbed(r))
    BY <1>1, <1>8, ElapseRows DEF Undisturbed, Alike
  <1>. QED BY <1>2, <1>3, <1>4, <1>5, <1>6, <1>7, <1>8 DEF AloofFrom

(* A goroutine's place, row and batch are its own.                          *)
LEMMA OthersLeave ==
    ASSUME DrainInv, NEW g \in Drains, DrainNext, ~StepOf(g)
    PROVE  drain'[g] = drain[g]
  <1>1. ASSUME NEW h \in Drains \ {g}, StepOf(h)
        PROVE  drain'[g] = drain[g]
    BY <1>1 DEF StepOf, DrainStep, ClaimBatch, Forget, Start, GiveBack, Leave, Abandon, ReadWork,
       Reopen, Normalize, Prepare, Offer, FinishRow, FailRow, DeadRow, HaltRow, NoSink, Lose,
       Crash, Shutdown, Restart, Settle, Move, DrainInv, DrainOwns
  <1>. QED BY <1>1 DEF DrainNext, StepOf, TimePasses, Others

(* No goroutine acts for the claim of another, and neither do the clock,    *)
(* the ingress and an operator.                                             *)
LEMMA OthersAreAloof ==
    ASSUME DrainInv, NEW g \in Drains, NEW c \in HeldBy(g), DrainNext, ~StepOf(g)
    PROVE  c \in claims /\ AloofFrom(c)
  <1>1. c \in claims
    BY DEF HeldBy, DrainInv, DrainOwns
  <1>2. ASSUME NEW h \in Drains \ {g}, StepOf(h)
        PROVE  AloofFrom(c)
    <2>1. c \notin HeldBy(h)
      BY DEF DrainInv, DrainOwns
    <2>. QED BY <1>2, <2>1, OwnStep DEF AloofFrom, DrainInv, outboxVars, Drop
  <1>. QED BY <1>1, <1>2 DEF DrainNext, StepOf, TimePasses, Others, AloofFrom

-----------------------------------------------------------------------------
(* The ladder *)

(* What the ladder needs of a row: a reason is only written on a row that   *)
(* is finished, and fits the attempts the row is left with.                 *)
RowLadder(r) ==
    /\ IsUnfinished(r) => outbox[r].dead_reason = ""
    /\ outbox[r].dead_reason = "retries exhausted" => outbox[r].attempts = LadderLen + 1
    /\ outbox[r].dead_reason = "abandoned" => outbox[r].attempts > LadderLen + 1

(* Once past the first check of workRow, a goroutine works an attempt that  *)
(* the ladder still accounts for.                                           *)
LadderSound ==
    /\ \A r \in RowId : RowLadder(r)
    /\ \A g \in Drains :
          drain[g].at \notin {"idle", "unheard", "started", "done"} => ~Exhausted(drain[g].row.attempt)

(* The attempt in memory is the one on the row, while the lease is held.    *)
LEMMA HeldAttempt ==
    ASSUME IInv, NEW c \in claims, Held(c)
    PROVE  /\ c.row \in RowId /\ IsUnfinished(c.row)
           /\ outbox[c.row].attempts = c.attempt /\ c.attempt \in Nat /\ c.attempt >= 1
  <1>1. c.row \in RowId /\ outbox[c.row].attempts = c.attempt
    BY HeldFacts DEF Held, IInv, ClaimIsCurrent
  <1>2. c.attempt \in 1..MaxAttempts
    BY DEF IInv, TypeOK, Claimed
  <1>. QED BY <1>1, <1>2, BoundAssumption DEF Held

(* Ladder.Next and Ladder.Exhausted leave exactly one attempt between them: *)
(* the last one.                                                            *)
LEMMA LastOfLadder ==
    ASSUME NEW a \in Nat, a >= 1, ~LadderHasNext(a), ~Exhausted(a)
    PROVE  a = LadderLen + 1
  BY BoundAssumption DEF LadderHasNext, Exhausted

(* Every step keeps each row and its reason in agreement.                   *)
LEMMA LadderRowStep ==
    ASSUME DrainInv, LadderSound, [DrainNext]_drainVars, NEW r \in RowId
    PROVE  RowLadder(r)'
  <1>0. IInv
    BY DEF DrainInv
  <1>r. RowLadder(r)
    BY DEF LadderSound
  <1>1. ASSUME Alike(r) PROVE RowLadder(r)'
    BY <1>r, <1>1 DEF RowLadder, Alike, IsUnfinished
  <1>2. ASSUME outbox'[r] = outbox[r] PROVE RowLadder(r)'
    BY <1>1, <1>2 DEF Alike
  <1>3. ASSUME IsUnfinished(r), outbox'[r].dead_reason = outbox[r].dead_reason
        PROVE  RowLadder(r)'
    BY <1>r, <1>3 DEF RowLadder
  <1>4. ASSUME NEW c \in claims, Held(c), NEW why, ParkDead(c, why, "reported")
                                          \/ ParkDead(c, why, "worker lost"),
               why = "retries exhausted" => c.attempt = LadderLen + 1,
               why = "abandoned" => c.attempt > LadderLen + 1
        PROVE  RowLadder(r)'
    <2>1. Ended(c.row, "dead", why) /\ \A u \in RowId \ {c.row} : Alike(u)
      BY <1>0, <1>4, ParkDeadRows
    <2>2. CASE r = c.row
      BY <1>0, <1>r, <1>4, <2>1, <2>2, HeldAttempt DEF RowLadder, Ended, IsUnfinished, Unfinished
    <2>. QED BY <1>1, <2>1, <2>2
  <1>5. ASSUME NEW c \in claims, Release(c) \/ Halt(c) \/ Retry(c)
        PROVE  RowLadder(r)'
    <2>1. /\ Held(c) /\ GivenUp(c.row)
          /\ \A u \in RowId \ {c.row} : outbox'[u] = outbox[u]
      BY <1>0, <1>5, GivenUpRows
    <2>. QED BY <1>2, <1>3, <2>1 DEF GivenUp, Held
  <1>6. ASSUME NEW g \in Drains, StepOf(g)
        PROVE  RowLadder(r)'
    <2>c. PICK c : c = drain[g].row
      OBVIOUS
    <2>0. drain[g].at \notin {"idle", "unheard"} => c \in claims
      BY <2>c, RowIsClaim DEF DrainInv
    <2>1. CASE ClaimBatch(g)
      <3>1. PICK S \in SUBSET RowId, tok \in Tokens : Claim(S, tok)
        BY <2>1 DEF ClaimBatch
      <3>2. CASE r \in S
        BY <1>0, <1>3, <3>1, <3>2, ClaimRows
      <3>3. CASE r \notin S
        BY <1>0, <1>2, <3>1, <3>3, ClaimRows
      <3>. QED BY <3>2, <3>3
    <2>2. CASE GiveBack(g)
      <3>1. PICK d \in drain[g].batch : Release(d) \/ UNCHANGED outboxVars
        BY <2>2 DEF GiveBack
      <3>2. d \in claims
        BY DEF DrainInv, DrainOwns
      <3>. QED BY <1>2, <1>5, <3>1, <3>2 DEF outboxVars
    <2>3. CASE Prepare(g)
      <3>1. c \in claims /\ drain[g].recs \subseteq Records
        BY <2>c, <2>0, <2>3 DEF Prepare, Working, DrainInv, DrainOwns
      <3>2. CASE UNCHANGED outboxVars
        BY <1>2, <3>2 DEF outboxVars
      <3>3. ASSUME NEW R \in SUBSET Records, PrepareIn(c, R) PROVE RowLadder(r)'
        <4>1. /\ Held(c) /\ outbox'[c.row].dead_reason = outbox[c.row].dead_reason
              /\ \A u \in RowId \ {c.row} : outbox'[u] = outbox[u]
          BY <1>0, <3>1, <3>3, PrepareRows
        <4>. QED BY <1>2, <1>3, <4>1 DEF Held
      <3>. QED BY <2>c, <2>3, <3>1, <3>2, <3>3 DEF Prepare, NewRecords
    <2>4. CASE Abandon(g)
      <3>1. c \in claims /\ c.attempt > LadderLen + 1
        BY <2>c, <2>0, <2>4 DEF Abandon, Working, Exhausted
      <3>2. CASE Held(c) /\ MarkAbandoned(c)
        BY <1>4, <3>1, <3>2 DEF MarkAbandoned
      <3>. QED BY <1>2, <2>c, <2>4, <3>2 DEF Abandon, Settle, outboxVars
    <2>5. CASE FailRow(g)
      <3>1. c \in claims /\ ~Exhausted(c.attempt)
        BY <2>c, <2>0, <2>5 DEF FailRow, Working, LadderSound
      <3>2. CASE Held(c) /\ Retry(c)
        BY <1>5, <3>1, <3>2
      <3>3. CASE Held(c) /\ ~LadderHasNext(c.attempt) /\ ParkDead(c, "retries exhausted", "reported")
        <4>1. c.attempt \in Nat /\ c.attempt >= 1
          BY <1>0, <3>1, <3>3, HeldAttempt
        <4>2. c.attempt = LadderLen + 1
          BY <3>1, <3>3, <4>1, LastOfLadder
        <4>. QED BY <1>4, <3>1, <3>3, <4>2
      <3>. QED BY <1>2, <2>c, <2>5, <3>2, <3>3 DEF FailRow, Settle, Fail, outboxVars
    <2>6. CASE DeadRow(g)
      <3>1. c \in claims
        BY <2>c, <2>0, <2>6 DEF DeadRow
      <3>2. CASE Held(c) /\ MarkDead(c)
        BY <1>4, <3>1, <3>2 DEF MarkDead
      <3>. QED BY <1>2, <2>c, <2>6, <3>2 DEF DeadRow, Settle, outboxVars
    <2>7. CASE HaltRow(g)
      <3>1. c \in claims
        BY <2>c, <2>0, <2>7 DEF HaltRow, Working
      <3>. QED BY <1>2, <1>5, <2>c, <2>7, <3>1 DEF HaltRow, Settle, outboxVars
    <2>8. CASE FinishRow(g)
      <3>1. c \in claims
        BY <2>c, <2>0, <2>8 DEF FinishRow, Working
      <3>2. ASSUME MarkDelivered(c, drain[g].recs) PROVE RowLadder(r)'
        <4>1. /\ Held(c) /\ Ended(c.row, "delivered", outbox[c.row].dead_reason)
              /\ \A u \in RowId \ {c.row} : Alike(u)
          BY <1>0, <3>1, <3>2, MarkDeliveredRows
        <4>. QED BY <1>1, <1>3, <4>1 DEF Ended, Held
      <3>. QED BY <1>2, <2>c, <2>8, <3>2 DEF FinishRow, Settle, outboxVars
    <2>9. CASE Leave(g) \/ Crash(g) \/ Forget(g)
      BY <1>2, <2>9 DEF Leave, Crash, Forget, Drop
    <2>10. CASE \/ Start(g) \/ ReadWork(g) \/ Reopen(g) \/ Normalize(g) \/ Offer(g)
                \/ NoSink(g) \/ Lose(g) \/ Shutdown(g) \/ Restart(g)
      BY <1>2, <2>10, QuietStep DEF outboxVars
    <2>. QED BY <1>6, <2>1, <2>2, <2>3, <2>4, <2>5, <2>6, <2>7, <2>8, <2>9, <2>10
             DEF StepOf, DrainStep
  <1>7. ASSUME NEW u \in RowId, Elapse(u) PROVE RowLadder(r)'
    BY <1>0, <1>1, <1>7, ElapseRows
  <1>8. ASSUME NEW t \in Tenants, NEW d \in Deliveries, NEW k \in OrderingKeys, Accept(t, d, k)
        PROVE  RowLadder(r)'
    BY <1>0, <1>2, <1>8, AcceptRows DEF RowLadder
  <1>9. ASSUME NEW u \in RowId, Replay(u) PROVE RowLadder(r)'
    BY <1>0, <1>2, <1>9, ReplayRows DEF RowLadder
  <1>10. CASE UNCHANGED drainVars
    BY <1>2, <1>10 DEF drainVars, outboxVars
  <1>. QED BY <1>6, <1>7, <1>8, <1>9, <1>10 DEF DrainNext, StepOf, TimePasses, Others

(* The drain's invariant, as a fact of every behaviour.                     *)
LEMMA DrainInductive == DrainSpec => []DrainInv
  <1>1. DrainInit => DrainInv
    BY DrainInitInv
  <1>2. DrainInv /\ [DrainNext]_drainVars => DrainInv'
    BY DrainStepInv
  <1>. QED BY <1>1, <1>2, PTL DEF DrainSpec

(* A goroutine goes past the first check only with an attempt the ladder    *)
(* accounts for, and keeps the attempt until it is done with the row.       *)
LEMMA LadderPlaceStep ==
    ASSUME DrainInv, LadderSound, [DrainNext]_drainVars, NEW g \in Drains,
           drain'[g].at \notin {"idle", "unheard", "started", "done"}
    PROVE  ~Exhausted(drain'[g].row.attempt)
  <1>1. drain \in [Drains -> [at : Places, batch : SUBSET claims,
                             row : claims \cup {NoClaim}, recs : SUBSET Records]]
    BY DEF DrainInv, DrainOwns
  <1>2. CASE drain'[g] = drain[g]
    BY <1>2 DEF LadderSound
  <1>4. CASE ReadWork(g)
    <2>1. drain'[g].row = drain[g].row /\ ~Exhausted(drain[g].row.attempt)
      BY <1>1, <1>4 DEF ReadWork, Move
    <2>. QED BY <2>1
  <1>5. CASE ClaimBatch(g)
    <2>1. drain'[g].at \in {"idle", "unheard"}
      BY <1>1, <1>5 DEF ClaimBatch, IdleDrain
    <2>. QED BY <2>1
  <1>6. CASE Start(g) \/ GiveBack(g) \/ Leave(g) \/ Crash(g) \/ Forget(g)
    <2>1. CASE Start(g)
      <3>1. drain'[g].at = "started"
        BY <1>1, <2>1 DEF Start
      <3>. QED BY <3>1
    <2>2. CASE GiveBack(g)
      <3>1. drain'[g].at = "done"
        BY <1>1, <2>2 DEF GiveBack
      <3>. QED BY <3>1
    <2>3. CASE Leave(g)
      <3>1. drain'[g].at = "idle"
        BY <1>1, <2>3 DEF Leave
      <3>. QED BY <3>1
    <2>4. CASE Crash(g) \/ Forget(g)
      <3>1. drain'[g].at = "idle"
        BY <1>1, <2>4 DEF Crash, Forget, IdleDrain
      <3>. QED BY <3>1
    <2>. QED BY <1>6, <2>1, <2>2, <2>3, <2>4
  <1>7. CASE Abandon(g) \/ FinishRow(g) \/ FailRow(g) \/ DeadRow(g) \/ HaltRow(g) \/ Lose(g)
    <2>1. drain'[g].at = "done"
      BY <1>1, <1>7 DEF Abandon, FinishRow, FailRow, DeadRow, HaltRow, Lose, Settle, Move
    <2>. QED BY <2>1
  <1>8. CASE Reopen(g) \/ Normalize(g) \/ Prepare(g) \/ Offer(g) \/ NoSink(g)
    <2>1. /\ drain[g].at \notin {"idle", "unheard", "started", "done"}
          /\ \E p, R : Move(g, p, R)
      BY <1>8 DEF Reopen, Normalize, Prepare, Offer, NoSink, Working
    <2>2. drain'[g].row = drain[g].row
      BY <1>1, <2>1 DEF Move
    <2>. QED BY <2>1, <2>2 DEF LadderSound
  <1>9. CASE Shutdown(g) \/ Restart(g)
    BY <1>2, <1>9 DEF Shutdown, Restart
  <1>10. CASE DrainNext /\ ~StepOf(g)
    BY <1>2, <1>10, OthersLeave
  <1>11. CASE UNCHANGED drainVars
    BY <1>2, <1>11 DEF drainVars
  <1>. QED BY <1>4, <1>5, <1>6, <1>7, <1>8, <1>9, <1>10, <1>11 DEF StepOf, DrainStep

(* Package outbox's ladder, for every ladder and every history of halts,    *)
(* releases, takeovers and replays: "retries exhausted" is written with the *)
(* whole ladder used and nothing past it, and "abandoned" only past it.     *)
THEOREM LadderCorrect == DrainSpec => []LadderIsExact
  <1>1. DrainInit => LadderSound
    <2>. SUFFICES ASSUME DrainInit PROVE LadderSound
      OBVIOUS
    <2>1. \A r \in RowId : outbox[r] = AbsentRow(r)
      BY DEF DrainInit, Init
    <2>2. \A r \in RowId : outbox[r].state = "absent" /\ outbox[r].dead_reason = ""
      BY <2>1 DEF AbsentRow, NewRow
    <2>3. \A g \in Drains : drain[g].at = "idle"
      BY DEF DrainInit, IdleDrain
    <2>. QED BY <2>2, <2>3 DEF LadderSound, RowLadder, IsUnfinished, Unfinished
  <1>2. DrainInv /\ LadderSound /\ [DrainNext]_drainVars => LadderSound'
    BY LadderRowStep, LadderPlaceStep DEF LadderSound
  <1>3. LadderSound => LadderIsExact
    BY DEF LadderSound, RowLadder, LadderIsExact
  <1>. QED BY <1>1, <1>2, <1>3, DrainInductive, PTL DEF DrainSpec

-----------------------------------------------------------------------------
(* The ledger *)

(* A step other than a preparation neither creates a record nor loses one.  *)
LEMMA RecordsStay ==
    ASSUME DrainInv, [DrainNext]_drainVars,
           ~\E g \in Drains : Prepare(g) /\ ~UNCHANGED outboxVars,
           NEW r \in RowId, NEW x \in Records
    PROVE  (outbox_record'[r][x] = "none") <=> (outbox_record[r][x] = "none")
  <1>0. IInv
    BY DEF DrainInv
  <1>1. ASSUME NEW g \in Drains, FinishRow(g)
        PROVE  (outbox_record'[r][x] = "none") <=> (outbox_record[r][x] = "none")
    <2>1. PICK c : c = drain[g].row
      OBVIOUS
    <2>2. c \in claims
      BY <1>1, <2>1, RowIsClaim DEF FinishRow, Working, DrainInv
    <2>3. CASE MarkDelivered(c, drain[g].recs)
      <3>1. drain[g].recs \subseteq Waiting(c.row)
        BY <2>3 DEF MarkDelivered
      <3>2. CASE r = c.row
        <4>1. outbox_record'[r][x] = IF x \in drain[g].recs THEN "dead"
                  ELSE IF x \in Waiting(r) THEN "delivered" ELSE outbox_record[r][x]
          BY <1>0, <2>2, <2>3, <3>2, MarkDeliveredRows
        <4>. QED BY <3>1, <3>2, <4>1 DEF Waiting
      <3>3. CASE r # c.row
        BY <1>0, <2>2, <2>3, <3>3, MarkDeliveredRows
      <3>. QED BY <3>2, <3>3
    <2>. QED BY <1>1, <2>1, <2>3 DEF FinishRow, Settle, outboxVars
  <1>2. ASSUME NEW g \in Drains, StepOf(g), ~FinishRow(g)
        PROVE  outbox_record' = outbox_record
    BY <1>2, QuietStep DEF StepOf, DrainStep, ClaimBatch, Claim, Forget, GiveBack, Release, Leave,
       Drop, Abandon, MarkAbandoned, ParkDead, FailRow, Fail, Retry, DeadRow, MarkDead, HaltRow, Halt,
       Crash, Settle, outboxVars
  <1>3. ASSUME NEW u \in RowId, Replay(u)
        PROVE  (outbox_record'[r][x] = "none") <=> (outbox_record[r][x] = "none")
    <2>1. CASE r = u
      BY <1>0, <1>3, <2>1, ReplayRows
    <2>. QED BY <1>0, <1>3, <2>1, ReplayRows
  <1>4. CASE \/ \E u \in RowId : TimePasses(u)
             \/ \E t \in Tenants, d \in Deliveries, k \in OrderingKeys : Accept(t, d, k)
             \/ UNCHANGED drainVars
    BY <1>4 DEF TimePasses, Elapse, Accept, drainVars, outboxVars
  <1>. QED BY <1>1, <1>2, <1>3, <1>4 DEF DrainNext, StepOf, Others

(* Prepare writes the ledger and the records in one transaction, and no     *)
(* other step writes either.                                                *)
LEMMA LedgerStep ==
    ASSUME DrainTypeOK, DrainInv, LedgerIsStored, [DrainNext]_drainVars
    PROVE  LedgerIsStored'
  <1>1. CASE \E g \in Drains : Prepare(g) /\ ~UNCHANGED outboxVars
    <2>1. PICK g \in Drains : Prepare(g) /\ ~UNCHANGED outboxVars
      BY <1>1
    <2>2. PICK c : c = drain[g].row
      OBVIOUS
    <2>3. PICK R \in NewRecords(c.row[1], drain[g].recs) :
             /\ PrepareIn(c, R)
             /\ record_ledger' = [record_ledger EXCEPT ![c.row[1]] = @ \cup R]
      BY <2>1, <2>2 DEF Prepare
    <2>4. c \in claims /\ drain[g].recs \subseteq Records
      BY <2>1, <2>2, RowIsClaim DEF Prepare, Working, DrainInv, DrainOwns
    <2>5. R \in SUBSET Records /\ R \cap record_ledger[c.row[1]] = {}
      BY <2>4 DEF NewRecords
    <2>6. /\ Held(c) /\ \A x \in Records : outbox_record[c.row][x] = "none"
          /\ \A x \in Records : outbox_record'[c.row][x] = IF x \in R THEN "prepared" ELSE "none"
          /\ \A u \in RowId \ {c.row} : outbox_record'[u] = outbox_record[u]
      BY <2>3, <2>4, <2>5, PrepareRows DEF DrainInv
    <2>7. c.row \in RowId /\ c.row[1] \in Tenants
      <3>1. c.row \in RowId /\ IsUnfinished(c.row)
        BY <2>4, <2>6, HeldFacts DEF Held, DrainInv
      <3>. QED BY <3>1 DEF DrainInv, IInv, RowConsistent, RowId
    <2>8. \A t \in Tenants : record_ledger'[t] =
             IF t = c.row[1] THEN record_ledger[t] \cup R ELSE record_ledger[t]
      BY <2>3, <2>7 DEF DrainTypeOK
    <2>9. \A r \in RowId, x \in Records : outbox_record'[r][x] # "none" <=>
             outbox_record[r][x] # "none" \/ (r = c.row /\ x \in R)
      BY <2>6
    <2>10. \A t \in Tenants : record_ledger'[t] =
              {x \in Records : \E r \in RowId : r[1] = t /\ outbox_record'[r][x] # "none"}
      <3>. TAKE t \in Tenants
      <3>1. record_ledger[t] =
              {x \in Records : \E r \in RowId : r[1] = t /\ outbox_record[r][x] # "none"}
        BY DEF LedgerIsStored
      <3>2. record_ledger'[t] \subseteq Records
        BY <2>5, <2>8, <3>1
      <3>3. ASSUME NEW x \in Records
            PROVE  x \in record_ledger'[t] <=>
                      \E r \in RowId : r[1] = t /\ outbox_record'[r][x] # "none"
        <4>1. x \in record_ledger[t] <=>
                 \E r \in RowId : r[1] = t /\ outbox_record[r][x] # "none"
          BY <3>1
        <4>2. x \in record_ledger'[t] <=> x \in record_ledger[t] \/ (t = c.row[1] /\ x \in R)
          BY <2>8
        <4>. QED BY <2>7, <2>9, <4>1, <4>2
      <3>. QED BY <3>2, <3>3
    <2>11. ASSUME NEW r \in RowId, NEW s \in RowId, NEW x \in Records, r[1] = s[1],
                  outbox_record'[r][x] # "none", outbox_record'[s][x] # "none"
           PROVE  r = s
      <3>1. \A u \in RowId : u[1] = c.row[1] /\ outbox_record[u][x] # "none"
                                => x \in record_ledger[c.row[1]]
        BY <2>7 DEF LedgerIsStored
      <3>. QED BY <2>5, <2>9, <2>11, <3>1 DEF LedgerIsStored
    <2>. QED BY <2>10, <2>11 DEF LedgerIsStored
  <1>2. CASE ~\E g \in Drains : Prepare(g) /\ ~UNCHANGED outboxVars
    <2>1. record_ledger' = record_ledger
      <3>1. ASSUME NEW g \in Drains, Prepare(g) PROVE record_ledger' = record_ledger
        <4>1. PICK c : c = drain[g].row
          OBVIOUS
        <4>2. c \in claims /\ drain[g].recs \subseteq Records
          BY <3>1, <4>1, RowIsClaim DEF Prepare, Working, DrainInv, DrainOwns
        <4>3. ASSUME NEW R \in SUBSET Records, PrepareIn(c, R) PROVE FALSE
          <5>1. outbox[c.row].state # outbox'[c.row].state
            BY <4>2, <4>3, PrepareRows DEF DrainInv
          <5>. QED BY <1>2, <3>1, <5>1 DEF outboxVars
        <4>. QED BY <3>1, <4>1, <4>2, <4>3 DEF Prepare, NewRecords, outside
      <3>2. ASSUME NEW g \in Drains, StepOf(g), ~Prepare(g) PROVE record_ledger' = record_ledger
        BY <3>2 DEF StepOf, DrainStep, ClaimBatch, Forget, Start, GiveBack, Leave, Abandon,
           ReadWork, Reopen, Normalize, Offer, FinishRow, FailRow, DeadRow, HaltRow, NoSink, Lose, Crash,
           Shutdown, Restart, Settle, outside
      <3>. QED BY <3>1, <3>2 DEF DrainNext, StepOf, TimePasses, Others, outside, drainVars
    <2>2. \A r \in RowId, x \in Records :
             (outbox_record'[r][x] = "none") <=> (outbox_record[r][x] = "none")
      BY <1>2, RecordsStay
    <2>. QED BY <2>1, <2>2 DEF LedgerIsStored
  <1>. QED BY <1>1, <1>2

(* The ledger and the outbox agree: a record is in the ledger exactly when  *)
(* one delivery has it stored to be sent, or has sent it.                   *)
THEOREM LedgerCorrect == DrainSpec => []LedgerIsStored
  <1>1. DrainInit => LedgerIsStored
    BY DEF DrainInit, Init, LedgerIsStored
  <1>2. DrainTypeOK /\ DrainInv /\ LedgerIsStored /\ [DrainNext]_drainVars => LedgerIsStored'
    BY LedgerStep
  <1>. QED BY <1>1, <1>2, DrainInductive, DrainTypeCorrect, PTL DEF DrainSpec

-----------------------------------------------------------------------------
(* The sink *)

(* What the sink took it has.                                               *)
LEMMA Monotone ==
    ASSUME DrainTypeOK, [DrainNext]_drainVars
    PROVE  \A t \in Tenants : sink[t] \subseteq sink'[t]
  <1>0. sink \in [Tenants -> SUBSET Records]
    BY DEF DrainTypeOK
  <1>1. ASSUME NEW g \in Drains, Offer(g)
        PROVE  \A t \in Tenants : sink[t] \subseteq sink'[t]
    <2>1. PICK taken : sink' = [sink EXCEPT ![drain[g].row.row[1]] = @ \cup taken]
      BY <1>1 DEF Offer
    <2>. QED BY <1>0, <2>1
  <1>2. ASSUME NEW g \in Drains, StepOf(g), ~Offer(g)
        PROVE  sink' = sink
    BY <1>2 DEF StepOf, DrainStep, ClaimBatch, Forget, Start, GiveBack, Leave, Abandon, ReadWork,
       Reopen, Normalize, Prepare, FinishRow, FailRow, DeadRow, HaltRow, NoSink, Lose, Crash,
       Shutdown, Restart, Settle, outside
  <1>3. CASE (\E r \in RowId : TimePasses(r)) \/ Others \/ UNCHANGED drainVars
    BY <1>3 DEF TimePasses, Others, drainVars, outside
  <1>. QED BY <1>1, <1>2, <1>3 DEF DrainNext, StepOf

(* A claim goes into the batch of its goroutine, whether the goroutine      *)
(* hears of it or not, and what was left of the rows it took is found gone. *)
LEMMA ClaimedBatch ==
    ASSUME DrainInv, NEW g \in Drains, ClaimBatch(g)
    PROVE  /\ HeldBy(g) = {}
           /\ drain'[g].at \in {"idle", "unheard"} /\ drain'[g].row = NoClaim
           /\ HeldBy(g)' = claims' \ claims
           /\ \A h \in Drains \ {g} : drain'[h] = drain[h]
           /\ \E S \in SUBSET RowId, tok \in Tokens :
                 /\ Claim(S, tok)
                 /\ left' = {c \in left : c.row \notin S /\ Held(c)}
  <1>0. /\ drain \in [Drains -> [at : Places, batch : SUBSET claims,
                                 row : claims \cup {NoClaim}, recs : SUBSET Records]]
        /\ drain[g] = IdleDrain
    BY DEF ClaimBatch, DrainInv, DrainOwns
  <1>1. /\ drain[g].at = "idle" /\ drain[g].row = NoClaim /\ HeldBy(g) = {}
    BY <1>0 DEF IdleDrain, HeldBy
  <1>2. /\ drain'[g].at \in {"idle", "unheard"} /\ drain'[g].row = NoClaim
        /\ drain'[g].batch = claims' \ claims
        /\ \A h \in Drains \ {g} : drain'[h] = drain[h]
    <2>1. CASE drain' = [drain EXCEPT ![g].batch = claims' \ claims]
      BY <1>0, <1>1, <2>1
    <2>2. CASE drain' = [drain EXCEPT ![g].batch = claims' \ claims, ![g].at = "unheard"]
      BY <1>0, <1>1, <2>2
    <2>. QED BY <2>1, <2>2 DEF ClaimBatch
  <1>3. HeldBy(g)' = claims' \ claims
    BY <1>2 DEF HeldBy
  <1>. QED BY <1>1, <1>2, <1>3 DEF ClaimBatch

(* Only a later claim forgets what was left behind.                         *)
LEMMA LeftGrows ==
    ASSUME [DrainNext]_drainVars, ~\E g \in Drains : ClaimBatch(g)
    PROVE  left \subseteq left'
  <1>1. ASSUME NEW g \in Drains, \/ Start(g) \/ Leave(g) \/ Abandon(g) \/ ReadWork(g) \/ Reopen(g)
                                 \/ Normalize(g) \/ Prepare(g) \/ FinishRow(g) \/ FailRow(g)
                                 \/ DeadRow(g) \/ HaltRow(g)
        PROVE  left' = left
    BY <1>1 DEF Start, Leave, Abandon, ReadWork, Reopen, Normalize, Prepare, FinishRow, FailRow,
       DeadRow, HaltRow, control
  <1>2. ASSUME NEW g \in Drains, Offer(g) \/ NoSink(g) \/ Shutdown(g) \/ Restart(g)
        PROVE  left' = left
    BY <1>2 DEF Offer, NoSink, Shutdown, Restart, CountHalt
  <1>3. ASSUME NEW g \in Drains, Forget(g) \/ GiveBack(g) \/ Lose(g) \/ Crash(g)
        PROVE  left \subseteq left'
    BY <1>3 DEF Forget, GiveBack, Lose, Crash, LeaveBehind
  <1>4. CASE (\E r \in RowId : TimePasses(r)) \/ Others \/ UNCHANGED drainVars
    BY <1>4 DEF TimePasses, Others, drainVars, control
  <1>. QED BY <1>1, <1>2, <1>3, <1>4 DEF DrainNext, DrainStep

(* What was left behind stays so while it has its lease: a claim that takes *)
(* the row over has another token.                                          *)
LEMMA LeftStays ==
    ASSUME DrainInv, [DrainNext]_drainVars, NEW c \in left, c \in claims, Held(c)'
    PROVE  c \in left'
  <1>1. CASE ~\E g \in Drains : ClaimBatch(g)
    BY <1>1, LeftGrows
  <1>2. ASSUME NEW g \in Drains, ClaimBatch(g)
        PROVE  c \in left'
    <2>0. IInv /\ c.row \in RowId
      BY HeldFacts DEF DrainInv
    <2>1. PICK S \in SUBSET RowId, tok \in Tokens :
             Claim(S, tok) /\ left' = {d \in left : d.row \notin S /\ Held(d)}
      BY <1>2, ClaimedBatch
    <2>a. /\ \A v \in S : outbox'[v].lease_token = tok
          /\ \A u \in RowId \ S : outbox'[u] = outbox[u]
          /\ c.token # tok
      BY <2>0, <2>1, ClaimRows
    <2>2. c.row \notin S
      BY <2>a DEF Held
    <2>3. outbox'[c.row] = outbox[c.row]
      BY <2>0, <2>2, <2>a
    <2>4. Held(c)
      BY <2>3 DEF Held, IsUnfinished
    <2>. QED BY <2>1, <2>2, <2>4
  <1>. QED BY <1>1, <1>2

(* What a goroutine knows at each place of workRow, while it holds its      *)
(* lease: the row has not been prepared behind its back, what it offers is  *)
(* what waits, what was not refused is at the sink, and it is done with a   *)
(* row it still holds only where the row was left behind.                   *)
WorkSound(g) ==
    \A c \in claims : drain[g].row = c /\ Held(c) =>
        /\ drain[g].at \in {"normalize", "normalized"} => outbox[c.row].state = "pending"
        /\ drain[g].at = "deliver" => drain[g].recs = Waiting(c.row)
        /\ drain[g].at = "answered" =>
              /\ drain[g].recs \subseteq Waiting(c.row)
              /\ Waiting(c.row) \ drain[g].recs \subseteq sink[c.row[1]]
        /\ drain[g].at = "done" => c \in left

AllWorkSound == \A g \in Drains : WorkSound(g)

(* Every outcome clears the lease.                                          *)
LEMMA OutcomeLetsGo ==
    ASSUME IInv, NEW c \in claims,
           \/ Release(c) \/ Halt(c) \/ Fail(c) \/ MarkDead(c) \/ MarkAbandoned(c)
           \/ \E refused : MarkDelivered(c, refused)
    PROVE  ~Held(c)'
  <1>1. c.token # NoToken
    BY HeldFacts, TokenAssumption
  <1>2. outbox'[c.row].lease_token = NoToken
    <2>1. CASE Release(c) \/ Halt(c) \/ Retry(c)
      BY <2>1, GivenUpRows DEF GivenUp
    <2>2. CASE \E why, err : ParkDead(c, why, err)
      BY <2>2, ParkDeadRows DEF Ended
    <2>3. CASE \E refused : MarkDelivered(c, refused)
      BY <2>3, MarkDeliveredRows DEF Ended
    <2>. QED BY <2>1, <2>2, <2>3 DEF Fail, MarkDead, MarkAbandoned
  <1>. QED BY <1>1, <1>2 DEF Held

(* A row that is worked under a lease belongs to a tenant.                  *)
LEMMA HeldTenant ==
    ASSUME IInv, NEW c \in claims, Held(c)
    PROVE  c.row \in RowId /\ c.row[1] \in Tenants
  <1>1. c.row \in RowId /\ IsUnfinished(c.row)
    BY HeldFacts DEF Held
  <1>. QED BY <1>1 DEF IInv, RowConsistent, RowId

(* A step of the goroutine itself leads to what it knows at the next place. *)
LEMMA OwnWorkStep ==
    ASSUME DrainTypeOK, DrainInv, NEW g \in Drains, WorkSound(g), StepOf(g)
    PROVE  WorkSound(g)'
  <1>. SUFFICES ASSUME NEW c \in claims', drain'[g].row = c, Held(c)'
                PROVE  /\ drain'[g].at \in {"normalize", "normalized"} => outbox'[c.row].state = "pending"
                       /\ drain'[g].at = "deliver" => drain'[g].recs = Waiting(c.row)'
                       /\ drain'[g].at = "answered" =>
                             /\ drain'[g].recs \subseteq Waiting(c.row)'
                             /\ Waiting(c.row)' \ drain'[g].recs \subseteq sink'[c.row[1]]
                       /\ drain'[g].at = "done" => c \in left'
    BY DEF WorkSound
  <1>0. /\ drain \in [Drains -> [at : Places, batch : SUBSET claims,
                                 row : claims \cup {NoClaim}, recs : SUBSET Records]]
        /\ IInv /\ c # NoClaim
    <2>1. DrainInv'
      BY DrainStepInv DEF DrainNext, StepOf
    <2>. QED BY <2>1, DrainAssumption DEF DrainInv, DrainOwns, IInv, TypeOK
  <1>1. ASSUME drain'[g].at \notin {"normalize", "normalized", "deliver", "answered", "done"}
        PROVE  /\ drain'[g].at \in {"normalize", "normalized"} => outbox'[c.row].state = "pending"
               /\ drain'[g].at = "deliver" => drain'[g].recs = Waiting(c.row)'
               /\ drain'[g].at = "answered" =>
                     /\ drain'[g].recs \subseteq Waiting(c.row)'
                     /\ Waiting(c.row)' \ drain'[g].recs \subseteq sink'[c.row[1]]
               /\ drain'[g].at = "done" => c \in left'
    BY <1>1
  <1>2. ASSUME NEW p, NEW R, Move(g, p, R)
        PROVE  /\ drain'[g].at = p /\ drain'[g].recs = R /\ drain[g].row = c /\ c \in claims
    <2>1. drain'[g].at = p /\ drain'[g].recs = R /\ drain'[g].row = drain[g].row
      BY <1>0, <1>2 DEF Move
    <2>. QED BY <1>0, <2>1
  <1>3. CASE ReadWork(g)
    <2>1. /\ Move(g, NextStage(outbox[drain[g].row.row]), {}) /\ outbox' = outbox
      BY <1>3 DEF ReadWork, outboxVars
    <2>2. drain'[g].at = NextStage(outbox[c.row])
      BY <1>2, <2>1
    <2>. QED BY <2>1, <2>2 DEF NextStage
  <1>4. CASE Reopen(g)
    <2>1. /\ Move(g, "deliver", Waiting(drain[g].row.row)) /\ outbox_record' = outbox_record
      BY <1>4 DEF Reopen, outboxVars
    <2>2. drain'[g].at = "deliver" /\ drain'[g].recs = Waiting(c.row)
      BY <1>2, <2>1
    <2>. QED BY <2>1, <2>2 DEF Waiting
  <1>5. CASE Normalize(g)
    <2>1. /\ drain[g].at = "normalize" /\ UNCHANGED outboxVars
          /\ \E N : Move(g, "normalized", N)
      BY <1>5 DEF Normalize, Working
    <2>2. drain'[g].at = "normalized" /\ drain[g].row = c /\ c \in claims
      BY <1>2, <2>1
    <2>3. Held(c) /\ outbox'[c.row] = outbox[c.row]
      BY <2>1 DEF Held, IsUnfinished, outboxVars
    <2>. QED BY <2>1, <2>2, <2>3 DEF WorkSound
  <1>6. CASE Prepare(g)
    <2>1. CASE \E R \in NewRecords(drain[g].row.row[1], drain[g].recs) :
                  PrepareIn(drain[g].row, R) /\ Move(g, "deliver", R)
      <3>1. PICK R \in SUBSET Records : PrepareIn(c, R) /\ Move(g, "deliver", R)
        BY <1>0, <1>2, <2>1 DEF NewRecords
      <3>2. drain'[g].at = "deliver" /\ drain'[g].recs = R /\ c \in claims
        BY <1>2, <3>1
      <3>3. \A x \in Records : outbox_record'[c.row][x] = IF x \in R THEN "prepared" ELSE "none"
        BY <1>0, <3>1, <3>2, PrepareRows
      <3>4. Waiting(c.row)' = R
        BY <3>3 DEF Waiting
      <3>. QED BY <3>2, <3>4
    <2>2. CASE /\ ~(Held(drain[g].row) /\ outbox[drain[g].row.row].state = "pending")
               /\ UNCHANGED outboxVars /\ Move(g, "done", {})
      <3>1. drain[g].row = c /\ c \in claims
        BY <1>2, <2>2
      <3>2. Held(c)
        BY <2>2 DEF Held, IsUnfinished, outboxVars
      <3>3. outbox[c.row].state = "pending"
        BY <1>6, <3>1, <3>2 DEF Prepare, Working, WorkSound
      <3>. QED BY <2>2, <3>1, <3>2, <3>3
    <2>3. CASE Move(g, "retry", {})
      BY <1>1, <1>2, <2>3
    <2>. QED BY <1>6, <2>1, <2>2, <2>3 DEF Prepare
  <1>7. CASE Offer(g)
    <2>1. PICK taken \in SUBSET drain[g].recs :
             /\ sink' = [sink EXCEPT ![drain[g].row.row[1]] = @ \cup taken]
             /\ \/ Move(g, "answered", Refused(drain[g].recs, taken))
                \/ Move(g, "retry", {}) \/ Move(g, "halt", {})
      BY <1>7 DEF Offer
    <2>2. drain[g].at = "deliver" /\ UNCHANGED outboxVars
      BY <1>7 DEF Offer, Working
    <2>3. CASE Move(g, "answered", Refused(drain[g].recs, taken))
      <3>1. /\ drain'[g].at = "answered" /\ drain'[g].recs = drain[g].recs \ taken
            /\ drain[g].row = c /\ c \in claims
        BY <1>2, <2>3 DEF Refused
      <3>2. Held(c) /\ Waiting(c.row)' = Waiting(c.row)
        BY <2>2 DEF Held, IsUnfinished, Waiting, outboxVars
      <3>3. drain[g].recs = Waiting(c.row)
        BY <2>2, <3>1, <3>2 DEF WorkSound
      <3>4. taken \subseteq sink'[c.row[1]]
        BY <1>0, <2>1, <3>1, <3>2, HeldTenant DEF DrainTypeOK
      <3>. QED BY <3>1, <3>2, <3>3, <3>4
    <2>4. CASE Move(g, "retry", {}) \/ Move(g, "halt", {})
      BY <1>1, <1>2, <2>4
    <2>. QED BY <2>1, <2>3, <2>4
  <1>8. CASE Abandon(g) \/ FinishRow(g) \/ FailRow(g) \/ DeadRow(g) \/ HaltRow(g)
    <2>1. Move(g, "done", {})
      BY <1>8 DEF Abandon, FinishRow, FailRow, DeadRow, HaltRow, Settle
    <2>2. drain[g].row = c /\ c \in claims
      BY <1>2, <2>1
    <2>3. CASE FinishRow(g) /\ ~MarkDelivered(c, drain[g].recs)
      <3>1. ~(Held(c) /\ drain[g].recs \subseteq Waiting(c.row)) /\ UNCHANGED outboxVars
        BY <2>2, <2>3 DEF FinishRow, Settle
      <3>2. Held(c)
        BY <3>1 DEF Held, IsUnfinished, outboxVars
      <3>3. drain[g].at = "answered" \/ (drain[g].at = "deliver" /\ drain[g].recs = {})
        BY <2>3 DEF FinishRow, Working
      <3>. QED BY <2>2, <3>1, <3>2, <3>3 DEF WorkSound
    <2>4. CASE /\ ~FinishRow(g)
               /\ ~(Fail(c) \/ MarkDead(c) \/ MarkAbandoned(c) \/ Halt(c))
      <3>1. ~Held(c) /\ UNCHANGED outboxVars
        BY <1>8, <2>2, <2>4 DEF Abandon, FailRow, DeadRow, HaltRow, Settle
      <3>. QED BY <3>1 DEF Held, IsUnfinished, outboxVars
    <2>. QED BY <1>0, <2>2, <2>3, <2>4, OutcomeLetsGo
  <1>9. CASE GiveBack(g)
    <2>1. PICK d \in drain[g].batch :
             /\ \/ Held(d) /\ Release(d)
                \/ ~Held(d) /\ UNCHANGED outboxVars
                \/ d \in left'
             /\ drain' = [drain EXCEPT ![g].at = "done", ![g].row = d, ![g].batch = @ \ {d}]
      BY <1>9 DEF GiveBack
    <2>2. d = c /\ c \in claims /\ drain'[g].at = "done"
      BY <1>0, <2>1
    <2>3. ~(~Held(c) /\ UNCHANGED outboxVars)
      BY DEF Held, IsUnfinished, outboxVars
    <2>4. ~(Held(c) /\ Release(c))
      BY <1>0, <2>2, OutcomeLetsGo
    <2>5. c \in left'
      BY <2>1, <2>2, <2>3, <2>4
    <2>. QED BY <2>2, <2>5
  <1>10. CASE Lose(g)
    <2>1. Move(g, "done", {}) /\ left' = left \cup {drain[g].row}
      BY <1>10 DEF Lose, LeaveBehind
    <2>2. drain'[g].at = "done" /\ c \in left'
      BY <1>2, <2>1
    <2>. QED BY <2>2
  <1>11. CASE NoSink(g)
    BY <1>1, <1>2, <1>11 DEF NoSink
  <1>12. CASE ClaimBatch(g)
    <2>1. drain'[g].row = NoClaim
      BY <1>12, ClaimedBatch
    <2>. QED BY <1>0, <2>1
  <1>13. CASE Start(g)
    <2>1. drain'[g].at = "started"
      BY <1>0, <1>13 DEF Start
    <2>. QED BY <1>1, <2>1
  <1>14. CASE Leave(g) \/ Crash(g) \/ Forget(g)
    <2>1. drain'[g].row = NoClaim
      BY <1>0, <1>14 DEF Leave, Crash, Forget, IdleDrain
    <2>. QED BY <1>0, <2>1
  <1>15. CASE Shutdown(g) \/ Restart(g)
    <2>1. drain' = drain /\ UNCHANGED outboxVars /\ sink' = sink /\ left' = left
      BY <1>15 DEF Shutdown, Restart, CountHalt, outside
    <2>2. c \in claims /\ drain[g].row = c /\ Held(c) /\ Waiting(c.row)' = Waiting(c.row)
      BY <1>0, <2>1 DEF Held, IsUnfinished, Waiting, outboxVars
    <2>. QED BY <2>1, <2>2 DEF WorkSound, outboxVars
  <1>. QED BY <1>3, <1>4, <1>5, <1>6, <1>7, <1>8, <1>9, <1>10, <1>11, <1>12, <1>13, <1>14, <1>15
           DEF StepOf, DrainStep

(* Whatever the others do, a goroutine that still holds its lease finds the *)
(* row, the records and the sink as it left them.                           *)
LEMMA WorkStep ==
    ASSUME DrainTypeOK, DrainInv, AllWorkSound, [DrainNext]_drainVars
    PROVE  AllWorkSound'
  <1>. SUFFICES ASSUME NEW g \in Drains PROVE WorkSound(g)'
    BY DEF AllWorkSound
  <1>1. WorkSound(g)
    BY DEF AllWorkSound
  <1>2. CASE StepOf(g)
    BY <1>1, <1>2, OwnWorkStep
  <1>3. CASE DrainNext /\ ~StepOf(g)
    <2>. SUFFICES ASSUME NEW c \in claims', drain'[g].row = c, Held(c)'
                  PROVE  /\ drain'[g].at \in {"normalize", "normalized"} => outbox'[c.row].state = "pending"
                         /\ drain'[g].at = "deliver" => drain'[g].recs = Waiting(c.row)'
                         /\ drain'[g].at = "answered" =>
                               /\ drain'[g].recs \subseteq Waiting(c.row)'
                               /\ Waiting(c.row)' \ drain'[g].recs \subseteq sink'[c.row[1]]
                         /\ drain'[g].at = "done" => c \in left'
      BY DEF WorkSound
    <2>1. drain'[g] = drain[g]
      BY <1>3, OthersLeave
    <2>2. c # NoClaim
      <3>1. DrainInv'
        BY DrainStepInv
      <3>. QED BY <3>1, DrainAssumption DEF DrainInv, IInv, TypeOK
    <2>3. c \in HeldBy(g)
      BY <2>1, <2>2 DEF HeldBy
    <2>4. c \in claims /\ Held(c) /\ Undisturbed(c.row)
      BY <1>3, <2>3, OthersAreAloof, Aloof DEF DrainInv
    <2>5. outbox'[c.row].state = outbox[c.row].state /\ Waiting(c.row)' = Waiting(c.row)
      BY <2>4 DEF Undisturbed, Alike, Waiting
    <2>6. c.row[1] \in Tenants
      BY <2>4, HeldTenant DEF DrainInv
    <2>7. sink[c.row[1]] \subseteq sink'[c.row[1]]
      BY <2>6, Monotone
    <2>8. c \in left => c \in left'
      BY <2>4, LeftStays
    <2>. QED BY <1>1, <2>1, <2>4, <2>5, <2>7, <2>8 DEF WorkSound
  <1>4. CASE UNCHANGED drainVars
    BY <1>1, <1>4 DEF drainVars, outboxVars, outside, control, WorkSound, Held, IsUnfinished, Waiting
  <1>. QED BY <1>2, <1>3, <1>4

(* A parked delivery has no records: nobody ever works it.                  *)
ParkedIsEmpty ==
    \A r \in RowId : r[1] = Sentinel => \A x \in Records : outbox_record[r][x] = "none"

(* Only a row under a lease is prepared, and no parked one ever is.         *)
LEMMA ParkedStep ==
    ASSUME DrainInv, ParkedIsEmpty, [DrainNext]_drainVars
    PROVE  ParkedIsEmpty'
  <1>. SUFFICES ASSUME NEW r \in RowId, r[1] = Sentinel, NEW x \in Records
                PROVE  outbox_record'[r][x] = "none"
    BY DEF ParkedIsEmpty
  <1>1. ASSUME NEW g \in Drains, Prepare(g) PROVE outbox_record'[r][x] = "none"
    <2>1. PICK c : c = drain[g].row
      OBVIOUS
    <2>2. c \in claims /\ drain[g].recs \subseteq Records
      BY <1>1, <2>1, RowIsClaim DEF Prepare, Working, DrainInv, DrainOwns
    <2>3. ASSUME NEW R \in SUBSET Records, PrepareIn(c, R)
          PROVE  outbox_record'[r] = outbox_record[r]
      <3>1. Held(c) /\ \A u \in RowId \ {c.row} : outbox_record'[u] = outbox_record[u]
        BY <2>2, <2>3, PrepareRows DEF DrainInv
      <3>. QED BY <2>2, <3>1, HeldTenant, SentinelAssumption DEF DrainInv
    <2>. QED BY <1>1, <2>1, <2>2, <2>3 DEF Prepare, NewRecords, outboxVars, ParkedIsEmpty
  <1>2. CASE ~\E g \in Drains : Prepare(g)
    BY <1>2, RecordsStay DEF ParkedIsEmpty
  <1>. QED BY <1>1, <1>2

(* Only the outcome that FinishRow records makes a record delivered.        *)
LEMMA DeliveredStep ==
    ASSUME DrainTypeOK, DrainInv, AllWorkSound, ParkedIsEmpty, DeliveredIsAtSink,
           [DrainNext]_drainVars
    PROVE  DeliveredIsAtSink'
  <1>. SUFFICES ASSUME NEW r \in RowId, NEW x \in Records, outbox_record'[r][x] = "delivered"
                PROVE  x \in sink'[r[1]]
    BY DEF DeliveredIsAtSink
  <1>0. IInv /\ r[1] \in Tenants
    <2>1. ParkedIsEmpty'
      BY ParkedStep
    <2>. QED BY <2>1 DEF DrainInv, ParkedIsEmpty, RowId
  <1>1. CASE outbox_record[r][x] = "delivered"
    BY <1>0, <1>1, Monotone DEF DeliveredIsAtSink
  <1>2. ASSUME NEW g \in Drains, FinishRow(g), outbox_record[r][x] # "delivered"
        PROVE  x \in sink'[r[1]]
    <2>1. PICK c : c = drain[g].row
      OBVIOUS
    <2>2. c \in claims
      BY <1>2, <2>1, RowIsClaim DEF FinishRow, Working, DrainInv
    <2>3. MarkDelivered(c, drain[g].recs) /\ sink' = sink
      BY <1>2, <2>1 DEF FinishRow, Settle, outboxVars, outside
    <2>4. /\ Held(c)
          /\ r # c.row => outbox_record'[r] = outbox_record[r]
          /\ outbox_record'[c.row][x] = IF x \in drain[g].recs THEN "dead"
                ELSE IF x \in Waiting(c.row) THEN "delivered" ELSE outbox_record[c.row][x]
      BY <1>0, <2>2, <2>3, MarkDeliveredRows
    <2>5. r = c.row /\ x \in Waiting(c.row) \ drain[g].recs
      BY <1>2, <2>4
    <2>6. drain[g].at = "answered" \/ (drain[g].at = "deliver" /\ drain[g].recs = {})
      BY <1>2 DEF FinishRow, Working
    <2>7. WorkSound(g)
      BY DEF AllWorkSound
    <2>. QED BY <2>1, <2>2, <2>3, <2>4, <2>5, <2>6, <2>7 DEF WorkSound
  <1>3. ASSUME NEW g \in Drains, Prepare(g), outbox_record[r][x] # "delivered"
        PROVE  FALSE
    <2>1. PICK c : c = drain[g].row
      OBVIOUS
    <2>2. c \in claims /\ drain[g].recs \subseteq Records
      BY <1>3, <2>1, RowIsClaim DEF Prepare, Working, DrainInv, DrainOwns
    <2>3. PICK R \in SUBSET Records : PrepareIn(c, R)
      BY <1>3, <2>1, <2>2 DEF Prepare, NewRecords, outboxVars
    <2>4. /\ r # c.row => outbox_record'[r] = outbox_record[r]
          /\ outbox_record'[c.row][x] = IF x \in R THEN "prepared" ELSE "none"
      BY <1>0, <2>2, <2>3, PrepareRows
    <2>. QED BY <1>3, <2>4
  <1>4. ASSUME NEW g \in Drains, StepOf(g), ~FinishRow(g), ~Prepare(g)
        PROVE  outbox_record' = outbox_record
    BY <1>4, QuietStep DEF StepOf, DrainStep, ClaimBatch, Claim, Forget, GiveBack, Release, Leave,
       Drop, Abandon, MarkAbandoned, ParkDead, FailRow, Fail, Retry, DeadRow, MarkDead, HaltRow, Halt,
       Crash, Settle, outboxVars
  <1>5. ASSUME NEW u \in RowId, Replay(u), outbox_record[r][x] # "delivered"
        PROVE  FALSE
    <2>1. CASE r = u
      BY <1>0, <1>5, <2>1, ReplayRows
    <2>. QED BY <1>0, <1>5, <2>1, ReplayRows
  <1>6. CASE \/ \E u \in RowId : TimePasses(u)
             \/ \E t \in Tenants, d \in Deliveries, k \in OrderingKeys : Accept(t, d, k)
             \/ UNCHANGED drainVars
    BY <1>1, <1>6 DEF TimePasses, Elapse, Accept, drainVars, outboxVars
  <1>. QED BY <1>1, <1>2, <1>3, <1>4, <1>5, <1>6 DEF DrainNext, StepOf, Others

(* What each goroutine knows, in every behaviour.                           *)
LEMMA WorkInductive == DrainSpec => []AllWorkSound
  <1>1. DrainInit => AllWorkSound
    BY DEF DrainInit, Init, AllWorkSound, WorkSound
  <1>2. DrainTypeOK /\ DrainInv /\ AllWorkSound /\ [DrainNext]_drainVars => AllWorkSound'
    BY WorkStep
  <1>. QED BY <1>1, <1>2, DrainInductive, DrainTypeCorrect, PTL DEF DrainSpec

(* The outbox never says of a record that it was delivered when the sink    *)
(* has not taken it: not after a late answer, a takeover, a partial refusal,*)
(* a replay or a crash.                                                     *)
THEOREM DeliveredAtSink == DrainSpec => []DeliveredIsAtSink
  <1>1. DrainInit => DeliveredIsAtSink /\ ParkedIsEmpty
    BY DEF DrainInit, Init, DeliveredIsAtSink, ParkedIsEmpty
  <1>2. DrainTypeOK /\ DrainInv /\ AllWorkSound /\ ParkedIsEmpty /\ DeliveredIsAtSink
           /\ [DrainNext]_drainVars => DeliveredIsAtSink' /\ ParkedIsEmpty'
    BY DeliveredStep, ParkedStep
  <1>. QED BY <1>1, <1>2, WorkInductive, DrainInductive, DrainTypeCorrect, PTL DEF DrainSpec

-----------------------------------------------------------------------------
(* The leases *)

(* A step of a goroutine other than a claim grants no lease.                *)
LEMMA GrantsNoLease ==
    ASSUME DrainInv, [DrainNext]_drainVars, ~\E g \in Drains : ClaimBatch(g), NEW r \in RowId
    PROVE  outbox'[r].lease_token \in {NoToken, outbox[r].lease_token}
  <1>1. CASE UNCHANGED vars
    BY <1>1 DEF vars
  <1>2. claims' \subseteq claims
    BY DEF DrainNext, DrainStep, StepOf, Forget, Start, GiveBack, Release, Leave, Drop, Abandon,
       ReadWork, Reopen, Normalize, Prepare, PrepareIn, Offer, FinishRow, FailRow, DeadRow,
       HaltRow, NoSink, Lose, Crash, Shutdown, Restart, TimePasses, Elapse, Others, Accept,
       Replay, Settle, MarkAbandoned, MarkDelivered, MarkDead, ParkDead, Fail, Retry, Halt,
       outboxVars, drainVars
  <1>3. ~\E S \in SUBSET RowId, tok \in Tokens : Claim(S, tok)
    <2>. SUFFICES ASSUME NEW S \in SUBSET RowId, NEW tok \in Tokens, Claim(S, tok) PROVE FALSE
      OBVIOUS
    <2>1. PICK r0 \in S : TRUE
      BY DEF Claim
    <2>2. claims' \ claims # {}
      BY <2>1, ClaimRows DEF DrainInv
    <2>. QED BY <1>2, <2>2
  <1>4. [Next]_vars
    BY DrainStepInv
  <1>. QED BY <1>1, <1>3, <1>4, OnlyClaimLeases DEF DrainInv

(* The holder of a lease keeps it in memory until it has let go of the row, *)
(* or has left it behind.                                                   *)
LEMMA HolderStays ==
    ASSUME DrainInv, AllWorkSound, [DrainNext]_drainVars, ~\E h \in Drains : ClaimBatch(h),
           NEW g \in Drains, NEW c \in HeldBy(g), Held(c)
    PROVE  c \in HeldBy(g)' \/ c \in left'
  <1>0. /\ drain \in [Drains -> [at : Places, batch : SUBSET claims,
                                 row : claims \cup {NoClaim}, recs : SUBSET Records]]
        /\ c \in claims /\ c # NoClaim
    BY NoClaimIsNone DEF DrainInv, DrainOwns, HeldBy
  <1>1. CASE drain'[g] = drain[g]
    BY <1>1 DEF HeldBy
  <1>2. ASSUME NEW p, NEW R, Move(g, p, R)
        PROVE  c \in HeldBy(g)'
    <2>1. drain'[g].row = drain[g].row /\ drain'[g].batch = drain[g].batch
      BY <1>0, <1>2 DEF Move
    <2>. QED BY <2>1 DEF HeldBy
  <1>3. CASE Forget(g)
    <2>1. left' = left \cup drain[g].batch /\ drain[g].row = NoClaim
      BY <1>3 DEF Forget, Working, DrainInv, DrainOwns
    <2>. QED BY <2>1 DEF HeldBy
  <1>4. CASE Start(g)
    <2>1. PICK d \in drain[g].batch :
             drain' = [drain EXCEPT ![g].at = "started", ![g].row = d, ![g].batch = @ \ {d}]
      BY <1>4 DEF Start
    <2>2. drain'[g].row = d /\ drain'[g].batch = drain[g].batch \ {d}
      BY <1>0, <2>1
    <2>3. drain[g].row = NoClaim
      BY <1>4 DEF Start, Working, DrainInv, DrainOwns
    <2>. QED BY <1>0, <2>2, <2>3 DEF HeldBy
  <1>5. CASE GiveBack(g)
    <2>1. PICK d \in drain[g].batch :
             drain' = [drain EXCEPT ![g].at = "done", ![g].row = d, ![g].batch = @ \ {d}]
      BY <1>5 DEF GiveBack
    <2>2. drain'[g].row = d /\ drain'[g].batch = drain[g].batch \ {d}
      BY <1>0, <2>1
    <2>3. drain[g].row = NoClaim
      BY <1>5 DEF GiveBack, Working, DrainInv, DrainOwns
    <2>. QED BY <1>0, <2>2, <2>3 DEF HeldBy
  <1>6. CASE Leave(g)
    <2>1. drain[g].at = "done" /\ drain'[g].batch = drain[g].batch /\ left' = left
      BY <1>0, <1>6 DEF Leave, Working, control
    <2>2. c = drain[g].row => c \in left
      BY <1>0, <2>1 DEF AllWorkSound, WorkSound
    <2>. QED BY <2>1, <2>2 DEF HeldBy
  <1>7. CASE Crash(g)
    BY <1>7 DEF Crash, LeaveBehind
  <1>8. CASE Shutdown(g) \/ Restart(g)
    BY <1>1, <1>8 DEF Shutdown, Restart
  <1>9. CASE DrainNext /\ ~StepOf(g)
    BY <1>1, <1>9, OthersLeave
  <1>10. CASE UNCHANGED drainVars
    BY <1>1, <1>10 DEF drainVars
  <1>11. CASE StepOf(g) /\ \E p, R : Move(g, p, R)
    BY <1>2, <1>11
  <1>12. CASE \/ ReadWork(g) \/ Reopen(g) \/ Normalize(g) \/ Prepare(g) \/ Offer(g) \/ NoSink(g)
              \/ Abandon(g) \/ FinishRow(g) \/ FailRow(g) \/ DeadRow(g) \/ HaltRow(g) \/ Lose(g)
    <2>1. \E p, R : Move(g, p, R)
      BY <1>12 DEF ReadWork, Reopen, Normalize, Prepare, Offer, NoSink, Abandon, FinishRow,
         FailRow, DeadRow, HaltRow, Lose, Settle
    <2>. QED BY <1>2, <2>1
  <1>. QED BY <1>3, <1>4, <1>5, <1>6, <1>7, <1>8, <1>9, <1>10, <1>12 DEF StepOf, DrainStep

(* A lease outlives its worker only where a failure cut the worker off from *)
(* its claim: a crash, a panic, or a claim, an outcome or a release that    *)
(* the database failed.  Every other way out of a row clears its lease.     *)
THEOREM LeasesHaveWorkers == DrainSpec => []NoOrphanLease
  <1>1. DrainInit => NoOrphanLease
    <2>. SUFFICES ASSUME DrainInit, NEW r \in RowId PROVE outbox[r].lease_token = NoToken
      BY DEF NoOrphanLease
    <2>1. outbox[r] = AbsentRow(r)
      BY DEF DrainInit, Init
    <2>. QED BY <2>1 DEF AbsentRow, NewRow
  <1>2. ASSUME DrainInv, AllWorkSound, NoOrphanLease, [DrainNext]_drainVars
        PROVE  NoOrphanLease'
    <2>. SUFFICES ASSUME NEW r \in RowId, outbox'[r].lease_token # NoToken
                  PROVE  \/ \E g \in Drains : \E c \in HeldBy(g)' :
                               c.row = r /\ c.token = outbox'[r].lease_token
                         \/ \E c \in left' : c.row = r /\ c.token = outbox'[r].lease_token
      BY DEF NoOrphanLease
    <2>0. \A c : c.row = r /\ c.token = outbox[r].lease_token /\ outbox[r].lease_token # NoToken
                   => Held(c)
      BY <1>2 DEF Held, DrainInv, IInv, RowConsistent, QueueInv, HeadIsUnfinished
    <2>1. CASE ~\E g \in Drains : ClaimBatch(g)
      <3>1. outbox'[r].lease_token = outbox[r].lease_token
        BY <1>2, <2>1, GrantsNoLease
      <3>2. ASSUME NEW g \in Drains, NEW c \in HeldBy(g), c.row = r,
                   c.token = outbox[r].lease_token
            PROVE  c \in HeldBy(g)' \/ c \in left'
        <4>1. Held(c)
          BY <2>0, <3>1, <3>2
        <4>. QED BY <1>2, <2>1, <4>1, HolderStays
      <3>3. left \subseteq left'
        BY <1>2, <2>1, LeftGrows
      <3>. QED BY <1>2, <3>1, <3>2, <3>3 DEF NoOrphanLease
    <2>2. ASSUME NEW g \in Drains, ClaimBatch(g)
          PROVE  \/ \E h \in Drains : \E c \in HeldBy(h)' :
                       c.row = r /\ c.token = outbox'[r].lease_token
                 \/ \E c \in left' : c.row = r /\ c.token = outbox'[r].lease_token
      <3>0. IInv
        BY <1>2 DEF DrainInv
      <3>1. /\ HeldBy(g) = {} /\ HeldBy(g)' = claims' \ claims
            /\ \A h \in Drains \ {g} : drain'[h] = drain[h]
        BY <1>2, <2>2, ClaimedBatch
      <3>2. PICK S \in SUBSET RowId, tok \in Tokens :
               Claim(S, tok) /\ left' = {c \in left : c.row \notin S /\ Held(c)}
        BY <1>2, <2>2, ClaimedBatch
      <3>3. CASE r \in S
        <4>1. \A v \in S : /\ outbox'[v].lease_token = tok
                          /\ \E c \in claims' \ claims : c.row = v /\ c.token = tok
          <5>1. Claim(S, tok)
            BY <3>2
          <5>. QED BY ONLY <3>0, <5>1, ClaimRows, S \in SUBSET RowId, tok \in Tokens
        <4>2. PICK c \in HeldBy(g)' : c.row = r /\ c.token = outbox'[r].lease_token
          BY <3>1, <3>3, <4>1
        <4>. QED BY <4>2
      <3>4. CASE r \notin S
        <4>1. outbox'[r] = outbox[r]
          <5>1. Claim(S, tok)
            BY <3>2
          <5>2. \A u \in RowId \ S : outbox'[u] = outbox[u]
            BY ONLY <3>0, <5>1, ClaimRows, S \in SUBSET RowId, tok \in Tokens
          <5>. QED BY <3>4, <5>2
        <4>2. ASSUME NEW h \in Drains, NEW c \in HeldBy(h), c.row = r,
                     c.token = outbox[r].lease_token
              PROVE  c \in HeldBy(h)'
          <5>1. h # g
            BY <3>1, <4>2
          <5>. QED BY <3>1, <5>1 DEF HeldBy
        <4>3. ASSUME NEW c \in left, c.row = r, c.token = outbox[r].lease_token
              PROVE  c \in left'
          BY <2>0, <3>2, <3>4, <4>1, <4>3
        <4>. QED BY <1>2, <4>1, <4>2, <4>3 DEF NoOrphanLease
      <3>. QED BY <3>3, <3>4
    <2>. QED BY <2>1, <2>2
  <1>. QED BY <1>1, <1>2, WorkInductive, DrainInductive, PTL DEF DrainSpec

-----------------------------------------------------------------------------
(* The order of delivery *)

(* What a step of the outbox does to the queues: a row keeps its key, and   *)
(* is put at the back of it when it is stored or replayed and never         *)
(* otherwise.                                                               *)
LEMMA QueueMoves ==
    ASSUME IInv, [Next]_vars, NEW u \in RowId
    PROVE  /\ Stored(u) =>
                 /\ Stored(u)' /\ outbox'[u].ordering_key = outbox[u].ordering_key
                 /\ outbox'[u].seq = outbox[u].seq \/ NextSeq(KeyOf(u), outbox'[u].seq)
           /\ IsUnfinished(u)' =>
                 \/ IsUnfinished(u) /\ outbox'[u].seq = outbox[u].seq
                 \/ NextSeq(KeyOf(u)', outbox'[u].seq)
           /\ ~Stored(u) /\ Stored(u)' /\ u[1] \in Tenants
                 => outbox'[u].ordering_key \in OrderingKeys
  <1>. DEFINE Kept == /\ Stored(u)' <=> Stored(u)
                      /\ IsUnfinished(u)' => IsUnfinished(u)
                      /\ outbox'[u].ordering_key = outbox[u].ordering_key
                      /\ outbox'[u].seq = outbox[u].seq
  <1>1. SUFFICES ASSUME ~Kept
                 PROVE  /\ Stored(u) =>
                              /\ Stored(u)' /\ outbox'[u].ordering_key = outbox[u].ordering_key
                              /\ NextSeq(KeyOf(u), outbox'[u].seq)
                        /\ IsUnfinished(u)' => NextSeq(KeyOf(u)', outbox'[u].seq)
                        /\ ~Stored(u) /\ Stored(u)' /\ u[1] \in Tenants
                              => outbox'[u].ordering_key \in OrderingKeys
    OBVIOUS
  <1>2. Alike(u) => Kept
    BY DEF Alike, Stored, IsUnfinished
  <1>3. outbox'[u] = outbox[u] => Kept
    BY DEF Stored, IsUnfinished
  <1>4. ASSUME NEW t \in Tenants, NEW d \in Deliveries, NEW k \in OrderingKeys, Accept(t, d, k)
        PROVE  /\ ~Stored(u) /\ outbox'[u].ordering_key \in OrderingKeys
               /\ NextSeq(KeyOf(u)', outbox'[u].seq)
    <2>1. u = <<t, d>>
      BY <1>1, <1>3, <1>4, AcceptRows
    <2>2. KeyOf(u)' = <<t, k>>
      BY <1>4, <2>1, AcceptRows DEF KeyOf
    <2>. QED BY <1>4, <2>1, <2>2, AcceptRows DEF Stored
  <1>5. ASSUME NEW d \in Deliveries, Park(d)
        PROVE  ~Stored(u) /\ u[1] = Sentinel /\ ~IsUnfinished(u)'
    <2>1. u = <<Sentinel, d>>
      BY <1>1, <1>3, <1>5, ParkRows
    <2>. QED BY <1>5, <2>1, ParkRows DEF Stored, IsUnfinished, Unfinished
  <1>6. ASSUME NEW S \in SUBSET RowId, NEW tok \in Tokens, Claim(S, tok)
        PROVE  FALSE
    <2>1. u \in S => Kept
      BY <1>6, ClaimRows DEF Stored, IsUnfinished
    <2>2. u \notin S => Kept
      BY <1>3, <1>6, ClaimRows
    <2>. QED BY <1>1, <2>1, <2>2
  <1>7. ASSUME NEW c \in claims, Transition(c)
        PROVE  FALSE
    <2>1. CASE Release(c) \/ Halt(c) \/ Retry(c)
      BY <1>1, <1>3, <2>1, GivenUpRows DEF GivenUp, Stored, IsUnfinished
    <2>2. CASE \E why, err : ParkDead(c, why, err)
      <3>1. /\ Held(c) /\ \E why : Ended(c.row, "dead", why)
            /\ u # c.row => Alike(u)
        BY <2>2, ParkDeadRows
      <3>. QED BY <1>1, <1>2, <3>1 DEF Ended, Held, Stored, IsUnfinished, Unfinished
    <2>3. CASE \E refused : MarkDelivered(c, refused)
      <3>1. /\ Held(c) /\ \E why : Ended(c.row, "delivered", why)
            /\ u # c.row => Alike(u)
        BY <2>3, MarkDeliveredRows
      <3>. QED BY <1>1, <1>2, <3>1 DEF Ended, Held, Stored, IsUnfinished, Unfinished
    <2>4. CASE \E R \in SUBSET Records : PrepareIn(c, R)
      BY <1>1, <1>3, <2>4, PrepareRows DEF Stored, IsUnfinished, Unfinished
    <2>. QED BY <1>7, <2>1, <2>2, <2>3, <2>4 DEF Transition, Fail, MarkDead, MarkAbandoned
  <1>8. ASSUME NEW r \in RowId, Replay(r)
        PROVE  /\ Stored(u)' /\ outbox'[u].ordering_key = outbox[u].ordering_key
               /\ Stored(u) /\ NextSeq(KeyOf(u), outbox'[u].seq) /\ KeyOf(u)' = KeyOf(u)
    <2>1. u = r
      BY <1>1, <1>3, <1>8, ReplayRows
    <2>. QED BY <1>8, <2>1, ReplayRows DEF Stored, KeyOf, Finished, Unfinished
  <1>9. ASSUME NEW r \in RowId, Elapse(r)
        PROVE  FALSE
    BY <1>1, <1>2, <1>9, ElapseRows
  <1>10. CASE UNCHANGED vars \/ \E C \in SUBSET claims : Drop(C)
    BY <1>1, <1>3, <1>10 DEF vars, Drop
  <1>. QED BY <1>4, <1>5, <1>6, <1>7, <1>8, <1>9, <1>10, SentinelAssumption DEF Next

(* Only the clock makes a row due and does nothing else, and with RowTimeout*)
(* below Lease it never does so to a row that a live goroutine is working.  *)
LEMMA ClockRespectsLease ==
    ASSUME DrainInv, DrainNext, InsideLease, NEW r \in RowId, Elapse(r)
    PROVE  ~LeasedByLive(r)
  <1>0. /\ IInv /\ ~outbox[r].due /\ outbox'[r].due /\ claims' = claims
        /\ \A u \in RowId : Alike(u)
        /\ \A u \in RowId \ {r} : outbox'[u] = outbox[u]
    BY ElapseRows DEF DrainInv, Elapse, IInv, TypeOK, Row
  <1>1. ASSUME NEW u \in RowId, TimePasses(u)
        PROVE  ~LeasedByLive(r)
    <2>1. outbox'[u].due /\ ~outbox[u].due
      BY <1>0, <1>1 DEF TimePasses, Elapse, IInv, TypeOK, Row
    <2>. QED BY <1>0, <1>1, <2>1 DEF TimePasses
  <1>2. ASSUME Others PROVE FALSE
    <2>1. ASSUME NEW t \in Tenants, NEW d \in Deliveries, NEW k \in OrderingKeys, Accept(t, d, k)
          PROVE  FALSE
      BY <1>0, <2>1, AcceptRows DEF Alike
    <2>2. ASSUME NEW u \in RowId, Replay(u) PROVE FALSE
      BY <1>0, <2>2, ReplayRows DEF Alike, Finished, Unfinished
    <2>. QED BY <1>2, <2>1, <2>2 DEF Others
  <1>3. ASSUME NEW c \in claims, Transition(c) PROVE FALSE
    <2>0. c.row \in RowId /\ c.token # NoToken
      BY <1>0, HeldFacts, TokenAssumption
    <2>1. CASE Release(c) \/ Halt(c) \/ Retry(c)
      BY <1>0, <2>0, <2>1, GivenUpRows DEF GivenUp, Held, Alike
    <2>2. CASE \E why, err : ParkDead(c, why, err)
      BY <1>0, <2>0, <2>2, ParkDeadRows DEF Ended, Held, Alike
    <2>3. CASE \E refused : MarkDelivered(c, refused)
      BY <1>0, <2>0, <2>3, MarkDeliveredRows DEF Ended, Held, Alike
    <2>4. CASE \E R \in SUBSET Records : PrepareIn(c, R)
      BY <1>0, <2>0, <2>4, PrepareRows DEF Alike
    <2>. QED BY <1>3, <2>1, <2>2, <2>3, <2>4 DEF Transition, Fail, MarkDead, MarkAbandoned
  <1>4. ASSUME NEW S \in SUBSET RowId, NEW tok \in Tokens, Claim(S, tok) PROVE FALSE
    <2>1. PICK u \in S : TRUE
      BY <1>4 DEF Claim
    <2>2. claims' \ claims # {}
      BY <1>0, <1>4, <2>1, ClaimRows
    <2>. QED BY <1>0, <2>2
  <1>5. ASSUME NEW g \in Drains, StepOf(g) PROVE FALSE
    <2>1. outbox' # outbox
      BY <1>0
    <2>. QED BY <1>0, <1>3, <1>4, <1>5, <2>1, OwnStep DEF DrainInv, outboxVars, Drop
  <1>. QED BY <1>1, <1>2, <1>5 DEF DrainNext, StepOf

(* With a lease longer than the work, a goroutine holds the lease of every  *)
(* row it has claimed and is not done with.                                 *)
LeaseSound ==
    \A g \in Drains : \A c \in HeldBy(g) :
        \/ Held(c) /\ ~outbox[c.row].due
        \/ Working(g, "done") /\ c = drain[g].row

(* A step that is not taken for the claim leaves the lease where it is.     *)
LEMMA LeaseKept ==
    ASSUME DrainInv, DrainNext, InsideLease, LeaseSound, NEW g \in Drains, NEW c \in HeldBy(g),
           ~(Working(g, "done") /\ c = drain[g].row), AloofFrom(c)
    PROVE  Held(c)' /\ ~outbox'[c.row].due
  <1>1. Held(c) /\ ~outbox[c.row].due
    BY DEF LeaseSound
  <1>2. c \in claims /\ IInv /\ c.row \in RowId
    BY HeldFacts DEF HeldBy, DrainInv, DrainOwns
  <1>3. Undisturbed(c.row)
    BY <1>1, <1>2, Aloof
  <1>4. ~Elapse(c.row)
    BY <1>1, <1>2, ClockRespectsLease DEF LeasedByLive
  <1>. QED BY <1>1, <1>3, <1>4 DEF Undisturbed, Alike, Held, IsUnfinished

(* What a goroutine holds after a step of its own, other than a claim, it   *)
(* held before; and of the rows it holds only the one it works can change.  *)
LEMMA OwnLeases ==
    ASSUME DrainInv, NEW g \in Drains, StepOf(g), ~ClaimBatch(g), NEW c \in HeldBy(g)'
    PROVE  /\ c \in HeldBy(g)
           /\ \/ AloofFrom(c) /\ ~(Working(g, "done") /\ c = drain[g].row)
              \/ Working(g, "done")' /\ c = drain'[g].row
              \/ ~Working(g, "done") /\ \E R \in SUBSET Records : PrepareIn(c, R)
  <1>0. /\ drain \in [Drains -> [at : Places, batch : SUBSET claims,
                                 row : claims \cup {NoClaim}, recs : SUBSET Records]]
        /\ drain[g].at \in {"idle", "unheard"} <=> drain[g].row = NoClaim
        /\ drain[g].row \notin drain[g].batch
        /\ HeldBy(g) \subseteq claims
    BY DEF DrainInv, DrainOwns, HeldBy
  <1>1. UNCHANGED outboxVars => AloofFrom(c)
    BY DEF AloofFrom, outboxVars
  <1>2. ASSUME NEW p, NEW R, Move(g, p, R)
        PROVE  /\ c \in HeldBy(g) /\ drain'[g].row = drain[g].row
               /\ Working(g, p)'
    BY <1>0, <1>2 DEF Move, HeldBy, Working
  <1>3. CASE ReadWork(g) \/ Reopen(g) \/ Normalize(g) \/ Offer(g) \/ NoSink(g)
    <2>1. UNCHANGED outboxVars /\ ~Working(g, "done") /\ \E p, R : Move(g, p, R)
      BY <1>3 DEF ReadWork, Reopen, Normalize, Offer, NoSink, Working
    <2>. QED BY <1>1, <1>2, <2>1
  <1>4. CASE Start(g)
    <2>1. PICK d \in drain[g].batch :
             drain' = [drain EXCEPT ![g].at = "started", ![g].row = d, ![g].batch = @ \ {d}]
      BY <1>4 DEF Start
    <2>2. drain'[g].row = d /\ drain'[g].batch = drain[g].batch \ {d}
      BY <1>0, <2>1
    <2>3. UNCHANGED outboxVars /\ drain[g].at = "idle"
      BY <1>4 DEF Start, Working
    <2>. QED BY <1>0, <1>1, <2>2, <2>3 DEF HeldBy, Working
  <1>5. CASE GiveBack(g)
    <2>1. PICK d \in drain[g].batch :
             /\ Release(d) \/ UNCHANGED outboxVars
             /\ drain' = [drain EXCEPT ![g].at = "done", ![g].row = d, ![g].batch = @ \ {d}]
      BY <1>5 DEF GiveBack
    <2>2. drain'[g].row = d /\ drain'[g].batch = drain[g].batch \ {d} /\ drain'[g].at = "done"
      BY <1>0, <2>1
    <2>3. drain[g].at = "idle" /\ d \in claims
      BY <1>0, <1>5 DEF GiveBack, Working
    <2>4. c # d => AloofFrom(c)
      BY <1>1, <2>1, <2>3 DEF AloofFrom, Transition
    <2>. QED BY <1>0, <2>2, <2>3, <2>4 DEF HeldBy, Working
  <1>6. CASE Leave(g)
    <2>1. drain'[g].row = NoClaim /\ drain'[g].batch = drain[g].batch
      BY <1>0, <1>6 DEF Leave
    <2>2. AloofFrom(c)
      BY <1>6 DEF Leave, Drop, AloofFrom
    <2>. QED BY <1>0, <2>1, <2>2 DEF HeldBy
  <1>7. CASE Abandon(g) \/ FinishRow(g) \/ FailRow(g) \/ DeadRow(g) \/ HaltRow(g)
    <2>1. PICK w : w = drain[g].row
      OBVIOUS
    <2>2. drain[g].at \notin {"idle", "unheard"} /\ ~Working(g, "done")
      BY <1>7 DEF Abandon, FinishRow, FailRow, DeadRow, HaltRow, Working
    <2>3. w \in claims
      BY <1>0, <2>1, <2>2
    <2>4. (Transition(w) \/ UNCHANGED outboxVars) /\ Move(g, "done", {})
      BY <1>7, <2>1, <2>3, SettleStep DEF DrainInv
    <2>5. c # w => AloofFrom(c)
      BY <1>1, <2>3, <2>4 DEF AloofFrom
    <2>. QED BY <1>2, <2>1, <2>2, <2>4, <2>5 DEF Working
  <1>8. CASE Prepare(g)
    <2>1. PICK w : w = drain[g].row
      OBVIOUS
    <2>2. drain[g].at = "normalized" /\ drain[g].recs \subseteq Records
      BY <1>0, <1>8 DEF Prepare, Working
    <2>3. w \in claims
      BY <1>0, <2>1, <2>2
    <2>4. CASE /\ \E R \in SUBSET Records : PrepareIn(w, R)
               /\ \E p, R : Move(g, p, R)
      <3>1. c # w => AloofFrom(c)
        BY <2>3, <2>4 DEF AloofFrom, Transition
      <3>2. c \in HeldBy(g)
        BY <1>2, <2>4
      <3>. QED BY <2>1, <2>2, <2>4, <3>1, <3>2 DEF Working
    <2>5. CASE UNCHANGED outboxVars /\ Move(g, "done", {})
      BY <1>1, <1>2, <2>2, <2>5 DEF Working
    <2>. QED BY <1>8, <2>1, <2>2, <2>4, <2>5 DEF Prepare, NewRecords
  <1>9. CASE Lose(g)
    <2>1. UNCHANGED outboxVars /\ ~Working(g, "done") /\ Move(g, "done", {})
      BY <1>9 DEF Lose, Working
    <2>. QED BY <1>1, <1>2, <2>1
  <1>10. CASE Crash(g) \/ Forget(g)
    <2>1. HeldBy(g)' = {}
      BY <1>0, <1>10 DEF Crash, Forget, HeldBy, IdleDrain
    <2>. QED BY <2>1
  <1>11. CASE Shutdown(g) \/ Restart(g)
    <2>1. drain' = drain /\ UNCHANGED outboxVars
      BY <1>11 DEF Shutdown, Restart
    <2>. QED BY <1>1, <2>1 DEF HeldBy, Working
  <1>. QED BY <1>3, <1>4, <1>5, <1>6, <1>7, <1>8, <1>9, <1>10, <1>11 DEF StepOf, DrainStep

(* A claim is made under the lease it grants.                               *)
LEMMA ClaimedIsHeld ==
    ASSUME IInv, NEW S \in SUBSET RowId, NEW tok \in Tokens, Claim(S, tok)
    PROVE  \A c \in claims' \ claims : Held(c)' /\ ~outbox'[c.row].due
  <1>1. \A c \in claims' \ claims : c.row \in S /\ c.token = tok
    <2>1. claims' = claims \cup
             {[row |-> r, attempt |-> AttemptOf(outbox[r]), token |-> tok] : r \in S}
      BY DEF Claim
    <2>. QED BY <2>1
  <1>2. \A v \in S : outbox'[v].lease_token = tok
    BY ClaimRows
  <1>3. \A v \in S : ~outbox'[v].due
    BY ClaimRows
  <1>4. \A v \in S : IsUnfinished(v)'
    <2>1. \A v \in S : IsUnfinished(v)
      BY ClaimRows
    <2>2. \A v \in S : outbox'[v].state = outbox[v].state
      BY ClaimRows
    <2>. QED BY <2>1, <2>2 DEF IsUnfinished
  <1>. QED BY <1>1, <1>2, <1>3, <1>4 DEF Held

(* A lease is lost only after its goroutine is done with the row.           *)
LEMMA LeaseStep ==
    ASSUME DrainInv, InsideLease, LeaseSound, [DrainNext]_drainVars
    PROVE  LeaseSound'
  <1>. SUFFICES ASSUME NEW g \in Drains, NEW c \in HeldBy(g)',
                       ~(Working(g, "done")' /\ c = drain'[g].row)
                PROVE  Held(c)' /\ ~outbox'[c.row].due
    BY DEF LeaseSound
  <1>0. IInv
    BY DEF DrainInv
  <1>1. CASE UNCHANGED drainVars
    BY <1>1 DEF drainVars, outboxVars, LeaseSound, HeldBy, Working, Held, IsUnfinished
  <1>2. CASE DrainNext /\ ~StepOf(g)
    <2>1. drain'[g] = drain[g]
      BY <1>2, OthersLeave
    <2>2. c \in HeldBy(g) /\ ~(Working(g, "done") /\ c = drain[g].row)
      BY <2>1 DEF HeldBy, Working
    <2>. QED BY <1>2, <2>2, OthersAreAloof, LeaseKept
  <1>3. CASE ClaimBatch(g)
    <2>1. PICK S \in SUBSET RowId, tok \in Tokens : Claim(S, tok)
      BY <1>3, ClaimedBatch
    <2>2. c \in claims' \ claims
      BY <1>3, ClaimedBatch
    <2>. QED BY <1>0, <2>1, <2>2, ClaimedIsHeld
  <1>4. CASE StepOf(g) /\ ~ClaimBatch(g)
    <2>0. DrainNext
      BY <1>4 DEF DrainNext, StepOf
    <2>1. c \in HeldBy(g) /\ c \in claims
      BY <1>4, OwnLeases DEF HeldBy, DrainInv, DrainOwns
    <2>2. CASE \E R \in SUBSET Records : PrepareIn(c, R)
      <3>1. Held(c) /\ ~outbox[c.row].due
        <4>1. Held(c)
          BY <2>2 DEF PrepareIn
        <4>2. ~Working(g, "done") \/ c # drain[g].row
          BY <1>4, <2>2, OwnLeases
        <4>. QED BY <2>1, <4>1, <4>2 DEF LeaseSound
      <3>. QED BY <1>0, <2>1, <2>2, <3>1, PrepareRows DEF Held, IsUnfinished, Unfinished
    <2>. QED BY <1>4, <2>0, <2>1, <2>2, OwnLeases, LeaseKept
  <1>. QED BY <1>1, <1>2, <1>3, <1>4

(* What the sink has reached of a queue: never past an unfinished row of    *)
(* it, nor past the last row it ever held.                                  *)
Keys == Tenants \X OrderingKeys

KeySound ==
    /\ \A r \in RowId : Stored(r) /\ r[1] \in Tenants => outbox[r].ordering_key \in OrderingKeys
    /\ \A r \in RowId : IsUnfinished(r) => reached[KeyOf(r)] <= outbox[r].seq
    /\ \A key \in Keys : reached[key] = 0 \/
          \E u \in RowId : Stored(u) /\ KeyOf(u) = key /\ reached[key] <= outbox[u].seq

(* An unfinished row queues under a key of its tenant.                      *)
LEMMA UnfinishedKey ==
    ASSUME IInv, KeySound, NEW r \in RowId, IsUnfinished(r)
    PROVE  r[1] \in Tenants /\ Stored(r) /\ KeyOf(r) \in Keys
  <1>1. Stored(r) /\ r[1] \in Tenants
    BY DEF IInv, RowConsistent, RowId, IsUnfinished, Unfinished, Stored
  <1>. QED BY <1>1 DEF KeySound, KeyOf, Keys

(* What joins the back of a queue is past all that the sink has reached.    *)
LEMMA BackOfQueue ==
    ASSUME IInv, KeySound, DrainTypeOK, NEW key \in Keys, NEW n, NextSeq(key, n)
    PROVE  reached[key] \in Nat /\ n \in Nat /\ reached[key] <= n
  <1>1. reached[key] \in Nat /\ n \in Nat /\ n > 0
    BY BoundAssumption DEF DrainTypeOK, Keys, NextSeq
  <1>2. CASE reached[key] = 0
    BY <1>1, <1>2
  <1>3. ASSUME NEW u \in RowId, Stored(u), KeyOf(u) = key, reached[key] <= outbox[u].seq
        PROVE  reached[key] <= n
    <2>1. outbox[u].seq < n /\ outbox[u].seq \in Nat
      BY <1>3, BoundAssumption DEF NextSeq, IInv, TypeOK, Row
    <2>. QED BY <1>1, <1>3, <2>1
  <1>. QED BY <1>1, <1>2, <1>3 DEF KeySound

(* A step that offers nothing leaves the queues ahead of the sink.          *)
LEMMA QueuesStayAhead ==
    ASSUME DrainTypeOK, IInv, IInv', KeySound, [Next]_vars, reached' = reached
    PROVE  KeySound'
  <1>0. /\ \A r \in RowId : outbox[r].seq \in Nat /\ outbox'[r].seq \in Nat
        /\ \A key \in Keys : reached[key] \in Nat
    BY BoundAssumption DEF IInv, TypeOK, Row, DrainTypeOK, Keys
  <1>1. ASSUME NEW r \in RowId, Stored(r)', r[1] \in Tenants
        PROVE  outbox'[r].ordering_key \in OrderingKeys
    BY <1>1, QueueMoves DEF KeySound
  <1>2. ASSUME NEW r \in RowId, IsUnfinished(r)'
        PROVE  reached[KeyOf(r)'] <= outbox'[r].seq
    <2>1. CASE IsUnfinished(r) /\ outbox'[r].seq = outbox[r].seq
      <3>1. KeyOf(r)' = KeyOf(r)
        BY <2>1, UnfinishedKey, QueueMoves DEF KeyOf
      <3>. QED BY <2>1, <3>1 DEF KeySound
    <2>2. CASE NextSeq(KeyOf(r)', outbox'[r].seq)
      <3>1. Stored(r)' /\ r[1] \in Tenants
        BY <1>2 DEF IInv, RowConsistent, RowId, IsUnfinished, Unfinished, Stored
      <3>2. KeyOf(r)' \in Keys
        BY <1>1, <3>1 DEF KeyOf, Keys
      <3>. QED BY <2>2, <3>2, BackOfQueue
    <2>. QED BY <1>2, <2>1, <2>2, QueueMoves
  <1>3. ASSUME NEW key \in Keys, reached[key] # 0
        PROVE  \E u \in RowId : Stored(u)' /\ KeyOf(u)' = key /\ reached[key] <= outbox'[u].seq
    <2>1. PICK u \in RowId : Stored(u) /\ KeyOf(u) = key /\ reached[key] <= outbox[u].seq
      BY <1>3 DEF KeySound
    <2>2. Stored(u)' /\ KeyOf(u)' = key
      BY <2>1, QueueMoves DEF KeyOf
    <2>3. CASE outbox'[u].seq = outbox[u].seq
      BY <2>1, <2>2, <2>3
    <2>4. CASE NextSeq(key, outbox'[u].seq)
      BY <2>2, <2>4, BackOfQueue
    <2>. QED BY <2>1, <2>3, <2>4, QueueMoves
  <1>. QED BY <1>1, <1>2, <1>3 DEF KeySound

(* An offer is made for the head of its queue, under its lease.             *)
LEMMA OfferOfHead ==
    ASSUME DrainInv, LeaseSound, KeySound, NEW g \in Drains, Offer(g),
           NEW c, c = drain[g].row
    PROVE  /\ c \in claims /\ c.row \in RowId /\ Held(c)
           /\ KeyOf(c.row) \in Keys
           /\ \A r \in RowId : IsUnfinished(r) /\ KeyOf(r) = KeyOf(c.row)
                                  => outbox[c.row].seq <= outbox[r].seq
  <1>1. drain[g].at = "deliver"
    BY DEF Offer, Working
  <1>2. c \in claims /\ c \in HeldBy(g)
    BY <1>1, RowIsClaim DEF DrainInv, HeldBy
  <1>3. Held(c)
    BY <1>1, <1>2 DEF LeaseSound, Working
  <1>4. c.row \in RowId /\ IsUnfinished(c.row) /\ outbox[c.row].is_head
    BY <1>2, <1>3, HeldFacts DEF DrainInv
  <1>5. KeyOf(c.row) \in Keys
    BY <1>4, UnfinishedKey DEF DrainInv
  <1>6. \A r \in RowId : IsUnfinished(r) => Stored(r)
    BY DEF IsUnfinished, Unfinished, Stored
  <1>. QED BY <1>2, <1>3, <1>4, <1>5, <1>6
           DEF DrainInv, IInv, QueueInv, HeadIsFirst, SameKey

(* The sink gets ahead only to the row it is being offered.                 *)
LEMMA KeyStep ==
    ASSUME DrainTypeOK, DrainInv, LeaseSound, KeySound, [DrainNext]_drainVars
    PROVE  KeySound'
  <1>0. IInv /\ IInv' /\ [Next]_vars
    BY DrainStepInv DEF DrainInv
  <1>1. ASSUME NEW g \in Drains, Offer(g)
        PROVE  KeySound'
    <2>1. PICK c : c = drain[g].row
      OBVIOUS
    <2>2. /\ c \in claims /\ c.row \in RowId /\ Held(c)
          /\ KeyOf(c.row) \in Keys
          /\ \A r \in RowId : IsUnfinished(r) /\ KeyOf(r) = KeyOf(c.row)
                                 => outbox[c.row].seq <= outbox[r].seq
      BY <1>1, <2>1, OfferOfHead
    <2>3. UNCHANGED outbox
      BY <1>1 DEF Offer, outboxVars
    <2>4. /\ reached' = [reached EXCEPT ![KeyOf(c.row)] = reached'[KeyOf(c.row)]]
          /\ reached'[KeyOf(c.row)] \in {reached[KeyOf(c.row)], outbox[c.row].seq}
      <3>1. PICK taken :
               reached' = [reached EXCEPT ![KeyOf(c.row)] =
                  IF taken \subseteq sink[c.row[1]] \/ outbox[c.row].seq < @
                  THEN @ ELSE outbox[c.row].seq]
        BY <1>1, <2>1 DEF Offer
      <3>2. reached \in [Keys -> 0..MaxSeq]
        BY DEF DrainTypeOK, Keys
      <3>. QED BY <2>2, <3>1, <3>2
    <2>5. \A key \in Keys : key # KeyOf(c.row) => reached'[key] = reached[key]
      BY <2>2, <2>4 DEF DrainTypeOK, Keys
    <2>6. ASSUME NEW r \in RowId, IsUnfinished(r)
          PROVE  reached'[KeyOf(r)] <= outbox[r].seq
      <3>1. KeyOf(r) \in Keys
        BY <1>0, <2>6, UnfinishedKey
      <3>. QED BY <2>2, <2>4, <2>5, <2>6, <3>1 DEF KeySound
    <2>7. ASSUME NEW key \in Keys, reached'[key] # 0
          PROVE  \E u \in RowId : Stored(u) /\ KeyOf(u) = key /\ reached'[key] <= outbox[u].seq
      <3>1. CASE reached'[key] = reached[key]
        BY <2>7, <3>1 DEF KeySound
      <3>2. CASE key = KeyOf(c.row) /\ reached'[key] = outbox[c.row].seq
        <4>1. Stored(c.row) /\ outbox[c.row].seq \in Nat
          BY <1>0, <2>2, UnfinishedKey, BoundAssumption DEF Held, IInv, TypeOK, Row
        <4>. QED BY <2>2, <3>2, <4>1
      <3>. QED BY <2>4, <2>5, <3>1, <3>2
    <2>. QED BY <2>3, <2>6, <2>7 DEF KeySound, Stored, KeyOf, IsUnfinished
  <1>2. ASSUME ~\E g \in Drains : Offer(g)
        PROVE  reached' = reached
    BY <1>2 DEF DrainNext, DrainStep, ClaimBatch, Forget, Start, GiveBack, Leave, Abandon, ReadWork,
       Reopen, Normalize, Prepare, FinishRow, FailRow, DeadRow, HaltRow, NoSink, Lose, Crash,
       Shutdown, Restart, TimePasses, Others, Settle, outside, drainVars
  <1>. QED BY <1>0, <1>1, <1>2, QueuesStayAhead

(* Package outbox's promise of order, which RowTimeout below Lease buys:    *)
(* through retries, takeovers, crashes and replays the sink never takes a   *)
(* record for the first time after one that was queued behind it.           *)
THEOREM SinkKeepsOrder ==
    ASSUME InsideLease
    PROVE  DrainSpec => SinkInOrder
  <1>1. DrainInit => LeaseSound /\ KeySound
    <2>. SUFFICES ASSUME DrainInit PROVE LeaseSound /\ KeySound
      OBVIOUS
    <2>1. LeaseSound
      BY DEF DrainInit, IdleDrain, LeaseSound, HeldBy
    <2>2. \A r \in RowId : ~Stored(r) /\ ~IsUnfinished(r)
      <3>1. \A r \in RowId : outbox[r] = AbsentRow(r)
        BY DEF DrainInit, Init
      <3>. QED BY <3>1 DEF AbsentRow, NewRow, Stored, IsUnfinished, Unfinished
    <2>. QED BY <2>1, <2>2 DEF DrainInit, KeySound, Keys
  <1>2. DrainTypeOK /\ DrainInv /\ LeaseSound /\ KeySound /\ [DrainNext]_drainVars
           => LeaseSound' /\ KeySound'
    BY LeaseStep, KeyStep
  <1>3. DrainTypeOK /\ DrainInv /\ AllWorkSound /\ LedgerIsStored /\ LeaseSound /\ KeySound
           /\ [DrainNext]_drainVars
        => [\A r \in RowId, x \in Records :
              outbox_record[r][x] # "none" /\ x \in sink'[r[1]] \ sink[r[1]]
                  => reached[KeyOf(r)] <= outbox[r].seq]_drainVars
    <2>. SUFFICES ASSUME DrainTypeOK, DrainInv, AllWorkSound, LedgerIsStored, LeaseSound, KeySound,
                         DrainNext, NEW r \in RowId, NEW x \in Records,
                         outbox_record[r][x] # "none", x \in sink'[r[1]] \ sink[r[1]]
                  PROVE  reached[KeyOf(r)] <= outbox[r].seq
      OBVIOUS
    <2>1. PICK g \in Drains : Offer(g)
      <3>. SUFFICES ASSUME ~\E g \in Drains : Offer(g) PROVE sink' = sink
        OBVIOUS
      <3>. QED BY DEF DrainNext, DrainStep, ClaimBatch, Forget, Start, GiveBack, Leave, Abandon,
           ReadWork, Reopen, Normalize, Prepare, FinishRow, FailRow, DeadRow, HaltRow, NoSink,
           Lose, Crash, Shutdown, Restart, TimePasses, Others, Settle, outside
    <2>2. PICK c : c = drain[g].row
      OBVIOUS
    <2>3. c \in claims /\ c.row \in RowId /\ Held(c)
      BY <2>1, <2>2, OfferOfHead
    <2>4. drain[g].recs = Waiting(c.row)
      BY <2>1, <2>2, <2>3 DEF Offer, Working, AllWorkSound, WorkSound
    <2>5. PICK taken \in SUBSET drain[g].recs : sink' = [sink EXCEPT ![c.row[1]] = @ \cup taken]
      BY <2>1, <2>2 DEF Offer
    <2>6. r[1] = c.row[1] /\ x \in Waiting(c.row)
      BY <2>4, <2>5 DEF DrainTypeOK
    <2>7. r = c.row
      BY <2>3, <2>6 DEF LedgerIsStored, Waiting
    <2>. QED BY <2>3, <2>7 DEF KeySound, Held
  <1>. QED BY <1>1, <1>2, <1>3, WorkInductive, LedgerCorrect, DrainInductive, DrainTypeCorrect, PTL
           DEF DrainSpec, SinkInOrder

=============================================================================
