------------------------------ MODULE MCOutbox ------------------------------
(* Small instances of Outbox.  Deliveries, tokens and records are           *)
(* interchangeable, and no liveness is checked here, so symmetry is sound.  *)
EXTENDS Outbox, TLC

Symmetry == Permutations(Deliveries) \cup Permutations(Tokens) \cup Permutations(Records)

=============================================================================
