------------------------------ MODULE MCDrain -------------------------------
(* Small instances of Drain.  Symmetry is only used where no liveness is    *)
(* checked; tenants, goroutines, deliveries, tokens and records are         *)
(* interchangeable.                                                         *)
EXTENDS Drain, TLC

Symmetry ==
    Permutations(Tenants) \cup Permutations(Drains) \cup Permutations(Deliveries)
        \cup Permutations(Tokens) \cup Permutations(Records)

=============================================================================
