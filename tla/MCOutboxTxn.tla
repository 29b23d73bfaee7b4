---------------------------- MODULE MCOutboxTxn -----------------------------
(* Small instances of OutboxTxn.  The properties are safety properties, and *)
(* connections, deliveries, tokens and records are interchangeable.         *)
EXTENDS OutboxTxn, TLC

Symmetry ==
    Permutations(Procs) \cup Permutations(Deliveries)
        \cup Permutations(Tokens) \cup Permutations(Records)

=============================================================================
