------------------------------ MODULE MCHydrate -----------------------------
(* Small instances of what hydration rests on: the ClickUp provider with    *)
(* its rate limiter, and the vaults.  They share no state and a run of      *)
(* either is as long as it gets, so a behaviour here is of one of them.     *)
EXTENDS ClickUp, Vault, TLC

VARIABLE part

(* Around the leeway of 2 and the bound of 4, and where a duration of 3 a   *)
(* second wraps around at 16: to less than nothing, and to a usable 1.      *)
MCLifetimes == {-1, 0, 2, 3, 4, 5, 11}

MCInit ==
    /\ part \in {"clickup", "vault"}
    /\ ClickUpInit /\ VaultInit
    /\ part = "clickup" => backend = "local" /\ key = CHOOSE k \in Keys : TRUE

MCNext ==
    \/ part = "clickup" /\ ClickUpNext /\ UNCHANGED <<part, vaultVars>>
    \/ part = "vault" /\ VaultNext /\ UNCHANGED <<part, clickUpVars>>

MCSpec == MCInit /\ [][MCNext]_<<part, clickUpVars, vaultVars>>

MCSymmetry == Permutations(Workers) \cup Permutations(Lists) \cup Permutations(Slots)

=============================================================================
