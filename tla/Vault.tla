------------------------------- MODULE Vault --------------------------------
(***************************************************************************)
(* The three vaults of internal/vault and what they rest on.  A deployment *)
(* has one of them:                                                        *)
(*   "local"  a table of envelopes sealed with the process's master key,   *)
(*            which an operator may edit, restore, or read with another    *)
(*            key;                                                         *)
(*   "nango"  a service that holds the connections, and may answer with    *)
(*            another one, with nonsense or not at all;                    *)
(*   "azure"  an issuer of tokens with a lifetime, and a cache of them.    *)
(*                                                                         *)
(* A slot is a tenant and a provider: checkArgs refuses the sentinel and   *)
(* what is not a provider key.  A credential is the slot it is for and a   *)
(* number of its own; encoding, and the fields of one, are left out.       *)
(***************************************************************************)
EXTENDS Integers, FiniteSets

CONSTANTS
    Slots,          \* the (tenant, provider) pairs
    Keys,           \* the master keys a process may be started with
    Callers,        \* the goroutines that call the vault
    Lifetimes,      \* what the issuer may put in expires_in
    Leeway,         \* azureExpiryLeeway, in seconds
    MaxLifetime,    \* maxAzureLifetimeSeconds
    Transit,        \* the longest an answer of the issuer takes, in seconds
    PerSecond,      \* what time.Duration counts in a second
    Width,          \* a time.Duration wraps around within 2 * Width
    MaxTime,        \* bound: seconds
    MaxCredentials, \* bound: credentials stored, connected or issued
    MaxFaults       \* bound: what goes wrong outside this program

ASSUME VaultAssumption ==
    /\ Leeway \in Nat /\ Transit \in Nat /\ Transit < Leeway /\ Lifetimes \subseteq Int
    /\ MaxLifetime \in Nat /\ PerSecond \in Nat \ {0} /\ Width \in Nat
    /\ Leeway < MaxLifetime /\ MaxLifetime * PerSecond < Width

VARIABLES
    backend,    \* the configured vault
    key,        \* the master key of the process
    rows,       \* vault_credentials
    conns,      \* Nango's connections
    cache,      \* AzureApp.tokens
    time,       \* AzureApp.now
    fetch,      \* the Fetch each goroutine is in
    out,        \* the answer given by the last step
    made,       \* how many credentials there were
    faults

vaultVars == <<backend, key, rows, conns, cache, time, fetch, out, made, faults>>

Nothing == [of |-> "nothing", n |-> 0, until |-> 0]

(* A credential, and when its issuer stops honouring it, if it does.        *)
Credential(s, until) == [of |-> s, n |-> made + 1, until |-> until]

(* An envelope: the key and the slot it was sealed for, what is in it, and  *)
(* what became of it since: whole, damaged, or never an envelope at all.    *)
NoRow == [form |-> "none", key |-> "none", slot |-> "none", holds |-> Nothing]

seal(k, s, c) == [form |-> "whole", key |-> k, slot |-> s, holds |-> c]

NotCached == [token |-> Nothing, until |-> 0]

(* A call knows, for the properties, every credential its slot had since it *)
(* began (had).                                                             *)
NoFetch == [at |-> "idle", slot |-> "none", since |-> 0, row |-> NoRow, had |-> {},
           token |-> Nothing, lifetime |-> 0]

NoAnswer == [slot |-> "none", says |-> "none", got |-> Nothing, had |-> {}]

VaultInit ==
    /\ backend \in {"local", "nango", "azure"} /\ key \in Keys
    /\ rows = [s \in Slots |-> NoRow]
    /\ conns = [s \in Slots |-> Nothing]
    /\ cache = [s \in Slots |-> NotCached]
    /\ time = 0 /\ made = 0 /\ faults = 0
    /\ fetch = [c \in Callers |-> NoFetch]
    /\ out = NoAnswer

-----------------------------------------------------------------------------
(* Helpers *)

In(c, place) == fetch[c].at = place

Fault == faults < MaxFaults /\ faults' = faults + 1

New == made < MaxCredentials /\ made' = made + 1

Silent == out' = NoAnswer

(* A step that gives slot s the credential k: the calls for s may see it.   *)
Seen(s, k) ==
    fetch' = [c \in Callers |->
        IF fetch[c].at # "idle" /\ fetch[c].slot = s
        THEN [fetch[c] EXCEPT !.had = @ \cup {k}] ELSE fetch[c]]

(* The end of a Fetch: a credential or, by name, a refusal.                 *)
Answer(c, says, got) ==
    /\ fetch' = [fetch EXCEPT ![c] = NoFetch]
    /\ out' = [slot |-> fetch[c].slot, says |-> says, got |-> got, had |-> fetch[c].had]

Refuse(c, why) == Answer(c, why, Nothing)

-----------------------------------------------------------------------------
(* Local *)

(* Local.Store: sealed with this process's key, replacing the row.  Its     *)
(* answer may be lost after the commit; nobody is told more by it.          *)
Store(s) ==
    LET new == Credential(s, 0) IN
    /\ backend = "local" /\ New
    /\ rows' = [rows EXCEPT ![s] = seal(key, s, new)]
    /\ Seen(s, new) /\ Silent
    /\ UNCHANGED <<backend, key, conns, cache, time, faults>>

(* Local.Revoke, which reads nothing of the row it deletes.                 *)
Revoke(s) ==
    /\ backend = "local" /\ rows[s] # NoRow
    /\ rows' = [rows EXCEPT ![s] = NoRow]
    /\ Silent
    /\ UNCHANGED <<backend, key, conns, cache, time, fetch, made, faults>>

(* Local.Fetch: the row is read in a transaction of its own.                *)
ReadRow(c, s) ==
    /\ backend = "local" /\ In(c, "idle")
    /\ fetch' = [fetch EXCEPT ![c] = [NoFetch EXCEPT
          !.at = "open", !.slot = s, !.row = rows[s], !.had = {rows[s].holds}]]
    /\ Silent
    /\ UNCHANGED <<backend, key, rows, conns, cache, time, made, faults>>

(* Mutated form: the envelope is authenticated with nothing but its bytes.  *)
AuthenticMutant(env, s) == env.form = "whole"

(* The tag is over the tenant and the provider too: aad.                    *)
Authentic(env, s) == env.form = "whole" /\ env.slot = s

(* ErrNoRows, and sealer.open in the order it asks.                         *)
open(env, s) ==
    CASE env.form = "none" -> "not_found"
      [] env.form = "plain" -> "not_sealed"
      [] env.key # key -> "wrong_key"
      [] ~Authentic(env, s) -> "decrypt"
      [] OTHER -> "ok"

Open(c) ==
    LET verdict == open(fetch[c].row, fetch[c].slot) IN
    /\ In(c, "open")
    /\ Answer(c, verdict, IF verdict = "ok" THEN fetch[c].row.holds ELSE Nothing)
    /\ UNCHANGED <<backend, key, rows, conns, cache, time, made, faults>>

(* What an operator, a restore or a disk may do to the table.               *)
Tamper ==
    /\ backend = "local" /\ Fault
    /\ \E s \in Slots :
          /\ rows[s] # NoRow
          /\ \/ \E other \in Slots \ {s} : rows' = [rows EXCEPT ![other] = rows[s]]
             \/ \E form \in {"damaged", "plain"} : rows' = [rows EXCEPT ![s].form = form]
    /\ Silent
    /\ UNCHANGED <<backend, key, conns, cache, time, fetch, made>>

(* The process ends, with the calls in it and what it had in memory, and    *)
(* another one starts, perhaps with another master key.                     *)
Restart ==
    /\ Fault
    /\ key' \in (IF backend = "local" THEN Keys ELSE {key})
    /\ cache' = [s \in Slots |-> NotCached]
    /\ fetch' = [c \in Callers |-> NoFetch]
    /\ Silent
    /\ UNCHANGED <<backend, rows, conns, time, made>>

-----------------------------------------------------------------------------
(* Nango *)

(* Nango's own: a connect flow or a refresh, and a connection removed.      *)
Connect(s) ==
    LET new == Credential(s, 0) IN
    /\ backend = "nango" /\ New
    /\ conns' = [conns EXCEPT ![s] = new]
    /\ Seen(s, new) /\ Silent
    /\ UNCHANGED <<backend, key, rows, cache, time, faults>>

(* Nango.Revoke, or its user: DELETE.  With the answer lost the connection  *)
(* is gone and the caller told of an outage.                                *)
Delete(s) ==
    /\ backend = "nango" /\ conns[s] # Nothing
    /\ conns' = [conns EXCEPT ![s] = Nothing]
    /\ Silent
    /\ UNCHANGED <<backend, key, rows, cache, time, fetch, made, faults>>

(* Nango.Fetch: GET. *)
Ask(c, s) ==
    /\ backend = "nango" /\ In(c, "idle")
    /\ fetch' = [fetch EXCEPT ![c] = [NoFetch EXCEPT !.at = "asked", !.slot = s, !.had = {conns[s]}]]
    /\ Silent
    /\ UNCHANGED <<backend, key, rows, conns, cache, time, made, faults>>

(* The document names the connection and the provider asked for.            *)
IsOurs(slot, doc) == doc.of = slot

Connection(c) ==
    /\ backend = "nango" /\ In(c, "asked")
    /\ \/ /\ \E s \in Slots :
                /\ conns[s] # Nothing
                /\ (s = fetch[c].slot /\ UNCHANGED faults) \/ (s # fetch[c].slot /\ Fault)
                /\ IF IsOurs(fetch[c].slot, conns[s])
                   THEN Answer(c, "ok", conns[s]) ELSE Refuse(c, "unavailable")
       \/ /\ conns[fetch[c].slot] = Nothing /\ UNCHANGED faults
          /\ Refuse(c, "not_found")
    /\ UNCHANGED <<backend, key, rows, conns, cache, time, made>>

(* Every other end of a request, of either service: no answer, another      *)
(* status, a body, type or token that is not one.                           *)
NoUse(c) ==
    /\ fetch[c].at \in {"asked", "issued"} /\ Fault
    /\ Refuse(c, "unavailable")
    /\ UNCHANGED <<backend, key, rows, conns, cache, time, made>>

-----------------------------------------------------------------------------
(* AzureApp *)

(* seconds * time.Second, in an int64 of nanoseconds.                       *)
Duration(seconds) == ((seconds * PerSecond + Width) % (2 * Width)) - Width

(* AzureApp.cached. *)
cached(s) == cache[s] # NotCached /\ time * PerSecond < cache[s].until

(* AzureApp.Fetch: out of the cache, or from the issuer.                    *)
FetchToken(c, s) ==
    /\ backend = "azure" /\ In(c, "idle")
    /\ \/ /\ cached(s)
          /\ out' = [NoAnswer EXCEPT
                !.slot = s, !.says = "ok", !.got = cache[s].token, !.had = {cache[s].token}]
          /\ UNCHANGED fetch
       \/ /\ ~cached(s)
          /\ fetch' = [fetch EXCEPT ![c] = [NoFetch EXCEPT !.at = "asked", !.slot = s]]
          /\ Silent
    /\ UNCHANGED <<backend, key, rows, conns, cache, time, made, faults>>

(* The issuer makes a token, good for what it says.                         *)
Issue(c) ==
    /\ backend = "azure" /\ In(c, "asked") /\ New
    /\ \E n \in Lifetimes :
          fetch' = [fetch EXCEPT ![c].at = "issued", ![c].since = time, ![c].lifetime = n,
                               ![c].token = Credential(fetch[c].slot, time + n)]
    /\ Silent
    /\ UNCHANGED <<backend, key, rows, conns, cache, time, faults>>

Usable(seconds) == seconds > 0 /\ seconds <= MaxLifetime

(* Mutated form: a token is kept until its issuer's expiry.                 *)
rememberedMutant(s, token, lifetime) ==
    IF lifetime <= 0 THEN cache
    ELSE [cache EXCEPT ![s] = [token |-> token, until |-> time * PerSecond + lifetime]]

(* AzureApp.remember: the cache after it.                                   *)
remembered(s, token, lifetime) ==
    IF lifetime <= Leeway * PerSecond THEN cache
    ELSE [cache EXCEPT ![s] =
        [token |-> token, until |-> time * PerSecond + lifetime - Leeway * PerSecond]]

(* The answer arrives: the rest of issue and of Fetch.                      *)
TokenAnswer(c) ==
    LET s == fetch[c].slot IN
    /\ In(c, "issued")
    /\ IF Usable(fetch[c].lifetime)
       THEN /\ cache' = remembered(s, fetch[c].token, Duration(fetch[c].lifetime))
            /\ fetch' = [fetch EXCEPT ![c] = NoFetch]
            /\ out' = [NoAnswer EXCEPT
                    !.slot = s, !.says = "ok", !.got = fetch[c].token, !.had = {fetch[c].token}]
       ELSE Refuse(c, "unavailable") /\ UNCHANGED cache
    /\ UNCHANGED <<backend, key, rows, conns, time, made, faults>>

(* A second passes: an answer takes at most Transit of them.                *)
SecondPasses ==
    /\ backend = "azure" /\ time < MaxTime
    /\ \A c \in Callers : In(c, "issued") => time < fetch[c].since + Transit
    /\ time' = time + 1 /\ Silent
    /\ UNCHANGED <<backend, key, rows, conns, cache, fetch, made, faults>>

-----------------------------------------------------------------------------

VaultNext ==
    \/ \E s \in Slots : Store(s) \/ Revoke(s) \/ Connect(s) \/ Delete(s)
    \/ \E c \in Callers, s \in Slots : ReadRow(c, s) \/ Ask(c, s) \/ FetchToken(c, s)
    \/ \E c \in Callers : Open(c) \/ Connection(c) \/ NoUse(c) \/ Issue(c) \/ TokenAnswer(c)
    \/ Tamper \/ Restart \/ SecondPasses

VaultSpec == VaultInit /\ [][VaultNext]_vaultVars

-----------------------------------------------------------------------------
(* Properties *)

(* Vault: what a Fetch hands out was made for the very slot it was asked    *)
(* for, and was kept there at some time since it was asked: never another   *)
(* tenant's, never one that was revoked or replaced before.                 *)
FetchIsOwn == out.says = "ok" => out.got.of = out.slot /\ out.got \in out.had

(* azureExpiryLeeway: a token from the cache has the leeway left, less what *)
(* its answer took, however the fetches of one slot raced.                  *)
TokenLives ==
    \A s \in Slots : cached(s) => cache[s].token.until - time > Leeway - Transit

=============================================================================
