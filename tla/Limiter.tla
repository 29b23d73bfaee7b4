------------------------------ MODULE Limiter -------------------------------
(***************************************************************************)
(* The rate limiter of the ClickUp provider (limiter in                    *)
(* internal/provider/clickup/api.go): a token bucket that refuses what it  *)
(* cannot allow.  One limiter serves every goroutine and tenant.           *)
(*                                                                         *)
(* Times are in units of which PerToken make a token, so tokens holds      *)
(* whole numbers where the code has a float.  The clock is any clock       *)
(* Options.Now may be: it jumps ahead, stands still or goes back.          *)
(***************************************************************************)
EXTENDS Integers

CONSTANTS
    Burst,          \* Options.Burst
    PerToken,       \* a minute divided by Options.PerMinute
    MaxClock        \* bound: readings of the clock

ASSUME LimiterAssumption ==
    Burst \in Nat \ {0} /\ PerToken \in Nat \ {0} /\ MaxClock \in Nat

VARIABLES
    clock,      \* what Options.Now reads
    tokens,     \* limiter.tokens
    last,       \* limiter.last
    peak,       \* history: the latest reading the limiter has made
    level       \* history: see Metered

limiterVars == <<clock, tokens, last, peak, level>>

LimiterTypeOK ==
    /\ clock \in 0..MaxClock
    /\ tokens \in 0..(Burst * PerToken)
    /\ last \in 0..MaxClock /\ peak \in 0..MaxClock
    /\ level \in Nat

LimiterInit ==
    /\ clock = 0 /\ last = 0 /\ peak = 0
    /\ tokens = Burst * PerToken
    /\ level = 0

Lower(a, b) == IF a < b THEN a ELSE b
Higher(a, b) == IF a > b THEN a ELSE b

Tick ==
    /\ clock' \in 0..MaxClock
    /\ UNCHANGED <<tokens, last, peak, level>>

(* What an observer makes of the calls so far: the requests of a window of  *)
(* time, less the time the window took, for the window ending now for which *)
(* that is most.  time is what passed since the call before, and n what the *)
(* limiter allows now.                                                      *)
Metered(time, n) == Higher(level - time, 0) + n

(* Mutated form: limiter.last follows a clock that went back.               *)
ReadingMutant == clock

(* limiter.last after a call. *)
Reading == Higher(last, clock)

Refilled ==
    IF clock > last THEN Lower(Burst * PerToken, tokens + clock - last) ELSE tokens

Observe(n) ==
    /\ peak' = Higher(peak, clock)
    /\ level' = Metered(peak' - peak, n)
    /\ UNCHANGED clock

(* limiter.allow, and its two answers. *)
Allow ==
    /\ Refilled >= PerToken
    /\ tokens' = Refilled - PerToken
    /\ last' = Reading
    /\ Observe(PerToken)

Disallow ==
    /\ Refilled < PerToken
    /\ tokens' = Refilled
    /\ last' = Reading
    /\ Observe(0)

LimiterNext == Tick \/ Allow \/ Disallow

LimiterSpec == LimiterInit /\ [][LimiterNext]_limiterVars

-----------------------------------------------------------------------------
(* Properties *)

(* limiter: in no window, however long and whatever the clock did, are more *)
(* requests made than Burst and what the window's length is worth.          *)
RateHolds == level <= Burst * PerToken

=============================================================================
