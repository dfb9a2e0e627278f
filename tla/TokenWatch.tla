----------------------------- MODULE TokenWatch -----------------------------
(***************************************************************************)
(* The lease of the proxy's own Vault token: token_watch and check_token   *)
(* of crates/vault/src/source.rs.  Time is counted in units of which the   *)
(* check interval has several; the requests of one check take up to        *)
(* MaxCheck of them.                                                       *)
(***************************************************************************)
EXTENDS Naturals

CONSTANTS
    Interval,       \* TOKEN_CHECK_INTERVAL
    Threshold,      \* TOKEN_RENEW_THRESHOLD
    Period,         \* the lease a renewal grants
    MaxCheck        \* the timeouts of the requests of one check

ASSUME TokenAssumption ==
    /\ Interval \in Nat
    /\ Threshold \in Nat
    /\ Period \in Nat
    /\ MaxCheck \in Nat \ {0}

VARIABLES
    lease,          \* TokenStatus::ttl as it runs down; 0 is expired
    renewable,      \* TokenStatus::renewable
    watch,          \* the task: "sleep", "ask" or "told"
    elapsed,        \* how long it has been asleep, or checking
    seen,           \* the ttl Vault answered with
    warned          \* warnings since the lease was last renewed

tokenVars == <<lease, renewable, watch, elapsed, seen, warned>>

TokenInit ==
    /\ lease = Period
    /\ renewable \in BOOLEAN
    /\ watch = "sleep"
    /\ elapsed = 0
    /\ seen = 0
    /\ warned = 0

\* Time passes while the watch sleeps or waits for Vault.  What happens to a
\* token that has expired is not modelled.
Pass ==
    /\ lease > 0
    /\ elapsed < IF watch = "sleep" THEN Interval ELSE MaxCheck
    /\ lease' = lease - 1
    /\ elapsed' = elapsed + 1
    /\ UNCHANGED <<renewable, watch, seen, warned>>

Wake ==
    /\ watch = "sleep"
    /\ elapsed = Interval
    /\ watch' = "ask"
    /\ elapsed' = 0
    /\ UNCHANGED <<lease, renewable, seen, warned>>

\* token_status answers.
Told ==
    /\ watch = "ask"
    /\ lease > 0
    /\ seen' = lease
    /\ watch' = "told"
    /\ UNCHANGED <<lease, renewable, elapsed, warned>>

Sleep == watch' = "sleep" /\ elapsed' = 0

\* Mutant of Healthy: half the threshold.
HealthyAtHalf == seen > Threshold \div 2

\* check_token leaves a lease above the threshold alone.
Healthy == seen > Threshold

CheckHealthy ==
    /\ watch = "told"
    /\ Healthy
    /\ Sleep
    /\ UNCHANGED <<lease, renewable, seen, warned>>

\* check_token: the lease is extended.
CheckRenewed ==
    /\ watch = "told"
    /\ lease > 0
    /\ ~Healthy /\ renewable
    /\ lease' = Period
    /\ warned' = 0
    /\ Sleep
    /\ UNCHANGED <<renewable, seen>>

\* check_token: not renewable, or the renewal failed.
CheckExpiring ==
    /\ watch = "told"
    /\ ~Healthy
    /\ warned' = warned + 1
    /\ Sleep
    /\ UNCHANGED <<lease, renewable, seen>>

\* check_token: Vault could not be asked.
CheckUnknown ==
    /\ watch = "ask"
    /\ warned' = warned + 1
    /\ Sleep
    /\ UNCHANGED <<lease, renewable, seen>>

TokenNext ==
    \/ Pass \/ Wake \/ Told
    \/ CheckHealthy \/ CheckRenewed \/ CheckExpiring \/ CheckUnknown

TokenSpec == TokenInit /\ [][TokenNext]_tokenVars

-----------------------------------------------------------------------------

\* How long the watch knows of a lease that is running out: a lease may be
\* granted for less than the threshold.
Room == IF Period < Threshold THEN Period ELSE Threshold

\* A token that runs out was warned about on every check the threshold leaves
\* room for, however Vault failed ("a renewal that fails still leaves several
\* attempts (and several warnings) before the lease actually runs out").
ExpiryWarned ==
    lease = 0 => warned >= (Room - MaxCheck) \div (Interval + MaxCheck)

=============================================================================
