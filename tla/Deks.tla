-------------------------------- MODULE Deks --------------------------------
(***************************************************************************)
(* The data keys of the runs of the proxy: VaultKeySource::connect, which  *)
(* wraps a fresh key and stores it before the run may seal with it, and    *)
(* VaultKeySource::key, which finds the key of an envelope another run     *)
(* wrote, with its cache of absent ids (crates/vault/src/source.rs).       *)
(*                                                                         *)
(* The id of a run's key is the run itself.  Lost holds ids whose record   *)
(* is missing until the operator provisions it.  Time passes in Tick; a    *)
(* fetch ends within the timeout of block_on.  What the properties and the *)
(* code compare are ages, so ages are kept, as far as they matter.         *)
(***************************************************************************)
EXTENDS Naturals, FiniteSets

CONSTANTS
    Runs,           \* the processes, one data key each
    Lost,           \* ids in stored envelopes without a record
    Readers,        \* the threads that open envelopes
    RunOf,          \* the process of each thread
    Ttl,            \* MISSING_DEK_CACHE_TTL
    Timeout,        \* VaultConfig::timeout_secs
    MaxMissing,     \* MISSING_DEK_CACHE_MAX
    Never           \* no time, no id

Ids == Runs \cup Lost

\* A run never reuses an id, and a time is a number.
ASSUME DeksAssumption ==
    /\ Runs \cap Lost = {}
    /\ RunOf \in [Readers -> Runs]
    /\ Ttl \in Nat \ {0}
    /\ Timeout \in Nat
    /\ Never \notin Nat

VARIABLES
    stored,         \* Vault: Never, or the age of each id's record (0 for a run's)
    run,            \* each process: "new", "storing", "up" or "down"
    stamped,        \* the ids in envelopes the runs wrote
    deks,           \* VaultKeySource::deks of each process
    missing,        \* missing_deks of each process: how long ago an id was absent
    call            \* each thread's call of key

dekVars == <<stored, run, stamped, deks, missing, call>>

\* A call of key: where it is, the id, for how long it fetches and what Vault
\* answered.
NoCall == [at |-> "idle", id |-> Never, elapsed |-> 0, exists |-> FALSE]

DeksInit ==
    /\ stored = [i \in Ids |-> Never]
    /\ run = [r \in Runs |-> "new"]
    /\ stamped = {}
    /\ deks = [r \in Runs |-> {}]
    /\ missing = [r \in Runs |-> [i \in Ids |-> Never]]
    /\ call = [c \in Readers |-> NoCall]

\* connect: Transit made the key, and its wrapped form is sent to KV.
Wrap(r) ==
    /\ run[r] = "new"
    /\ run' = [run EXCEPT ![r] = "storing"]
    /\ UNCHANGED <<stored, stamped, deks, missing, call>>

\* Mutant of Up: the source is used before its key is stored.
UpUnstored(r) ==
    /\ run[r] = "storing"
    /\ run' = [run EXCEPT ![r] = "up"]
    /\ deks' = [deks EXCEPT ![r] = {r}]
    /\ UNCHANGED <<stored, stamped, missing, call>>

\* connect: KV confirmed the record, and the source exists.
Up(r) ==
    /\ run[r] = "storing"
    /\ stored' = [stored EXCEPT ![r] = 0]
    /\ run' = [run EXCEPT ![r] = "up"]
    /\ deks' = [deks EXCEPT ![r] = {r}]
    /\ UNCHANGED <<stamped, missing, call>>

\* connect fails, whether or not KV stored the record; or the process ends.
Down(r) ==
    /\ run[r] \in {"storing", "up"}
    /\ run' = [run EXCEPT ![r] = "down"]
    /\ \/ UNCHANGED stored
       \/ run[r] = "storing" /\ stored' = [stored EXCEPT ![r] = 0]
    /\ deks' = [deks EXCEPT ![r] = {}]
    /\ missing' = [missing EXCEPT ![r] = [i \in Ids |-> Never]]
    /\ call' = [c \in Readers |-> IF RunOf[c] = r THEN NoCall ELSE call[c]]
    /\ UNCHANGED <<stamped>>

\* A value is sealed under active_key.
Stamp(r) ==
    /\ run[r] = "up"
    /\ stamped' = stamped \cup {r}
    /\ UNCHANGED <<stored, run, deks, missing, call>>

\* key: the cache, for the id of an envelope.
Begin(c) ==
    \E i \in stamped \cup Lost :
        /\ run[RunOf[c]] = "up"
        /\ call[c].at \in {"idle", "unknown"}
        /\ call' = [call EXCEPT ![c] =
               IF i \in deks[RunOf[c]]
               THEN NoCall
               ELSE [at |-> "missing", id |-> i, elapsed |-> 0, exists |-> FALSE]]
        /\ UNCHANGED <<stored, run, stamped, deks, missing>>

\* Mutant of Recent: an absent id is remembered for good.
RecentForever(seen) == seen # Never

\* elapsed() < MISSING_DEK_CACHE_TTL.
Recent(seen) == seen # Never /\ seen < Ttl

recently_missing(r, i) == Recent(missing[r][i])

\* key: recently_missing, and the fetch begins where it is not.
Consult(c) ==
    /\ call[c].at = "missing"
    /\ IF recently_missing(RunOf[c], call[c].id)
       THEN call' = [call EXCEPT ![c].at = "unknown"]
       ELSE call' = [call EXCEPT ![c].at = "fetch"]
    /\ UNCHANGED <<stored, run, stamped, deks, missing>>

\* fetch_dek at Vault: the record, or a confirmed 404.
Fetch(c) ==
    /\ call[c].at = "fetch"
    /\ call' = [call EXCEPT ![c].at = "answered", ![c].exists = stored[call[c].id] # Never]
    /\ UNCHANGED <<stored, run, stamped, deks, missing>>

Found(c) ==
    /\ call[c].at = "answered"
    /\ call[c].exists
    /\ call' = [call EXCEPT ![c] = NoCall]
    /\ deks' = [deks EXCEPT ![RunOf[c]] = @ \cup {call[c].id}]
    /\ UNCHANGED <<stored, run, stamped, missing>>

\* remember_missing: the expired entries leave, a full map is emptied.
Remembered(m, i) ==
    LET kept == {j \in Ids : Recent(m[j])}
        left == IF Cardinality(kept) >= MaxMissing THEN {} ELSE kept
    IN  [j \in Ids |-> IF j = i THEN 0 ELSE IF j \in left THEN m[j] ELSE Never]

remember_missing(c) ==
    /\ call[c].at = "answered"
    /\ ~call[c].exists
    /\ call' = [call EXCEPT ![c].at = "unknown", ![c].elapsed = 0]
    /\ missing' = [missing EXCEPT ![RunOf[c]] = Remembered(@, call[c].id)]
    /\ UNCHANGED <<stored, run, stamped, deks>>

\* Any other failure, and the timeout: an error, and nothing is remembered.
FetchFails(c) ==
    /\ call[c].at \in {"fetch", "answered"}
    /\ call' = [call EXCEPT ![c] = NoCall]
    /\ UNCHANGED <<stored, run, stamped, deks, missing>>

\* The operator provisions a lost record.
Provision ==
    \E i \in Lost :
        /\ stored[i] = Never
        /\ stored' = [stored EXCEPT ![i] = 0]
        /\ UNCHANGED <<run, stamped, deks, missing, call>>

Fetching(c) == call[c].at \in {"fetch", "answered"}
Older(age, most) == IF age = Never \/ age = most THEN age ELSE age + 1

\* No fetch outlives its timeout, and an answer is returned at once.
Tick ==
    /\ \A c \in Readers :
           call[c].at # "missing" /\ (Fetching(c) => call[c].elapsed < Timeout)
    /\ call' = [c \in Readers |-> IF Fetching(c) THEN [call[c] EXCEPT !.elapsed = @ + 1] ELSE NoCall]
    /\ stored' = [i \in Ids |-> IF i \in Lost THEN Older(stored[i], Ttl + Timeout) ELSE stored[i]]
    /\ missing' = [r \in Runs |-> [i \in Ids |-> Older(missing[r][i], Ttl)]]
    /\ UNCHANGED <<run, stamped, deks>>

DeksNext ==
    \/ \E r \in Runs : Wrap(r) \/ Up(r) \/ Down(r) \/ Stamp(r)
    \/ \E c \in Readers : \/ Begin(c) \/ Consult(c) \/ Fetch(c) \/ Found(c)
                          \/ remember_missing(c) \/ FetchFails(c)
    \/ Provision
    \/ Tick

DeksSpec == DeksInit /\ [][DeksNext]_dekVars

-----------------------------------------------------------------------------

Unknown(c) == call[c].at = "unknown"

\* What one run sealed, every run can open: no interleaving of another run's
\* start, crash and lookups reports its key as unknown.
SealedKeysResolve == \A c \in Readers : Unknown(c) => call[c].id \in Lost

\* The negative cache expires: an id provisioned while a lookup of it was in
\* flight is unknown for less than the TTL and that lookup's timeout together.
MissesExpire ==
    \A c \in Readers : Unknown(c) /\ stored[call[c].id] # Never
        => stored[call[c].id] < Ttl + Timeout

=============================================================================
