----------------------------- MODULE IndexKeys -----------------------------
(***************************************************************************)
(* How the proxies of a deployment come by the deterministic key of one    *)
(* name: VaultKeySource::index_key and resolve_index_key of                *)
(* crates/vault/src/source.rs.  Names do not interact, each has a record   *)
(* of its own.                                                             *)
(*                                                                         *)
(* A step is what happens between two awaits.  Vault applies a create when *)
(* it reaches it, which can be after the caller has given up: block_on     *)
(* drops the future at its timeout, not the request.                       *)
(***************************************************************************)
EXTENDS Naturals, FiniteSets

CONSTANTS
    Callers,        \* the threads that look the key up
    Proxies,        \* the processes they run in
    Home,           \* the process of each thread
    Fresh,          \* the keys OsRng can draw, each at most once
    LegacyKey,      \* the key the shared map holds, where it holds one
    None

ASSUME IndexKeysAssumption ==
    /\ Home \in [Callers -> Proxies]
    /\ LegacyKey \notin Fresh
    /\ None \notin Fresh \cup {LegacyKey}

Key == Fresh \cup {LegacyKey}

VARIABLES
    record,         \* Vault: the current version stored for the name, or None
    legacy,         \* Vault: the name's entry in the shared map, or None
    inflight,       \* creates on their way to Vault
    indexCache,     \* VaultKeySource::index_keys of each process
    place,          \* where each caller is in index_key
    holds,          \* the key it holds
    minted,         \* the keys drawn so far
    used            \* history: the keys index_key has returned

indexVars == <<record, legacy, inflight, indexCache, place, holds, minted, used>>
vault == <<record, legacy, inflight>>

IndexInit ==
    /\ record = None
    /\ legacy \in {None, LegacyKey}
    /\ inflight = {}
    /\ indexCache = [p \in Proxies |-> None]
    /\ place = [c \in Callers |-> "idle"]
    /\ holds = [c \in Callers |-> None]
    /\ minted = {}
    /\ used = {}

Goto(c, at) == place' = [place EXCEPT ![c] = at]
Take(c, k) == holds' = [holds EXCEPT ![c] = k]

\* index_key: the cache, and on a miss the lookup begins.
BeginLookup(c) ==
    /\ place[c] = "idle"
    /\ IF indexCache[Home[c]] # None
       THEN used' = used \cup {indexCache[Home[c]]} /\ UNCHANGED place
       ELSE Goto(c, "read") /\ UNCHANGED used
    /\ UNCHANGED <<vault, indexCache, holds, minted>>

\* read_index_key: the record, or a confirmed 404.
Read(c) ==
    /\ place[c] = "read"
    /\ IF record # None
       THEN Take(c, record) /\ Goto(c, "insert")
       ELSE UNCHANGED holds /\ Goto(c, "legacy")
    /\ UNCHANGED <<vault, indexCache, minted, used>>

\* adopt_legacy_index_key: the shared map has the name, and its key is sent
\* to be stored; or it has not, and a key is drawn and sent.
Adopt(c) ==
    /\ place[c] = "legacy"
    /\ legacy # None
    /\ Take(c, legacy)
    /\ inflight' = inflight \cup {[from |-> c, key |-> legacy]}
    /\ Goto(c, "migrating")
    /\ UNCHANGED <<record, legacy, indexCache, minted, used>>

Mint(c) ==
    /\ place[c] = "legacy"
    /\ legacy = None
    /\ \E k \in Fresh \ minted :
           /\ Take(c, k)
           /\ minted' = minted \cup {k}
           /\ inflight' = inflight \cup {[from |-> c, key |-> k]}
    /\ Goto(c, "creating")
    /\ UNCHANGED <<record, legacy, indexCache, used>>

\* create_index_key at Vault: cas = 0 stores only where nothing is stored.
Stored(k) == IF record = None THEN k ELSE record

\* Mutant of AfterCreate: the loser of the race keeps its own key.
KeptOnConflict(c) == "insert"

\* What the caller does with the answer: a conflict does not matter to a
\* migration, and sends a minter to read the winner's record.
AfterCreate(c) ==
    IF place[c] = "creating" /\ record # None THEN "reread" ELSE "insert"

\* A create is applied while its caller waits for the answer.
Apply(c) ==
    /\ place[c] \in {"migrating", "creating"}
    /\ [from |-> c, key |-> holds[c]] \in inflight
    /\ inflight' = inflight \ {[from |-> c, key |-> holds[c]]}
    /\ record' = Stored(holds[c])
    /\ Goto(c, AfterCreate(c))
    /\ UNCHANGED <<legacy, indexCache, holds, minted, used>>

\* A create nobody waits for any more is applied, or lost on the way.
ApplyLate ==
    \E m \in inflight :
        /\ ~(place[m.from] \in {"migrating", "creating"} /\ holds[m.from] = m.key)
        /\ inflight' = inflight \ {m}
        /\ record' \in {record, Stored(m.key)}
        /\ UNCHANGED <<legacy, indexCache, place, holds, minted, used>>

\* The create race was lost: the winner's record is read and adopted.
Reread(c) ==
    /\ place[c] = "reread"
    /\ record # None
    /\ Take(c, record)
    /\ Goto(c, "insert")
    /\ UNCHANGED <<vault, indexCache, minted, used>>

\* index_key: the answer is cached and returned.
Insert(c) ==
    /\ place[c] = "insert"
    /\ indexCache' = [indexCache EXCEPT ![Home[c]] = holds[c]]
    /\ used' = used \cup {holds[c]}
    /\ Take(c, None)
    /\ Goto(c, "idle")
    /\ UNCHANGED <<vault, minted>>

\* Vault fails, or does not answer within the timeout: the lookup fails, and
\* what it had sent stays sent.
LookupFails(c) ==
    /\ place[c] \in {"read", "legacy", "migrating", "creating", "reread"}
    /\ Goto(c, "idle")
    /\ Take(c, None)
    /\ UNCHANGED <<vault, indexCache, minted, used>>

\* A process ends and starts again: its cache is empty.
RestartProxy(p) ==
    /\ indexCache' = [indexCache EXCEPT ![p] = None]
    /\ place' = [c \in Callers |-> IF Home[c] = p THEN "idle" ELSE place[c]]
    /\ holds' = [c \in Callers |-> IF Home[c] = p THEN None ELSE holds[c]]
    /\ UNCHANGED <<vault, minted, used>>

\* The operator retires the shared map, once the name has migrated.
Retire ==
    /\ legacy # None
    /\ record # None
    /\ legacy' = None
    /\ UNCHANGED <<record, inflight, indexCache, place, holds, minted, used>>

Lookup(c) ==
    \/ BeginLookup(c) \/ Read(c) \/ Adopt(c) \/ Mint(c) \/ Apply(c) \/ Reread(c)
    \/ Insert(c) \/ LookupFails(c)

IndexNext ==
    \/ \E c \in Callers : Lookup(c)
    \/ ApplyLate
    \/ \E p \in Proxies : RestartProxy(p)
    \/ Retire

IndexSpec == IndexInit /\ [][IndexNext]_indexVars

-----------------------------------------------------------------------------

Waiting == {"read", "legacy", "migrating", "creating", "reread"}

\* The types of what Vault stores, of the caches and of the callers.
IndexTypes ==
    /\ record \in Key \cup {None}
    /\ legacy \in {None, LegacyKey}
    /\ inflight \subseteq [from : Callers, key : Key]
    /\ indexCache \in [Proxies -> Key \cup {None}]
    /\ place \in [Callers -> Waiting \cup {"idle", "insert"}]
    /\ holds \in [Callers -> Key \cup {None}]
    /\ minted \subseteq Fresh
    /\ used \subseteq Key

\* Every proxy, in every run of it, works with the key Vault has stored: no
\* race of minters, migration, lost answer or restart gives a column two keys.
OneKeyForever == \A k \in used : record = k

\* Once stored, a key is never replaced.
RecordKept == [][record # None => record' = record]_indexVars

=============================================================================
