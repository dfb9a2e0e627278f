-------------------------- MODULE IndexKeysProofs --------------------------
(***************************************************************************)
(* Proofs about module IndexKeys, for any callers, processes and keys.     *)
(***************************************************************************)
EXTENDS IndexKeys, TLAPS

\* The shared map is read by nobody who mints: keys are drawn only when it has
\* no entry, and while it has one, or somebody migrates it, nothing else is
\* stored.
LegacyFirst ==
    /\ minted # {} => legacy = None
    /\ legacy # None => record \in {None, LegacyKey}
    /\ \A m \in inflight : m.key = LegacyKey \/ m.key \in minted
    /\ \A m \in inflight : m.key = LegacyKey => legacy # None \/ record = LegacyKey

\* What a caller knows at each place of index_key.
CallerKnows(c) ==
    /\ place[c] = "insert" => holds[c] = record /\ record # None
    /\ place[c] = "reread" => record # None
    /\ place[c] = "migrating" =>
           holds[c] = LegacyKey /\ (legacy # None \/ record = LegacyKey)
    /\ place[c] = "creating" => holds[c] \in minted

\* The inductive invariant.
IInv ==
    /\ IndexTypes
    /\ OneKeyForever
    /\ LegacyFirst
    /\ \A p \in Proxies : indexCache[p] # None => indexCache[p] = record
    /\ \A c \in Callers : CallerKnows(c)

\* Nothing is stored, cached or held at the start.
LEMMA InitIInv == IndexInit => IInv
BY DEF IndexInit, IInv, IndexTypes, OneKeyForever, LegacyFirst, CallerKnows, Waiting, Key

\* A step that changes neither what Vault stores, nor what was drawn.
LEMMA VaultStill ==
    ASSUME IInv, UNCHANGED <<vault, minted>>, IndexTypes',
           \A k \in used' : record = k,
           \A p \in Proxies : indexCache'[p] # None => indexCache'[p] = record,
           \A c \in Callers : CallerKnows(c)'
    PROVE  IInv'
<1>1. LegacyFirst' /\ OneKeyForever'
  BY DEF IInv, LegacyFirst, OneKeyForever, vault
<1>2. (\A p \in Proxies : indexCache[p] # None => indexCache[p] = record)'
  BY DEF vault
<1> QED
  BY <1>1, <1>2 DEF IInv

\* A cached key is the stored one.
LEMMA BeginKeeps == ASSUME IInv, NEW c \in Callers, BeginLookup(c) PROVE IInv'
<1>1. IndexTypes'
  BY IndexKeysAssumption DEF IInv, IndexTypes, BeginLookup, Goto, vault, Waiting
<1>2. \A k \in used' : record = k
  BY IndexKeysAssumption DEF IInv, OneKeyForever, BeginLookup
<1>3. \A d \in Callers : CallerKnows(d)'
  BY DEF IInv, IndexTypes, BeginLookup, Goto, CallerKnows, vault
<1>4. \A p \in Proxies : indexCache'[p] # None => indexCache'[p] = record
  BY DEF IInv, BeginLookup
<1> QED
  BY <1>1, <1>2, <1>3, <1>4, VaultStill DEF BeginLookup

\* A caller that finds the record holds what is stored.
LEMMA ReadKeeps == ASSUME IInv, NEW c \in Callers, Read(c) PROVE IInv'
<1>1. IndexTypes'
  BY DEF IInv, IndexTypes, Read, Take, Goto, vault, Waiting
<1>2. \A d \in Callers : CallerKnows(d)'
  BY DEF IInv, IndexTypes, Read, Take, Goto, CallerKnows, vault
<1>3. /\ \A k \in used' : record = k
      /\ \A p \in Proxies : indexCache'[p] # None => indexCache'[p] = record
  BY DEF IInv, OneKeyForever, Read
<1> QED
  BY <1>1, <1>2, <1>3, VaultStill DEF Read

\* So does one that lost the race and reads again.
LEMMA RereadKeeps == ASSUME IInv, NEW c \in Callers, Reread(c) PROVE IInv'
<1>1. IndexTypes'
  BY DEF IInv, IndexTypes, Reread, Take, Goto, vault, Waiting
<1>2. \A d \in Callers : CallerKnows(d)'
  BY DEF IInv, IndexTypes, Reread, Take, Goto, CallerKnows, vault
<1>3. /\ \A k \in used' : record = k
      /\ \A p \in Proxies : indexCache'[p] # None => indexCache'[p] = record
  BY DEF IInv, OneKeyForever, Reread
<1> QED
  BY <1>1, <1>2, <1>3, VaultStill DEF Reread

\* What is cached and returned is what is stored.
LEMMA InsertKeeps == ASSUME IInv, NEW c \in Callers, Insert(c) PROVE IInv'
<1>1. holds[c] = record /\ record # None /\ record \in Key
  BY DEF IInv, IndexTypes, CallerKnows, Insert
<1>2. IndexTypes'
  BY <1>1, IndexKeysAssumption, Zenon DEF IInv, IndexTypes, Insert, Take, Goto, vault, Waiting
<1>3. \A d \in Callers : CallerKnows(d)'
  BY DEF IInv, IndexTypes, Insert, Take, Goto, CallerKnows, vault
<1>4. /\ \A k \in used' : record = k
      /\ \A p \in Proxies : indexCache'[p] # None => indexCache'[p] = record
  BY <1>1 DEF IInv, IndexTypes, OneKeyForever, Insert
<1> QED
  BY <1>2, <1>3, <1>4, VaultStill DEF Insert

\* A failed lookup leaves nothing behind but its request.
LEMMA FailKeeps == ASSUME IInv, NEW c \in Callers, LookupFails(c) PROVE IInv'
<1>1. IndexTypes'
  BY DEF IInv, IndexTypes, LookupFails, Take, Goto, vault, Waiting
<1>2. \A d \in Callers : CallerKnows(d)'
  BY DEF IInv, IndexTypes, LookupFails, Take, Goto, CallerKnows, vault
<1>3. /\ \A k \in used' : record = k
      /\ \A p \in Proxies : indexCache'[p] # None => indexCache'[p] = record
  BY DEF IInv, OneKeyForever, LookupFails
<1> QED
  BY <1>1, <1>2, <1>3, VaultStill DEF LookupFails

\* A restart forgets, it stores nothing.
LEMMA RestartKeeps == ASSUME IInv, NEW p \in Proxies, RestartProxy(p) PROVE IInv'
<1>1. IndexTypes'
  BY DEF IInv, IndexTypes, RestartProxy, vault, Waiting
<1>2. \A d \in Callers : CallerKnows(d)'
  BY DEF IInv, IndexTypes, RestartProxy, CallerKnows, vault
<1>3. /\ \A k \in used' : record = k
      /\ \A q \in Proxies : indexCache'[q] # None => indexCache'[q] = record
  BY DEF IInv, IndexTypes, OneKeyForever, RestartProxy
<1> QED
  BY <1>1, <1>2, <1>3, VaultStill DEF RestartProxy

\* The shared map's key is on its way, or a drawn one: both are accounted for.
LEMMA AdoptKeeps == ASSUME IInv, NEW c \in Callers, Adopt(c) PROVE IInv'
<1>1. legacy = LegacyKey /\ LegacyKey # None /\ LegacyKey \in Key
  BY IndexKeysAssumption DEF IInv, IndexTypes, Adopt, Key
<1>2. IndexTypes'
  BY <1>1 DEF IInv, IndexTypes, Adopt, Take, Goto, Waiting
<1>3. \A d \in Callers : CallerKnows(d)'
  BY <1>1 DEF IInv, IndexTypes, Adopt, Take, Goto, CallerKnows
<1>4. LegacyFirst'
  BY <1>1 DEF IInv, LegacyFirst, Adopt
<1> QED
  BY <1>2, <1>3, <1>4 DEF IInv, OneKeyForever, Adopt

\* A key is drawn only where the shared map has none.
LEMMA MintKeeps == ASSUME IInv, NEW c \in Callers, Mint(c) PROVE IInv'
<1>1. PICK k \in Fresh \ minted :
          /\ Take(c, k)
          /\ minted' = minted \cup {k}
          /\ inflight' = inflight \cup {[from |-> c, key |-> k]}
  BY DEF Mint
<1>2. k \in Key /\ k # LegacyKey
  BY IndexKeysAssumption DEF Key
<1>3. IndexTypes'
  BY <1>1, <1>2 DEF IInv, IndexTypes, Mint, Take, Goto, Waiting
<1>4. \A d \in Callers : CallerKnows(d)'
  BY <1>1 DEF IInv, IndexTypes, Mint, Take, Goto, CallerKnows
<1>5. LegacyFirst'
  BY <1>1, <1>2 DEF IInv, LegacyFirst, Mint
<1> QED
  BY <1>3, <1>4, <1>5 DEF IInv, OneKeyForever, Mint

\* A create that is applied stores its key or changes nothing, and stores a
\* drawn key only where the shared map has none.
LEMMA StoreKeeps ==
    ASSUME IInv, NEW m \in inflight, UNCHANGED <<legacy, minted, used, indexCache>>,
           inflight' = inflight \ {m}, record' \in {record, Stored(m.key)}
    PROVE  /\ LegacyFirst' /\ OneKeyForever'
           /\ record' \in Key \cup {None}
           /\ record # None => record' = record
           /\ \A p \in Proxies : indexCache'[p] # None => indexCache'[p] = record'
<1>1. m.key \in Key /\ m.key # None
  BY IndexKeysAssumption DEF IInv, IndexTypes, Key
<1>2. /\ record # None => record' = record
      /\ record' \in {record, m.key}
  BY DEF Stored
<1>3. record' \in Key \cup {None}
  BY <1>1, <1>2 DEF IInv, IndexTypes
<1>4. OneKeyForever'
  BY <1>2, IndexKeysAssumption DEF IInv, IndexTypes, OneKeyForever, Key
<1>5. \A p \in Proxies : indexCache'[p] # None => indexCache'[p] = record'
  BY <1>2 DEF IInv
<1>6. legacy # None => m.key = LegacyKey
  BY DEF IInv, LegacyFirst
<1>7. LegacyFirst'
  BY <1>2, <1>6, IndexKeysAssumption DEF IInv, LegacyFirst
<1> QED
  BY <1>2, <1>3, <1>4, <1>5, <1>7

\* What callers know survives a record that appears or stays.
LEMMA KnowsStored ==
    ASSUME IInv, NEW d \in Callers, record # None => record' = record,
           place'[d] = place[d], holds'[d] = holds[d], UNCHANGED <<legacy, minted>>
    PROVE  CallerKnows(d)'
<1>1. CallerKnows(d)
  BY DEF IInv
<1> QED
  BY <1>1, IndexKeysAssumption DEF CallerKnows

\* The caller that waits for its create learns what is stored, or reads it.
LEMMA ApplyKeeps == ASSUME IInv, NEW c \in Callers, Apply(c) PROVE IInv'
<1> DEFINE m == [from |-> c, key |-> holds[c]]
<1>1. m \in inflight /\ inflight' = inflight \ {m} /\ record' = Stored(m.key)
  BY DEF Apply
<1>2. holds[c] \in Key /\ holds[c] # None
  BY <1>1, IndexKeysAssumption DEF IInv, IndexTypes, Key
<1>3. /\ LegacyFirst' /\ OneKeyForever'
      /\ record' \in Key \cup {None}
      /\ record # None => record' = record
      /\ \A p \in Proxies : indexCache'[p] # None => indexCache'[p] = record'
  <2> HIDE DEF m
  <2> QED
    BY <1>1, StoreKeeps DEF Apply
<1>4. CallerKnows(c)
  BY DEF IInv
<1>5. place'[c] = AfterCreate(c) /\ holds'[c] = holds[c]
  BY DEF Apply, Goto, IInv, IndexTypes
<1>6. CallerKnows(c)'
  <2>1. CASE record = None
    BY <2>1, <1>1, <1>2, <1>5 DEF CallerKnows, AfterCreate, Stored
  <2>2. CASE record # None /\ place[c] = "creating"
    BY <2>2, <1>3, <1>5 DEF CallerKnows, AfterCreate
  <2>3. CASE record # None /\ place[c] = "migrating"
    <3>1. holds[c] = LegacyKey /\ record = LegacyKey
      BY <2>3, <1>4 DEF CallerKnows, IInv, LegacyFirst
    <3> QED
      BY <2>3, <3>1, <1>3, <1>5 DEF CallerKnows, AfterCreate
  <2> QED
    BY <2>1, <2>2, <2>3 DEF Apply
<1>7. ASSUME NEW d \in Callers PROVE CallerKnows(d)'
  <2>1. CASE d # c
    <3>1. place'[d] = place[d] /\ holds'[d] = holds[d]
      BY <2>1 DEF Apply, Goto, IInv, IndexTypes
    <3> QED
      BY <3>1, <1>3, KnowsStored DEF Apply
  <2> QED
    BY <2>1, <1>6
<1>8. IndexTypes'
  <2>1. place' \in [Callers -> Waiting \cup {"idle", "insert"}]
    BY DEF Apply, Goto, AfterCreate, IInv, IndexTypes, Waiting
  <2> HIDE DEF m
  <2> QED
    BY <1>1, <1>3, <2>1 DEF Apply, IInv, IndexTypes
<1> QED
  BY <1>3, <1>7, <1>8 DEF IInv

\* A create applied late stores nothing over a stored key.
LEMMA LateKeeps == IInv /\ ApplyLate => IInv'
<1> SUFFICES ASSUME IInv, ApplyLate
             PROVE  IInv'
  OBVIOUS
<1>1. PICK m \in inflight :
          inflight' = inflight \ {m} /\ record' \in {record, Stored(m.key)}
  BY DEF ApplyLate
<1>2. UNCHANGED <<legacy, indexCache, place, holds, minted, used>>
  BY DEF ApplyLate
<1>3. /\ LegacyFirst' /\ OneKeyForever'
      /\ record' \in Key \cup {None}
      /\ record # None => record' = record
      /\ \A p \in Proxies : indexCache'[p] # None => indexCache'[p] = record'
  BY <1>1, <1>2, StoreKeeps
<1>4. \A d \in Callers : CallerKnows(d)'
  BY <1>2, <1>3, KnowsStored
<1>5. IndexTypes'
  BY <1>1, <1>2, <1>3 DEF IInv, IndexTypes
<1> QED
  BY <1>3, <1>4, <1>5 DEF IInv

\* The shared map is retired only once its key is the stored one.
LEMMA RetireKeeps == IInv /\ Retire => IInv'
<1> SUFFICES ASSUME IInv, Retire
             PROVE  IInv'
  OBVIOUS
<1>1. record = LegacyKey /\ legacy' = None
  BY DEF IInv, LegacyFirst, Retire
<1>2. IndexTypes' /\ LegacyFirst' /\ OneKeyForever'
  BY <1>1 DEF IInv, IndexTypes, LegacyFirst, OneKeyForever, Retire
<1>3. \A d \in Callers : CallerKnows(d)'
  BY <1>1 DEF IInv, CallerKnows, Retire
<1> QED
  BY <1>2, <1>3 DEF IInv, Retire

\* Every step keeps the invariant, and never replaces a stored key.
LEMMA NextKeeps ==
    IInv /\ [IndexNext]_indexVars => IInv' /\ (record # None => record' = record)
<1> SUFFICES ASSUME IInv, [IndexNext]_indexVars
             PROVE  IInv' /\ (record # None => record' = record)
  OBVIOUS
<1>1. ASSUME NEW c \in Callers, Lookup(c) PROVE IInv'
  BY <1>1, BeginKeeps, ReadKeeps, AdoptKeeps, MintKeeps, ApplyKeeps, RereadKeeps,
     InsertKeeps, FailKeeps, Zenon DEF Lookup
<1>2. ASSUME NEW c \in Callers, Lookup(c) PROVE record # None => record' = record
  BY <1>2 DEF Lookup, BeginLookup, Read, Adopt, Mint, Apply, Reread, Insert, LookupFails,
     Stored, vault
<1>3. CASE ApplyLate
  BY <1>3, LateKeeps DEF ApplyLate, Stored
<1>4. CASE Retire
  BY <1>4, RetireKeeps DEF Retire
<1>5. ASSUME NEW p \in Proxies, RestartProxy(p)
      PROVE  IInv' /\ (record # None => record' = record)
  BY <1>5, RestartKeeps, Zenon DEF RestartProxy, vault
<1>6. CASE UNCHANGED indexVars
  <2>1. UNCHANGED <<vault, minted>> /\ IndexTypes'
    BY <1>6 DEF IInv, IndexTypes, indexVars, vault
  <2>2. \A d \in Callers : CallerKnows(d)'
    BY <1>6 DEF IInv, CallerKnows, indexVars
  <2>3. UNCHANGED <<record, used, indexCache>>
    BY <1>6 DEF indexVars
  <2> QED
    BY <2>1, <2>2, <2>3, VaultStill DEF IInv, OneKeyForever
<1> QED
  BY <1>1, <1>2, <1>3, <1>4, <1>5, <1>6 DEF IndexNext

\* The invariant holds in every reachable state.
THEOREM IndexInvariant == IndexSpec => []IInv
<1>1. IInv /\ [IndexNext]_indexVars => IInv'
  BY NextKeeps
<1> QED
  BY <1>1, InitIInv, PTL DEF IndexSpec

\* Every key index_key ever returned, in any process, is the stored one.
THEOREM OneKeyPerName == IndexSpec => []OneKeyForever
<1>1. IInv => OneKeyForever
  BY DEF IInv
<1> QED
  BY <1>1, IndexInvariant, PTL

\* No step replaces a stored key.
THEOREM RecordNeverReplaced == IndexSpec => RecordKept
<1>1. IInv /\ [IndexNext]_indexVars => [record # None => record' = record]_indexVars
  BY NextKeeps
<1> QED
  BY <1>1, IndexInvariant, PTL DEF IndexSpec, RecordKept

=============================================================================
