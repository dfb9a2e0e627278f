----------------------------- MODULE DeksProofs -----------------------------
(***************************************************************************)
(* Proofs about modules Deks and TokenWatch, for any runs, readers and     *)
(* lost ids, and for any limits and timings.                               *)
(***************************************************************************)
EXTENDS Deks, TokenWatch, Integers, TLAPS

(* The data keys *)

Age == Nat \cup {Never}
Places == {"idle", "missing", "fetch", "answered", "unknown"}
Call == [at : Places, id : Ids \cup {Never}, elapsed : Nat, exists : BOOLEAN]

DeksTypes ==
    /\ stored \in [Ids -> Age]
    /\ run \in [Runs -> {"new", "storing", "up", "down"}]
    /\ stamped \subseteq Runs
    /\ deks \in [Runs -> SUBSET Ids]
    /\ missing \in [Runs -> [Ids -> Age]]
    /\ call \in [Readers -> Call]

\* A run seals only once its key is stored, so no key that is in an envelope of
\* a run is ever found absent.
StoredFirst ==
    /\ \A r \in Runs : run[r] = "up" \/ r \in stamped => stored[r] # Never
    /\ \A r \in Runs, i \in Ids : missing[r][i] # Never => i \in Lost

\* An entry of the negative cache is expired, or was absent at most a fetch
\* longer ago than it was entered.
MissesAge ==
    \A r \in Runs, i \in Ids : missing[r][i] # Never =>
        /\ missing[r][i] <= Ttl
        /\ stored[i] # Never => \/ missing[r][i] = Ttl
                                \/ stored[i] <= missing[r][i] + Timeout

\* What a call of key knows at each place.
CallKnows(c) ==
    /\ call[c].at # "idle" => call[c].id \in stamped \cup Lost
    /\ call[c].at = "missing" => call[c].elapsed = 0
    /\ call[c].at \in {"fetch", "answered"} => call[c].elapsed <= Timeout
    /\ call[c].at = "answered" /\ ~call[c].exists =>
           /\ call[c].id \in Lost
           /\ stored[call[c].id] # Never => stored[call[c].id] <= call[c].elapsed
    /\ call[c].at = "unknown" =>
           /\ call[c].id \in Lost
           /\ stored[call[c].id] # Never => stored[call[c].id] < Ttl + Timeout

\* The inductive invariant.
DeksInv ==
    /\ DeksTypes
    /\ StoredFirst
    /\ MissesAge
    /\ \A c \in Readers : CallKnows(c)

\* Nothing is stored, sealed or looked up at the start.
LEMMA InitDeks == DeksInit => DeksInv
BY DeksAssumption DEF DeksInit, DeksInv, DeksTypes, StoredFirst, MissesAge, CallKnows,
    NoCall, Ids, Age, Call, Places

\* The ids of a run and the lost ones are apart, and each thread has its run.
LEMMA IdFacts ==
    /\ \A r \in Runs : r \in Ids /\ r \notin Lost
    /\ \A i \in Lost : i \in Ids
    /\ \A c \in Readers : RunOf[c] \in Runs
BY DeksAssumption DEF Ids

\* A run is wrapped, stored, started and ended, and seals.
LEMMA RunStepsKeep ==
    ASSUME DeksInv, NEW r \in Runs, Wrap(r) \/ Up(r) \/ Down(r) \/ Stamp(r) PROVE DeksInv'
<1>1. CASE Wrap(r)
  BY <1>1 DEF Wrap, DeksInv, DeksTypes, StoredFirst, MissesAge, CallKnows
<1>2. CASE Up(r)
  <2>1. DeksTypes' /\ StoredFirst'
    BY <1>2, IdFacts, DeksAssumption DEF Up, DeksInv, DeksTypes, StoredFirst, Age
  <2>2. MissesAge'
    BY <1>2, IdFacts, DeksAssumption DEF Up, DeksInv, DeksTypes, StoredFirst, MissesAge, Age
  <2>3. \A c \in Readers : CallKnows(c)'
    BY <1>2, IdFacts DEF Up, DeksInv, DeksTypes, CallKnows
  <2> QED
    BY <2>1, <2>2, <2>3 DEF DeksInv
<1>3. CASE Down(r)
  <2>1. DeksTypes' /\ StoredFirst'
    BY <1>3, IdFacts, DeksAssumption
    DEF Down, DeksInv, DeksTypes, StoredFirst, Age, NoCall, Call, Places
  <2>2. MissesAge'
    BY <1>3, IdFacts, DeksAssumption DEF Down, DeksInv, DeksTypes, StoredFirst, MissesAge, Age
  <2>3. \A c \in Readers : CallKnows(c)'
    BY <1>3, IdFacts DEF Down, DeksInv, DeksTypes, CallKnows, NoCall
  <2> QED
    BY <2>1, <2>2, <2>3 DEF DeksInv
<1>4. CASE Stamp(r)
  BY <1>4 DEF Stamp, DeksInv, DeksTypes, StoredFirst, MissesAge, CallKnows
<1> QED
  BY <1>1, <1>2, <1>3, <1>4

\* A step of one call that leaves Vault, the runs and the cache alone.
LEMMA CallStill ==
    ASSUME DeksInv, NEW c \in Readers, UNCHANGED <<stored, run, stamped, missing>>,
           deks' \in [Runs -> SUBSET Ids], call' \in [Readers -> Call],
           \A d \in Readers : d # c => call'[d] = call[d],
           CallKnows(c)'
    PROVE  DeksInv'
<1>1. DeksTypes' /\ StoredFirst' /\ MissesAge'
  BY DEF DeksInv, DeksTypes, StoredFirst, MissesAge
<1>2. \A d \in Readers : CallKnows(d)'
  BY DEF DeksInv, CallKnows
<1> QED
  BY <1>1, <1>2 DEF DeksInv

\* A call that moves on is a call.
LEMMA CallMoves ==
    ASSUME DeksTypes, NEW c \in Readers
    PROVE  /\ [call EXCEPT ![c] = NoCall] \in [Readers -> Call]
           /\ \A p \in Places :
                  /\ [call EXCEPT ![c].at = p] \in [Readers -> Call]
                  /\ \A b \in BOOLEAN :
                         [call EXCEPT ![c].at = p, ![c].exists = b] \in [Readers -> Call]
                  /\ \A e \in Nat :
                         [call EXCEPT ![c].at = p, ![c].elapsed = e] \in [Readers -> Call]
<1>1. NoCall \in Call
  BY DEF NoCall, Call, Places
<1>2. ASSUME NEW p \in Places PROVE [call EXCEPT ![c].at = p] \in [Readers -> Call]
  BY Zenon DEF DeksTypes, Call
<1>3. ASSUME NEW p \in Places, NEW b \in BOOLEAN
      PROVE  [call EXCEPT ![c].at = p, ![c].exists = b] \in [Readers -> Call]
  BY Zenon DEF DeksTypes, Call
<1>4. ASSUME NEW p \in Places, NEW e \in Nat
      PROVE  [call EXCEPT ![c].at = p, ![c].elapsed = e] \in [Readers -> Call]
  BY Zenon DEF DeksTypes, Call
<1> QED
  BY <1>1, <1>2, <1>3, <1>4, Zenon DEF DeksTypes

\* A call begins with the id of an envelope.
LEMMA BeginKeeps == ASSUME DeksInv, NEW c \in Readers, Begin(c) PROVE DeksInv'
<1>1. call' \in [Readers -> Call]
  BY IdFacts DEF Begin, DeksInv, DeksTypes, NoCall, Call, Places, Ids
<1>2. PICK i \in stamped \cup Lost :
          \/ call'[c] = NoCall
          \/ call'[c] = [at |-> "missing", id |-> i, elapsed |-> 0, exists |-> FALSE]
  BY Zenon DEF Begin, DeksInv, DeksTypes
<1>3. CallKnows(c)'
  BY <1>2 DEF Begin, CallKnows, NoCall
<1> QED
  BY <1>1, <1>3, CallStill, Zenon DEF Begin, DeksInv, DeksTypes

\* An id that the negative cache answers for is a lost one, and recently so.
LEMMA ConsultKeeps == ASSUME DeksInv, NEW c \in Readers, Consult(c) PROVE DeksInv'
<1>1. call' \in [Readers -> Call]
  <2>1. \/ call' = [call EXCEPT ![c].at = "unknown"]
        \/ call' = [call EXCEPT ![c].at = "fetch"]
    BY DEF Consult
  <2>2. "unknown" \in Places /\ "fetch" \in Places
    BY DEF Places
  <2> QED
    BY <2>1, <2>2, CallMoves DEF DeksInv
<1>2. /\ call[c] \in Call /\ call[c].id \in stamped \cup Lost /\ call[c].id \in Ids
      /\ RunOf[c] \in Runs
  BY IdFacts DEF Consult, DeksInv, DeksTypes, CallKnows
<1>3. CASE recently_missing(RunOf[c], call[c].id)
  <2> DEFINE i == call[c].id
             m == missing[RunOf[c]][call[c].id]
  <2>1. m \in Nat /\ m < Ttl /\ m # Never
    BY <1>2, <1>3 DEF recently_missing, Recent, DeksInv, DeksTypes, Age
  <2>2. i \in Lost
    BY <1>2, <2>1 DEF DeksInv, StoredFirst
  <2>3. stored[i] # Never => stored[i] \in Nat /\ stored[i] <= m + Timeout
    BY <1>2, <2>1, DeksAssumption DEF DeksInv, DeksTypes, MissesAge, Age
  <2>4. stored[i] # Never => stored[i] < Ttl + Timeout
    BY <2>1, <2>3, DeksAssumption
  <2>5. call' = [call EXCEPT ![c].at = "unknown"] /\ UNCHANGED <<stored, stamped>>
    BY <1>3 DEF Consult
  <2>6. call'[c].at = "unknown" /\ call'[c].id = i
    BY <1>2, <2>5 DEF DeksInv, DeksTypes, Call
  <2> HIDE DEF i, m
  <2>7. CallKnows(c)'
    BY <2>2, <2>4, <2>5, <2>6 DEF CallKnows
  <2> QED
    BY <1>1, <2>7, CallStill DEF Consult, DeksInv, DeksTypes
<1>4. CASE ~recently_missing(RunOf[c], call[c].id)
  <2>1. /\ call'[c].at = "fetch" /\ call'[c].id = call[c].id
        /\ call'[c].elapsed = 0
    BY <1>4 DEF Consult, DeksInv, DeksTypes, CallKnows, Call
  <2>2. CallKnows(c)'
    BY <1>2, <2>1, DeksAssumption DEF Consult, CallKnows
  <2> QED
    BY <1>1, <2>2, CallStill DEF Consult, DeksInv, DeksTypes
<1> QED
  BY <1>3, <1>4

\* Vault answers with a record or without one; an absent one is a lost one.
LEMMA FetchKeeps == ASSUME DeksInv, NEW c \in Readers, Fetch(c) PROVE DeksInv'
<1>1. call' \in [Readers -> Call]
  BY CallMoves, Zenon DEF Fetch, DeksInv, Places
<1>2. /\ call'[c].at = "answered" /\ call'[c].id = call[c].id
      /\ call'[c].elapsed = call[c].elapsed
      /\ call'[c].exists = (stored[call[c].id] # Never)
  BY DEF Fetch, DeksInv, DeksTypes, Call
<1>3. /\ call[c].id \in stamped \cup Lost /\ call[c].elapsed <= Timeout
      /\ stored[call[c].id] = Never => call[c].id \in Lost
  BY DEF Fetch, DeksInv, DeksTypes, StoredFirst, CallKnows
<1>4. CallKnows(c)'
  BY <1>2, <1>3, Zenon DEF Fetch, CallKnows
<1> QED
  BY <1>1, <1>4, CallStill DEF Fetch, DeksInv, DeksTypes

\* A key that was found is cached; an error leaves nothing behind.
LEMMA ReturnKeeps ==
    ASSUME DeksInv, NEW c \in Readers, Found(c) \/ FetchFails(c) PROVE DeksInv'
<1>1. call' \in [Readers -> Call]
  <2>1. call' = [call EXCEPT ![c] = NoCall]
    BY DEF Found, FetchFails
  <2> QED
    BY <2>1, CallMoves DEF DeksInv
<1>2. CallKnows(c)'
  <2>1. call'[c] = NoCall
    BY DEF Found, FetchFails, DeksInv, DeksTypes
  <2> QED
    BY <2>1 DEF CallKnows, NoCall
<1>3. deks' \in [Runs -> SUBSET Ids]
  BY IdFacts DEF Found, FetchFails, DeksInv, DeksTypes, CallKnows
<1> QED
  BY <1>1, <1>2, <1>3, CallStill DEF Found, FetchFails, DeksInv, DeksTypes

\* remember_missing enters one id, and keeps or drops the others.
LEMMA RememberedFacts ==
    ASSUME NEW m \in [Ids -> Age], NEW i \in Ids
    PROVE  /\ Remembered(m, i) \in [Ids -> Age]
           /\ \A j \in Ids : \/ Remembered(m, i)[j] \in {m[j], Never}
                             \/ j = i /\ Remembered(m, i)[j] = 0
BY DEF Remembered, Age

\* What is entered into the negative cache is a lost id, absent no longer ago
\* than the fetch took; the entries that stay are what they were.
LEMMA RememberKeeps == ASSUME DeksInv, NEW c \in Readers, remember_missing(c) PROVE DeksInv'
<1> DEFINE i == call[c].id
           r == RunOf[c]
<1>1. /\ call[c] \in Call /\ i \in Lost /\ i \in Ids /\ r \in Runs
      /\ stored[i] # Never => stored[i] \in Nat /\ stored[i] <= Timeout
  BY IdFacts, DeksAssumption
  DEF remember_missing, DeksInv, DeksTypes, CallKnows, Call, Age
<1>2. call' \in [Readers -> Call]
  BY CallMoves, Zenon DEF remember_missing, DeksInv, Places
<1>3. /\ missing[r] \in [Ids -> Age]
      /\ missing' = [missing EXCEPT ![r] = Remembered(missing[r], i)]
  BY <1>1 DEF remember_missing, DeksInv, DeksTypes
<1>4. /\ missing' \in [Runs -> [Ids -> Age]]
      /\ \A s \in Runs, j \in Ids : \/ missing'[s][j] \in {missing[s][j], Never}
                                    \/ s = r /\ j = i /\ missing'[s][j] = 0
  BY <1>1, <1>3, RememberedFacts DEF DeksInv, DeksTypes
<1>5. DeksTypes'
  BY <1>2, <1>4 DEF remember_missing, DeksInv, DeksTypes
<1>6. StoredFirst'
  BY <1>1, <1>4 DEF remember_missing, DeksInv, StoredFirst
<1>7. MissesAge'
  <2> SUFFICES ASSUME NEW s \in Runs, NEW j \in Ids, missing'[s][j] # Never
               PROVE  /\ missing'[s][j] <= Ttl
                      /\ stored[j] # Never => \/ missing'[s][j] = Ttl
                                              \/ stored[j] <= missing'[s][j] + Timeout
    BY DEF MissesAge, remember_missing
  <2> QED
    BY <1>1, <1>4, DeksAssumption DEF DeksInv, MissesAge
<1>8. CallKnows(c)'
  <2>1. call'[c].at = "unknown" /\ call'[c].id = i
    BY DEF remember_missing, DeksInv, DeksTypes, Call
  <2>2. stored[i] # Never => stored[i] < Ttl + Timeout
    BY <1>1, DeksAssumption
  <2> HIDE DEF i, r
  <2> QED
    BY <1>1, <2>1, <2>2 DEF CallKnows, remember_missing
<1>9. \A d \in Readers : CallKnows(d)'
  BY <1>8 DEF remember_missing, DeksInv, DeksTypes, CallKnows
<1> QED
  BY <1>5, <1>6, <1>7, <1>9 DEF DeksInv

\* A lost record appears.
LEMMA ProvisionKeeps == ASSUME DeksInv, Provision PROVE DeksInv'
<1>1. DeksTypes' /\ StoredFirst'
  BY IdFacts, DeksAssumption DEF Provision, DeksInv, DeksTypes, StoredFirst, Age
<1>2. MissesAge'
  BY IdFacts, DeksAssumption DEF Provision, DeksInv, DeksTypes, MissesAge, Age
<1>3. \A c \in Readers : CallKnows(c)'
  BY IdFacts, DeksAssumption DEF Provision, DeksInv, DeksTypes, CallKnows, Call
<1> QED
  BY <1>1, <1>2, <1>3 DEF DeksInv

\* Time passes for the records, the cache and the fetches alike.
LEMMA TickKeeps == ASSUME DeksInv, Tick PROVE DeksInv'
<1> DEFINE most == Ttl + Timeout
<1>1. /\ \A i \in Ids : stored[i] \in Age
      /\ \A r \in Runs, i \in Ids : missing[r][i] \in Age
      /\ \A c \in Readers : call[c] \in Call
      /\ most \in Nat
  BY DeksAssumption DEF DeksInv, DeksTypes
<1>2. \A i \in Ids : /\ stored'[i] \in Age
                     /\ stored'[i] = Never <=> stored[i] = Never
                     /\ stored[i] # Never => stored'[i] <= stored[i] + 1
  BY <1>1, DeksAssumption DEF Tick, Older, Age
<1>3. \A r \in Runs, i \in Ids :
          /\ missing'[r][i] \in Age
          /\ missing'[r][i] = Never <=> missing[r][i] = Never
          /\ missing[r][i] # Never =>
                 \/ missing[r][i] = Ttl /\ missing'[r][i] = Ttl
                 \/ missing[r][i] < Ttl /\ missing'[r][i] = missing[r][i] + 1
  <2> TAKE r \in Runs, i \in Ids
  <2>1. missing'[r][i] = Older(missing[r][i], Ttl)
    BY DEF Tick
  <2>2. missing[r][i] \in Age /\ (missing[r][i] # Never => missing[r][i] <= Ttl)
    BY <1>1 DEF DeksInv, MissesAge
  <2> QED
    BY <2>1, <2>2, DeksAssumption DEF Older, Age
<1>4. \A c \in Readers :
          /\ call'[c] \in Call
          /\ \/ call'[c] = NoCall
             \/ /\ Fetching(c)
                /\ call'[c].at = call[c].at /\ call'[c].id = call[c].id
                /\ call'[c].exists = call[c].exists
                /\ call'[c].elapsed = call[c].elapsed + 1 /\ call[c].elapsed < Timeout
  <2> TAKE c \in Readers
  <2>1. CASE Fetching(c)
    <3>1. call'[c] = [call[c] EXCEPT !.elapsed = @ + 1] /\ call[c].elapsed < Timeout
      BY <2>1 DEF Tick
    <3> QED
      BY <1>1, <2>1, <3>1 DEF Call
  <2>2. CASE ~Fetching(c)
    BY <2>2 DEF Tick, NoCall, Call, Places
  <2> QED
    BY <2>1, <2>2
<1>5. DeksTypes'
  BY <1>2, <1>3, <1>4 DEF DeksInv, DeksTypes, Tick
<1>6. StoredFirst'
  BY <1>2, <1>3, IdFacts DEF DeksInv, StoredFirst, Tick
<1>7. MissesAge'
  <2> SUFFICES ASSUME NEW r \in Runs, NEW i \in Ids, missing'[r][i] # Never
               PROVE  /\ missing'[r][i] <= Ttl
                      /\ stored'[i] # Never => \/ missing'[r][i] = Ttl
                                               \/ stored'[i] <= missing'[r][i] + Timeout
    BY DEF MissesAge
  <2>1. missing[r][i] \in Nat /\ missing[r][i] <= Ttl
        /\ (stored'[i] # Never => stored[i] \in Nat /\ stored'[i] \in Nat)
    BY <1>1, <1>2, <1>3 DEF DeksInv, MissesAge, Age
  <2>2. stored'[i] # Never => \/ missing[r][i] = Ttl
                              \/ stored[i] <= missing[r][i] + Timeout
    BY <1>2, <1>3 DEF DeksInv, MissesAge
  <2> QED
    BY <1>2, <1>3, <2>1, <2>2, DeksAssumption
<1>8. ASSUME NEW c \in Readers PROVE CallKnows(c)'
  <2>1. CASE call'[c] = NoCall
    BY <2>1 DEF NoCall, CallKnows
  <2>2. CASE call'[c] # NoCall
    <3>1. /\ call[c].at \in {"fetch", "answered"}
          /\ call'[c].at = call[c].at /\ call'[c].id = call[c].id
          /\ call'[c].exists = call[c].exists
          /\ call'[c].elapsed = call[c].elapsed + 1 /\ call[c].elapsed < Timeout
          /\ call[c].elapsed \in Nat /\ call[c].id \in stamped \cup Lost
      BY <1>1, <1>4, <2>2 DEF Fetching, Call, DeksInv, CallKnows
    <3>2. call[c].at = "answered" /\ ~call[c].exists => call[c].id \in Lost
      BY DEF DeksInv, CallKnows
    <3>3. call[c].at = "answered" /\ ~call[c].exists /\ stored'[call[c].id] # Never
              => stored'[call[c].id] <= call[c].elapsed + 1
      BY <1>1, <1>2, <3>1, <3>2, IdFacts DEF DeksInv, CallKnows, Age
    <3> QED
      BY <3>1, <3>2, <3>3, DeksAssumption DEF CallKnows, Tick
  <2> QED
    BY <2>1, <2>2
<1> QED
  BY <1>5, <1>6, <1>7, <1>8 DEF DeksInv

\* Every step keeps the invariant.
LEMMA NextDeks == DeksInv /\ [DeksNext]_dekVars => DeksInv'
<1>1. DeksInv /\ UNCHANGED dekVars => DeksInv'
  BY DEF dekVars, DeksInv, DeksTypes, StoredFirst, MissesAge, CallKnows
<1> QED
  BY <1>1, RunStepsKeep, BeginKeeps, ConsultKeeps, FetchKeeps, ReturnKeeps, RememberKeeps,
     ProvisionKeeps, TickKeeps DEF DeksNext

\* No interleaving of the runs reports a key that one of them sealed with as
\* unknown (connect stores before it returns, and key caches only confirmed 404s).
THEOREM SealedKeysTheorem == DeksSpec => []SealedKeysResolve
<1>1. DeksInv => SealedKeysResolve
  BY DEF DeksInv, SealedKeysResolve, CallKnows, Unknown
<1> QED
  BY InitDeks, NextDeks, <1>1, PTL DEF DeksSpec

\* An id provisioned late is reported unknown for less than the TTL of the negative
\* cache and one lookup's timeout together, whatever the bounds are.
THEOREM MissesExpireTheorem == DeksSpec => []MissesExpire
<1>1. DeksInv => MissesExpire
  BY DEF DeksInv, MissesExpire, CallKnows, Unknown
<1> QED
  BY InitDeks, NextDeks, <1>1, PTL DEF DeksSpec

-----------------------------------------------------------------------------
(* The lease of the token *)

\* The longest a round of the watch takes: a sleep and a check.
Round == Interval + MaxCheck

\* How long ago the last check ended.
SinceCheck == IF watch = "sleep" THEN elapsed ELSE Interval + elapsed

\* The inductive invariant: the warnings so far make up for what the lease has
\* lost of the room the threshold leaves, a round for each of them.
TokenInv ==
    /\ lease \in Nat /\ elapsed \in Nat /\ warned \in Nat /\ seen \in Nat
    /\ watch \in {"sleep", "ask", "told"}
    /\ watch = "sleep" => elapsed <= Interval
    /\ watch # "sleep" => elapsed <= MaxCheck
    /\ watch = "told" => seen <= lease + elapsed
    /\ warned * Round + lease + SinceCheck >= Room - MaxCheck + 1

\* Each round that is warned about is paid for.
LEMMA OneMore == ASSUME NEW w \in Nat PROVE w * Round \in Nat /\ (w + 1) * Round = w * Round + Round
BY TokenAssumption DEF Round

\* As many warnings as there are whole rounds.
LEMMA WholeRounds ==
    ASSUME NEW w \in Nat, NEW n \in Int, (w + 1) * Round > n
    PROVE  w >= n \div Round
<1> DEFINE q == n \div Round
<1>1. Round \in Nat \ {0}
  BY TokenAssumption DEF Round
<1>2. q \in Int /\ q * Round <= n
  BY <1>1
<1>3. ASSUME q >= w + 1 PROVE FALSE
  <2>1. q * Round >= (w + 1) * Round
    BY <1>1, <1>2, <1>3
  <2> QED
    BY <1>1, <1>2, <2>1
<1> QED
  BY <1>2, <1>3

\* The first lease is at least what there is room for.
LEMMA InitToken == TokenInit => TokenInv
BY TokenAssumption DEF TokenInit, TokenInv, Round, Room, SinceCheck

\* Every step keeps the invariant.
LEMMA NextToken == TokenInv /\ [TokenNext]_tokenVars => TokenInv'
<1> SUFFICES ASSUME TokenInv, [TokenNext]_tokenVars PROVE TokenInv'
  OBVIOUS
<1>1. warned * Round \in Nat /\ (warned + 1) * Round = warned * Round + Round
  BY OneMore DEF TokenInv
<1>2. CASE Pass
  BY <1>1, <1>2, TokenAssumption DEF TokenInv, Pass, SinceCheck
<1>3. CASE Wake
  BY <1>1, <1>3, TokenAssumption DEF TokenInv, Wake, SinceCheck
<1>4. CASE Told
  BY <1>1, <1>4, TokenAssumption DEF TokenInv, Told, SinceCheck
<1>5. CASE CheckHealthy
  BY <1>1, <1>5, TokenAssumption DEF TokenInv, CheckHealthy, Healthy, Sleep, SinceCheck, Room
<1>6. CASE CheckRenewed
  <2>1. warned' * Round = 0
    BY <1>6, TokenAssumption DEF CheckRenewed, Round
  <2> QED
    BY <1>6, <2>1, TokenAssumption DEF TokenInv, CheckRenewed, Sleep, SinceCheck, Room
<1>7. CASE CheckExpiring \/ CheckUnknown
  <2>1. Round = Interval + MaxCheck
    BY DEF Round
  <2> QED
    BY <1>1, <1>7, <2>1, TokenAssumption
    DEF TokenInv, CheckExpiring, CheckUnknown, Sleep, SinceCheck, Room
<1>8. CASE UNCHANGED tokenVars
  BY <1>8 DEF tokenVars, TokenInv, SinceCheck
<1> QED
  BY <1>2, <1>3, <1>4, <1>5, <1>6, <1>7, <1>8 DEF TokenNext

\* A token that runs out was warned about at least once for every whole round of
\* the watch that its threshold, or its shorter lease, leaves room for.
THEOREM ExpiryWarnedTheorem == TokenSpec => []ExpiryWarned
<1>1. TokenInv => ExpiryWarned
  <2> SUFFICES ASSUME TokenInv, lease = 0
               PROVE  warned >= (Room - MaxCheck) \div Round
    BY DEF ExpiryWarned, Round
  <2>1. warned * Round \in Nat /\ (warned + 1) * Round = warned * Round + Round
    BY OneMore DEF TokenInv
  <2>2. SinceCheck <= Round
    BY TokenAssumption DEF TokenInv, SinceCheck, Round
  <2>3. Room - MaxCheck \in Int /\ Round \in Nat /\ SinceCheck \in Nat
    BY TokenAssumption DEF TokenInv, Room, Round, SinceCheck
  <2>4. (warned + 1) * Round > Room - MaxCheck
    BY <2>1, <2>2, <2>3 DEF TokenInv
  <2> QED
    BY <2>3, <2>4, WholeRounds DEF TokenInv
<1> QED
  BY InitToken, NextToken, <1>1, PTL DEF TokenSpec

=============================================================================
