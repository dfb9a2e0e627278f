--------------------------- MODULE CiphersProofs ---------------------------
(***************************************************************************)
(* Proofs about the cipher cache of module Ciphers, for any threads, any   *)
(* budget and any number of keys.                                          *)
(***************************************************************************)
EXTENDS Ciphers, SequenceTheorems, TLAPS

\* What a key has sealed, from the counter of its Cipher: the counter runs on
\* after the budget, the seals do not.
Within(used) == IF used <= Budget THEN used ELSE Budget

\* Ciphers are built for the keys of the source in order, and the slot holds
\* the last one.
SlotLast ==
    /\ active = NoKey <=> Len(ciphers) = 0
    /\ active # NoKey => active = Len(ciphers)
    /\ \A i \in 1..Len(ciphers) : ciphers[i].key <= source

\* The counters account for every seal.
CountsTrue ==
    /\ \A i \in 1..Len(ciphers) : sealed[ciphers[i].key] = Within(ciphers[i].used)
    /\ \A k \in Keys : (\A i \in 1..Len(ciphers) : ciphers[i].key # k) => sealed[k] = 0

\* What a thread knows at each place of seal.
ThreadKnows(t) ==
    /\ pc[t] \in {"encrypt", "retry"} => handle[t] \in 1..Len(ciphers)
    /\ pc[t] \in {"insert", "install"} => offered[t] \in Keys /\ offered[t] <= source
    /\ pc[t] \in {"roll", "install"} =>
           \E i \in 1..Len(ciphers) :
               ciphers[i].key = spent[t] /\ ciphers[i].used >= Budget
    /\ pc[t] = "install" => offered[t] > spent[t]

\* The invariant that is inductive: the keys of the Ciphers grow, so that the
\* budget of a key is counted by one Cipher only.
IInv ==
    /\ TypeOK
    /\ OneCipherPerKey
    /\ SlotLast
    /\ CountsTrue
    /\ \A t \in Threads : ThreadKnows(t)

\* The cache starts empty, with nothing sealed.
LEMMA InitIInv == CiphersInit => IInv
<1> SUFFICES ASSUME CiphersInit
             PROVE  IInv
  OBVIOUS
<1>1. 0 \in Keys
  BY CiphersAssumption DEF Keys
<1>2. TypeOK
  BY <1>1 DEF CiphersInit, TypeOK
<1>3. OneCipherPerKey /\ SlotLast /\ CountsTrue
  BY DEF CiphersInit, OneCipherPerKey, SlotLast, CountsTrue
<1>4. \A t \in Threads : ThreadKnows(t)
  BY Zenon DEF CiphersInit, ThreadKnows
<1> QED
  BY <1>2, <1>3, <1>4 DEF IInv

\* The plain facts of the invariant, for the steps below.
LEMMA Facts ==
    ASSUME IInv
    PROVE  /\ ciphers \in Seq(Cipher) /\ Len(ciphers) \in Nat
           /\ \A i \in 1..Len(ciphers) : /\ ciphers[i] \in Cipher
                                         /\ ciphers[i].key \in Keys
                                         /\ ciphers[i].used \in Nat
           /\ source \in Keys /\ Keys \subseteq Nat
           /\ sealed \in [Keys -> Nat]
           /\ handle \in [Threads -> (1..Len(ciphers)) \cup {NoKey}]
           /\ spent \in [Threads -> Keys \cup {NoKey}]
           /\ offered \in [Threads -> Keys \cup {NoKey}]
           /\ NoKey \notin Nat /\ Budget \in Nat
<1>1. ciphers \in Seq(Cipher)
  BY DEF IInv, TypeOK
<1>2. \A i \in 1..Len(ciphers) : ciphers[i] \in Cipher
  BY <1>1
<1>3. \A i \in 1..Len(ciphers) : ciphers[i].key \in Keys /\ ciphers[i].used \in Nat
  BY <1>2 DEF Cipher
<1>4. Keys \subseteq Nat /\ NoKey \notin Nat /\ Budget \in Nat
  BY CiphersAssumption DEF Keys
<1>5. /\ source \in Keys
      /\ sealed \in [Keys -> Nat]
      /\ handle \in [Threads -> (1..Len(ciphers)) \cup {NoKey}]
      /\ spent \in [Threads -> Keys \cup {NoKey}]
      /\ offered \in [Threads -> Keys \cup {NoKey}]
  BY DEF IInv, TypeOK
<1>6. Len(ciphers) \in Nat
  BY <1>1
<1> QED
  BY <1>1, <1>2, <1>3, <1>4, <1>5, <1>6, Zenon

\* A new Cipher goes to the end of the list.
LEMMA BuildFacts ==
    ASSUME IInv, NEW k \in Keys, Build(k)
    PROVE  /\ ciphers' \in Seq(Cipher)
           /\ Len(ciphers') = Len(ciphers) + 1
           /\ \A i \in 1..Len(ciphers) : ciphers'[i] = ciphers[i]
           /\ ciphers'[Len(ciphers) + 1] = [key |-> k, used |-> 0]
<1>1. [key |-> k, used |-> 0] \in Cipher
  BY DEF Cipher
<1> QED
  BY <1>1, Facts DEF Build

\* An encryption charges one counter and changes nothing else of the list.
LEMMA ChargeFacts ==
    ASSUME IInv, NEW h \in 1..Len(ciphers), Charge(h)
    PROVE  /\ ciphers' \in Seq(Cipher)
           /\ Len(ciphers') = Len(ciphers)
           /\ \A i \in 1..Len(ciphers) : ciphers'[i].key = ciphers[i].key
           /\ \A i \in 1..Len(ciphers) : i # h => ciphers'[i] = ciphers[i]
           /\ ciphers'[h].used = ciphers[h].used + 1
<1> DEFINE c == [ciphers[h] EXCEPT !.used = @ + 1]
<1>0. ciphers[h] \in Cipher
  BY Facts
<1>1. c \in Cipher /\ c.key = ciphers[h].key /\ c.used = ciphers[h].used + 1
  BY <1>0 DEF Cipher
<1>2. ciphers' = [ciphers EXCEPT ![h] = c]
  BY DEF Charge
<1> HIDE DEF c
<1>3. ciphers' \in [1..Len(ciphers) -> Cipher]
  BY <1>1, <1>2, Facts
<1>4. ciphers' \in Seq(Cipher) /\ Len(ciphers') = Len(ciphers)
  BY <1>1, <1>2, Facts, ExceptSeq
<1>5. \A i \in 1..Len(ciphers) : i # h => ciphers'[i] = ciphers[i]
  BY <1>2, Facts
<1>6. ciphers'[h] = c
  BY <1>2, Facts
<1>7. ASSUME NEW i \in 1..Len(ciphers) PROVE ciphers'[i].key = ciphers[i].key
  BY <1>1, <1>5, <1>6, Zenon
<1> QED
  BY <1>1, <1>4, <1>5, <1>6, <1>7, Zenon

\* A step that builds no Cipher and seals nothing keeps the invariant if the
\* threads still know what they must.
LEMMA QuietKeeps ==
    ASSUME IInv, TypeOK', \A t \in Threads : ThreadKnows(t)',
           UNCHANGED <<ciphers, active, sealed>>, source' >= source
    PROVE  IInv'
<1>1. OneCipherPerKey' /\ CountsTrue'
  BY Zenon DEF IInv, OneCipherPerKey, CountsTrue, Within
<1>2. source \in Nat /\ source' \in Nat
  BY Facts DEF TypeOK
<1>3. SlotLast'
  BY <1>2, Facts DEF IInv, SlotLast
<1> QED
  BY <1>1, <1>3 DEF IInv

\* Rotating the source raises the bound on the keys that were offered.
LEMMA RotateKeeps == IInv /\ Rotate => IInv'
<1> SUFFICES ASSUME IInv, Rotate
             PROVE  IInv'
  OBVIOUS
<1>1. source' \in Keys /\ source' >= source
  BY CiphersAssumption, Facts DEF Rotate, Keys
<1>2. TypeOK'
  BY <1>1 DEF IInv, TypeOK, Rotate
<1>3. ASSUME NEW t \in Threads PROVE ThreadKnows(t)'
  <2>1. ThreadKnows(t)
    BY DEF IInv
  <2>2. offered[t] \in Keys /\ offered[t] <= source => offered[t] <= source'
    BY <1>1, Facts
  <2> QED
    BY <2>1, <2>2 DEF ThreadKnows, Rotate
<1> QED
  BY <1>1, <1>2, <1>3, QuietKeeps DEF Rotate

\* Reading the slot hands out its Cipher.
LEMMA ReadSlotKeeps == ASSUME IInv, NEW t \in Threads, ReadSlot(t) PROVE IInv'
<1>1. active # NoKey => active \in 1..Len(ciphers)
  BY DEF IInv, TypeOK
<1>2. TypeOK'
  BY <1>1, Zenon DEF IInv, TypeOK, ReadSlot, Hold, Move
<1>3. source' >= source
  BY Facts DEF ReadSlot
<1>4. ASSUME NEW u \in Threads PROVE ThreadKnows(u)'
  <2>1. ThreadKnows(u)
    BY DEF IInv
  <2>2. CASE u = t
    BY <2>2, <1>1 DEF ThreadKnows, ReadSlot, Hold, Move, IInv, TypeOK
  <2>3. CASE u # t
    BY <2>1, <2>3 DEF ThreadKnows, ReadSlot, Hold, Move, IInv, TypeOK
  <2> QED
    BY <2>2, <2>3
<1> QED
  BY <1>2, <1>3, <1>4, QuietKeeps DEF ReadSlot

\* The source's answer is one of its keys, and not later than its last.
LEMMA ResolveKeeps == ASSUME IInv, NEW t \in Threads, Resolve(t) PROVE IInv'
<1>1. source \in Keys /\ source <= source
  BY Facts
<1>2. TypeOK'
  BY <1>1, Zenon DEF IInv, TypeOK, Resolve, Move
<1>3. source' >= source
  BY Facts DEF Resolve
<1>4. ASSUME NEW u \in Threads PROVE ThreadKnows(u)'
  <2>1. ThreadKnows(u)
    BY DEF IInv
  <2>2. CASE u = t
    BY <2>2, <1>1 DEF ThreadKnows, Resolve, Move, IInv, TypeOK
  <2>3. CASE u # t
    BY <2>1, <2>3 DEF ThreadKnows, Resolve, Move, IInv, TypeOK
  <2> QED
    BY <2>2, <2>3
<1> QED
  BY <1>2, <1>3, <1>4, QuietKeeps DEF Resolve

\* A source that offers another key than the spent one offers a later one:
\* the spent key has a Cipher, and Ciphers have keys the source has offered.
LEMMA RollKeeps == ASSUME IInv, NEW t \in Threads, Roll(t) PROVE IInv'
<1>1. source \in Keys /\ source <= source
  BY Facts
<1>2. TypeOK'
  BY <1>1, Zenon DEF IInv, TypeOK, Roll, Move
<1>3. source' >= source
  BY Facts DEF Roll
<1>4. ThreadKnows(t) /\ pc[t] = "roll"
  BY DEF IInv, Roll
<1>5. PICK i \in 1..Len(ciphers) : ciphers[i].key = spent[t] /\ ciphers[i].used >= Budget
  BY <1>4 DEF ThreadKnows
<1>6. spent[t] \in Nat /\ spent[t] <= source
  BY <1>5, Facts DEF IInv, SlotLast
<1>7. source # spent[t] => source > spent[t]
  BY <1>1, <1>6, Facts
<1>8. ASSUME NEW u \in Threads PROVE ThreadKnows(u)'
  <2>1. ThreadKnows(u)
    BY DEF IInv
  <2>2. CASE u = t
    BY <2>2, <1>1, <1>5, <1>7 DEF ThreadKnows, Roll, Move, IInv, TypeOK
  <2>3. CASE u # t
    BY <2>1, <2>3 DEF ThreadKnows, Roll, Move, IInv, TypeOK
  <2> QED
    BY <2>2, <2>3
<1> QED
  BY <1>2, <1>3, <1>8, QuietKeeps DEF Roll

\* A source that fails ends the call.
LEMMA SourceFailsKeeps == ASSUME IInv, NEW t \in Threads, SourceFails(t) PROVE IInv'
<1>1. TypeOK'
  BY Zenon DEF IInv, TypeOK, SourceFails, Move
<1>2. source' >= source
  BY Facts DEF SourceFails
<1>3. ASSUME NEW u \in Threads PROVE ThreadKnows(u)'
  <2>1. ThreadKnows(u)
    BY DEF IInv
  <2>2. CASE u = t
    BY <2>2 DEF ThreadKnows, SourceFails, Move, IInv, TypeOK
  <2>3. CASE u # t
    BY <2>1, <2>3 DEF ThreadKnows, SourceFails, Move, IInv, TypeOK
  <2> QED
    BY <2>2, <2>3
<1> QED
  BY <1>1, <1>2, <1>3, QuietKeeps DEF SourceFails

\* A Cipher built for a key later than every earlier one's keeps the account:
\* nothing was sealed under that key, and its counter starts at zero.
LEMMA BuildKeeps ==
    ASSUME IInv, NEW k \in Keys, Build(k), k <= source,
           \A i \in 1..Len(ciphers) : ciphers[i].key < k,
           active' = Len(ciphers) + 1, UNCHANGED <<source, sealed>>
    PROVE  OneCipherPerKey' /\ SlotLast' /\ CountsTrue'
<1> DEFINE n == Len(ciphers) + 1
<1>0. /\ Len(ciphers) \in Nat
      /\ Len(ciphers') = Len(ciphers) + 1
      /\ \A i \in 1..Len(ciphers) : ciphers'[i] = ciphers[i]
      /\ ciphers'[Len(ciphers) + 1] = [key |-> k, used |-> 0]
  BY Facts, BuildFacts, Zenon
<1>1. /\ n \in Nat /\ n > 0
      /\ 1..Len(ciphers') = 1..n
      /\ 1..n = (1..Len(ciphers)) \cup {n}
      /\ n \notin 1..Len(ciphers)
      /\ k \in Nat
  BY <1>0 DEF Keys
<1>2. /\ \A i \in 1..Len(ciphers) : ciphers'[i] = ciphers[i]
      /\ ciphers'[n].key = k /\ ciphers'[n].used = 0
  BY <1>0
<1>3. OneCipherPerKey'
  <2> SUFFICES ASSUME NEW i \in 1..n, NEW j \in 1..n, i < j
               PROVE  ciphers'[i].key < ciphers'[j].key
    BY <1>1 DEF OneCipherPerKey
  <2>1. i \in 1..Len(ciphers)
    BY Facts
  <2>2. CASE j = n
    BY <2>1, <2>2, <1>2
  <2>3. CASE j # n
    BY <2>1, <2>3, <1>1, <1>2 DEF IInv, OneCipherPerKey
  <2> QED
    BY <2>2, <2>3
<1>4. SlotLast'
  <2>1. \A i \in 1..n : ciphers'[i].key <= source'
    BY <1>1, <1>2 DEF IInv, SlotLast
  <2>2. active' # NoKey /\ active' = Len(ciphers') /\ Len(ciphers') # 0
    BY <1>1, BuildFacts, Facts
  <2> QED
    BY <1>1, <2>1, <2>2 DEF SlotLast
<1>5. \A i \in 1..Len(ciphers) : ciphers[i].key # k
  BY Facts, <1>1
<1>6. sealed[k] = 0
  BY <1>5 DEF IInv, CountsTrue
<1>7. Within(0) = 0
  BY Facts DEF Within
<1>8. CountsTrue'
  <2>1. ASSUME NEW i \in 1..n
        PROVE  sealed[ciphers'[i].key] = Within(ciphers'[i].used)
    <3>1. CASE i = n
      BY <3>1, <1>2, <1>6, <1>7
    <3>2. CASE i # n
      BY <3>2, <1>1, <1>2 DEF IInv, CountsTrue
    <3> QED
      BY <3>1, <3>2
  <2>2. ASSUME NEW l \in Keys, \A i \in 1..n : ciphers'[i].key # l
        PROVE  sealed[l] = 0
    <3>1. \A i \in 1..Len(ciphers) : ciphers[i].key # l
      BY <2>2, <1>1, <1>2
    <3> QED
      BY <3>1 DEF IInv, CountsTrue
  <2> HIDE DEF n
  <2> QED
    BY <1>1, <2>1, <2>2 DEF CountsTrue, Within
<1> QED
  BY <1>3, <1>4, <1>8

\* What a thread knows survives a longer list, and counters that only grow.
LEMMA KnowsLonger ==
    ASSUME IInv, NEW u \in Threads, Len(ciphers') \in Nat, Len(ciphers') >= Len(ciphers),
           \A i \in 1..Len(ciphers) : /\ ciphers'[i].key = ciphers[i].key
                                      /\ ciphers'[i].used \in Nat
                                      /\ ciphers'[i].used >= ciphers[i].used,
           pc'[u] = pc[u], handle'[u] = handle[u], spent'[u] = spent[u],
           UNCHANGED <<offered, source>>
    PROVE  ThreadKnows(u)'
<1>1. ThreadKnows(u)
  BY DEF IInv
<1>2. \A i \in 1..Len(ciphers) : i \in 1..Len(ciphers')
  BY Facts
<1>3. \A i \in 1..Len(ciphers) : ciphers[i].used >= Budget => ciphers'[i].used >= Budget
  BY Facts
<1>4. pc[u] \in {"roll", "install"} =>
          \E i \in 1..Len(ciphers') : ciphers'[i].key = spent[u] /\ ciphers'[i].used >= Budget
  BY <1>1, <1>2, <1>3, Zenon DEF ThreadKnows
<1>5. pc[u] \in {"encrypt", "retry"} => handle[u] \in 1..Len(ciphers')
  BY <1>1, <1>2, Zenon DEF ThreadKnows
<1> QED
  BY <1>1, <1>4, <1>5 DEF ThreadKnows

\* A step that hands a thread a Cipher to encrypt under, after building it or
\* not, leaves every thread with what it must know.
LEMMA HandedKnows ==
    ASSUME IInv, NEW t \in Threads, NEW at \in {"encrypt", "retry"},
           Move(t, at), Hold(t, active'), UNCHANGED <<spent, offered, source>>,
           \/ UNCHANGED ciphers /\ active' \in 1..Len(ciphers)
           \/ \E k \in Keys : Build(k) /\ active' = Len(ciphers) + 1
    PROVE  /\ \A u \in Threads : ThreadKnows(u)'
           /\ active' \in 1..Len(ciphers')
           /\ Len(ciphers') \in Nat /\ Len(ciphers') >= Len(ciphers)
<1>1. /\ Len(ciphers') \in Nat /\ Len(ciphers') >= Len(ciphers)
      /\ active' \in 1..Len(ciphers')
      /\ \A i \in 1..Len(ciphers) : ciphers'[i] = ciphers[i]
  <2>1. CASE UNCHANGED ciphers /\ active' \in 1..Len(ciphers)
    BY <2>1, Facts
  <2>2. CASE \E k \in Keys : Build(k) /\ active' = Len(ciphers) + 1
    <3>1. PICK k \in Keys : Build(k)
      BY <2>2
    <3>2. /\ Len(ciphers) \in Nat
          /\ Len(ciphers') = Len(ciphers) + 1
          /\ \A i \in 1..Len(ciphers) : ciphers'[i] = ciphers[i]
      BY <3>1, Facts, BuildFacts, Zenon
    <3> QED
      BY <2>2, <3>2
  <2> QED
    BY <2>1, <2>2
<1>2. \A i \in 1..Len(ciphers) : /\ ciphers'[i].key = ciphers[i].key
                                 /\ ciphers'[i].used \in Nat
                                 /\ ciphers'[i].used >= ciphers[i].used
  BY <1>1, Facts
<1>3. pc \in [Threads -> {"idle", "resolve", "insert", "encrypt", "roll", "install", "retry"}]
  BY DEF IInv, TypeOK
<1>4. ASSUME NEW u \in Threads PROVE ThreadKnows(u)'
  <2>1. CASE u = t
    <3>1. pc'[u] = at /\ handle'[u] = active'
      BY <2>1, <1>3, Facts DEF Move, Hold
    <3> QED
      BY <3>1, <1>1 DEF ThreadKnows
  <2>2. CASE u # t
    <3>1. pc'[u] = pc[u] /\ handle'[u] = handle[u] /\ spent'[u] = spent[u]
      BY <2>2, <1>3, Facts DEF Move, Hold
    <3> QED
      BY <3>1, <1>1, <1>2, KnowsLonger
  <2> QED
    BY <2>1, <2>2
<1> QED
  BY <1>1, <1>4

\* The types after a thread was handed a Cipher.
LEMMA HandedTypes ==
    ASSUME IInv, NEW t \in Threads, NEW at \in {"encrypt", "retry"},
           Move(t, at), Hold(t, active'), UNCHANGED <<spent, offered, source, sealed>>,
           ciphers' \in Seq(Cipher), active' \in 1..Len(ciphers'),
           Len(ciphers') \in Nat, Len(ciphers') >= Len(ciphers)
    PROVE  TypeOK'
<1>1. \A i \in 1..Len(ciphers) : i \in 1..Len(ciphers')
  BY Facts
<1>2. handle' \in [Threads -> (1..Len(ciphers')) \cup {NoKey}]
  BY <1>1, Facts, Zenon DEF Hold
<1>3. pc' \in [Threads -> {"idle", "resolve", "insert", "encrypt", "roll", "install", "retry"}]
  BY Zenon DEF Move, IInv, TypeOK
<1> QED
  BY <1>2, <1>3, Zenon DEF IInv, TypeOK

\* The first Cipher goes into an empty slot; a thread that comes second takes
\* the one it finds.
LEMMA InsertKeeps == ASSUME IInv, NEW t \in Threads, Fill(t) PROVE IInv'
<1>1. offered[t] \in Keys /\ offered[t] <= source
  BY DEF IInv, ThreadKnows, Fill
<1>2. CASE active = NoKey
  <2>1. Build(offered[t]) /\ active' = Len(ciphers) + 1
    BY <1>2 DEF Fill
  <2>2. \A i \in 1..Len(ciphers) : ciphers[i].key < offered[t]
    BY <1>2, Facts DEF IInv, SlotLast
  <2>3. OneCipherPerKey' /\ SlotLast' /\ CountsTrue'
    BY <1>1, <2>1, <2>2, BuildKeeps DEF Fill
  <2>4. /\ \A u \in Threads : ThreadKnows(u)'
        /\ active' \in 1..Len(ciphers')
        /\ Len(ciphers') \in Nat /\ Len(ciphers') >= Len(ciphers)
    BY <1>1, <2>1, HandedKnows DEF Fill
  <2>5. ciphers' \in Seq(Cipher)
    BY <1>1, <2>1, BuildFacts, Zenon
  <2>6. TypeOK'
    BY <2>4, <2>5, HandedTypes DEF Fill
  <2> QED
    BY <2>3, <2>4, <2>6 DEF IInv
<1>3. CASE active # NoKey
  <2>1. UNCHANGED <<ciphers, active>> /\ active' \in 1..Len(ciphers)
    BY <1>3 DEF Fill, IInv, TypeOK
  <2>2. /\ \A u \in Threads : ThreadKnows(u)'
        /\ active' \in 1..Len(ciphers')
        /\ Len(ciphers') \in Nat /\ Len(ciphers') >= Len(ciphers)
    BY <2>1, HandedKnows DEF Fill
  <2>3. TypeOK'
    BY <2>1, <2>2, Facts, HandedTypes DEF Fill
  <2>4. source' >= source
    BY Facts DEF Fill
  <2> QED
    BY <2>1, <2>2, <2>3, <2>4, QuietKeeps DEF Fill
<1> QED
  BY <1>2, <1>3

\* A thread replaces the slot only while it holds the spent key, which is the
\* last one then: the key it installs is later than every one before.
LEMMA InstallKeeps == ASSUME IInv, NEW t \in Threads, Install(t) PROVE IInv'
<1>1. ThreadKnows(t) /\ pc[t] = "install"
  BY DEF IInv, Install
<1>2. /\ offered[t] \in Keys /\ offered[t] <= source
      /\ offered[t] > spent[t]
      /\ \E i \in 1..Len(ciphers) : ciphers[i].key = spent[t]
  BY <1>1 DEF ThreadKnows
<1>3. active \in 1..Len(ciphers) /\ active = Len(ciphers) /\ active # NoKey
  BY <1>2, Facts DEF IInv, SlotLast, TypeOK
<1>4. CASE ciphers[active].key = spent[t]
  <2>1. Build(offered[t]) /\ active' = Len(ciphers) + 1
    BY <1>4 DEF Install
  <2>2. \A i \in 1..Len(ciphers) : ciphers[i].key < offered[t]
    <3> SUFFICES ASSUME NEW i \in 1..Len(ciphers)
                 PROVE  ciphers[i].key < offered[t]
      OBVIOUS
    <3>1. i = active \/ i < active
      BY <1>3, Facts
    <3>2. i < active => ciphers[i].key < ciphers[active].key
      BY <1>3 DEF IInv, OneCipherPerKey
    <3>3. ciphers[i].key \in Nat /\ ciphers[active].key \in Nat /\ offered[t] \in Nat
      BY <1>2, <1>3, Facts
    <3> QED
      BY <3>1, <3>2, <3>3, <1>2, <1>4
  <2>3. OneCipherPerKey' /\ SlotLast' /\ CountsTrue'
    BY <1>2, <2>1, <2>2, BuildKeeps DEF Install
  <2>4. /\ \A u \in Threads : ThreadKnows(u)'
        /\ active' \in 1..Len(ciphers')
        /\ Len(ciphers') \in Nat /\ Len(ciphers') >= Len(ciphers)
    BY <1>2, <2>1, HandedKnows DEF Install
  <2>5. ciphers' \in Seq(Cipher)
    BY <1>2, <2>1, BuildFacts, Zenon
  <2>6. TypeOK'
    BY <2>4, <2>5, HandedTypes DEF Install
  <2> QED
    BY <2>3, <2>4, <2>6 DEF IInv
<1>5. CASE ciphers[active].key # spent[t]
  <2>1. UNCHANGED <<ciphers, active>> /\ active' \in 1..Len(ciphers)
    BY <1>3, <1>5 DEF Install
  <2>2. /\ \A u \in Threads : ThreadKnows(u)'
        /\ active' \in 1..Len(ciphers')
        /\ Len(ciphers') \in Nat /\ Len(ciphers') >= Len(ciphers)
    BY <2>1, HandedKnows DEF Install
  <2>3. TypeOK'
    BY <2>1, <2>2, Facts, HandedTypes DEF Install
  <2>4. source' >= source
    BY Facts DEF Install
  <2> QED
    BY <2>1, <2>2, <2>3, <2>4, QuietKeeps DEF Install
<1> QED
  BY <1>4, <1>5

\* One charge of the counter keeps the account: the value is sealed while the
\* counter is below the budget, and no other Cipher has that key.
LEMMA ChargeKeeps ==
    ASSUME IInv, NEW h \in 1..Len(ciphers), Charge(h), UNCHANGED <<source, active>>,
           IF Exhausted(h) THEN UNCHANGED sealed ELSE Sealed(h)
    PROVE  /\ OneCipherPerKey' /\ SlotLast' /\ CountsTrue'
           /\ sealed' \in [Keys -> Nat]
<1>1. /\ Len(ciphers') = Len(ciphers)
      /\ \A i \in 1..Len(ciphers) : ciphers'[i].key = ciphers[i].key
      /\ \A i \in 1..Len(ciphers) : i # h => ciphers'[i] = ciphers[i]
      /\ ciphers'[h].used = ciphers[h].used + 1
  BY ChargeFacts, Zenon
<1>2. OneCipherPerKey'
  BY <1>1 DEF IInv, OneCipherPerKey
<1>3. SlotLast'
  BY <1>1 DEF IInv, SlotLast
<1> DEFINE k == ciphers[h].key
           used == ciphers[h].used
<1>4. k \in Keys /\ used \in Nat /\ Budget \in Nat /\ sealed \in [Keys -> Nat]
  BY Facts
<1>5. sealed[k] = Within(used)
  BY DEF IInv, CountsTrue
<1>6. \A i \in 1..Len(ciphers) : i # h => ciphers[i].key # k
  <2> SUFFICES ASSUME NEW i \in 1..Len(ciphers), i # h
               PROVE  ciphers[i].key # k
    OBVIOUS
  <2>1. i < h \/ h < i
    BY Facts
  <2>2. ciphers[i].key < k \/ k < ciphers[i].key
    BY <2>1 DEF IInv, OneCipherPerKey
  <2> QED
    BY <2>2, Facts
<1>7. Exhausted(h) <=> used >= Budget
  BY DEF Exhausted
<1>8. ~Exhausted(h) => sealed' = [sealed EXCEPT ![k] = @ + 1]
  BY DEF Sealed
<1> HIDE DEF k, used
<1>9. /\ sealed' \in [Keys -> Nat]
      /\ sealed'[k] = Within(used + 1)
      /\ \A l \in Keys : l # k => sealed'[l] = sealed[l]
  <2>1. CASE Exhausted(h)
    BY <2>1, <1>4, <1>5, <1>7 DEF Within
  <2>2. CASE ~Exhausted(h)
    BY <2>2, <1>4, <1>5, <1>7, <1>8 DEF Within
  <2> QED
    BY <2>1, <2>2
<1>10. ASSUME NEW i \in 1..Len(ciphers)
       PROVE  sealed'[ciphers[i].key] = Within(ciphers'[i].used)
  <2>1. CASE i = h
    BY <2>1, <1>1, <1>9 DEF k, used
  <2>2. CASE i # h
    <3>1. ciphers[i].key # k /\ ciphers[i].key \in Keys
      BY <2>2, <1>6, Facts
    <3> QED
      BY <2>2, <3>1, <1>1, <1>9 DEF IInv, CountsTrue
  <2> QED
    BY <2>1, <2>2
<1>11. ASSUME NEW l \in Keys, \A i \in 1..Len(ciphers) : ciphers[i].key # l
       PROVE  sealed'[l] = 0
  <2>1. l # k
    BY <1>11 DEF k
  <2> QED
    BY <2>1, <1>9, <1>11 DEF IInv, CountsTrue
<1>12. CountsTrue'
  BY <1>1, <1>10, <1>11, Zenon DEF CountsTrue, Within
<1> QED
  BY <1>2, <1>3, <1>9, <1>12

\* A counter that was charged still says what the other threads know of it.
LEMMA ChargeKnows ==
    ASSUME IInv, NEW h \in 1..Len(ciphers), Charge(h), NEW u \in Threads,
           pc'[u] = pc[u], handle'[u] = handle[u], spent'[u] = spent[u],
           UNCHANGED <<offered, source>>
    PROVE  ThreadKnows(u)'
<1>1. /\ Len(ciphers') = Len(ciphers)
      /\ \A i \in 1..Len(ciphers) : ciphers'[i].key = ciphers[i].key
      /\ \A i \in 1..Len(ciphers) : i # h => ciphers'[i] = ciphers[i]
      /\ ciphers'[h].used = ciphers[h].used + 1
  BY ChargeFacts, Zenon
<1>2. ASSUME NEW i \in 1..Len(ciphers)
      PROVE  ciphers'[i].used \in Nat /\ ciphers'[i].used >= ciphers[i].used
  <2>1. ciphers[i].used \in Nat /\ ciphers[h].used \in Nat
    BY Facts
  <2>2. CASE i = h
    BY <1>1, <2>1, <2>2
  <2>3. CASE i # h
    BY <1>1, <2>1, <2>3
  <2> QED
    BY <2>2, <2>3
<1>3. Len(ciphers') \in Nat /\ Len(ciphers') >= Len(ciphers)
  BY <1>1, Facts
<1> QED
  BY <1>1, <1>2, <1>3, KnowsLonger

\* The first encryption of a seal.
LEMMA EncryptKeeps == ASSUME IInv, NEW t \in Threads, Encrypt(t) PROVE IInv'
<1> DEFINE h == handle[t]
<1>1. h \in 1..Len(ciphers) /\ pc[t] = "encrypt"
  BY DEF IInv, ThreadKnows, Encrypt
<1>2. /\ Charge(h) /\ UNCHANGED <<source, active, handle, offered>>
      /\ IF Exhausted(h) THEN UNCHANGED sealed ELSE Sealed(h)
  BY DEF Encrypt
<1>3. \/ ~Exhausted(h) /\ Move(t, "idle") /\ UNCHANGED spent
      \/ /\ Exhausted(h) /\ Move(t, "roll")
         /\ spent' = [spent EXCEPT ![t] = ciphers[h].key]
  BY DEF Encrypt
<1>4. pc \in [Threads -> {"idle", "resolve", "insert", "encrypt", "roll", "install", "retry"}]
  BY DEF IInv, TypeOK
<1> HIDE DEF h
<1>5. OneCipherPerKey' /\ SlotLast' /\ CountsTrue' /\ sealed' \in [Keys -> Nat]
  BY <1>1, <1>2, ChargeKeeps
<1>6. /\ ciphers' \in Seq(Cipher) /\ Len(ciphers') = Len(ciphers)
      /\ ciphers'[h].key = ciphers[h].key
      /\ ciphers'[h].used = ciphers[h].used + 1
      /\ ciphers[h].key \in Keys
      /\ ciphers[h].used \in Nat
  BY <1>1, <1>2, ChargeFacts, Facts, Zenon
<1>7. /\ spent' \in [Threads -> Keys \cup {NoKey}]
      /\ pc' \in [Threads -> {"idle", "resolve", "insert", "encrypt", "roll", "install", "retry"}]
  BY <1>3, <1>4, <1>6, Facts, Zenon DEF Move
<1>8. TypeOK'
  BY <1>2, <1>5, <1>6, <1>7, Zenon DEF IInv, TypeOK
<1>9. ASSUME NEW u \in Threads PROVE ThreadKnows(u)'
  <2>1. CASE u # t
    <3>1. pc'[u] = pc[u] /\ handle'[u] = handle[u] /\ spent'[u] = spent[u]
      BY <2>1, <1>2, <1>3, <1>4, Facts DEF Move
    <3> QED
      BY <3>1, <1>1, <1>2, ChargeKnows
  <2>2. CASE u = t /\ ~Exhausted(h)
    <3>1. pc'[u] = "idle"
      BY <2>2, <1>3, <1>4 DEF Move
    <3> QED
      BY <3>1 DEF ThreadKnows
  <2>3. CASE u = t /\ Exhausted(h)
    <3>1. pc'[u] = "roll" /\ spent'[u] = ciphers[h].key
      BY <2>3, <1>3, <1>4, Facts DEF Move
    <3>2. ciphers'[h].used >= Budget
      BY <2>3, <1>6, Facts DEF Exhausted
    <3>3. h \in 1..Len(ciphers') /\ ciphers'[h].key = spent'[u]
      BY <1>1, <1>6, <3>1
    <3> QED
      BY <3>1, <3>2, <3>3 DEF ThreadKnows
  <2> QED
    BY <2>1, <2>2, <2>3
<1> QED
  BY <1>5, <1>8, <1>9 DEF IInv

\* The second encryption of a seal.
LEMMA RetryKeeps == ASSUME IInv, NEW t \in Threads, Retry(t) PROVE IInv'
<1> DEFINE h == handle[t]
<1>1. h \in 1..Len(ciphers) /\ pc[t] = "retry"
  BY DEF IInv, ThreadKnows, Retry
<1>2. /\ Charge(h) /\ UNCHANGED <<source, active, handle, spent, offered>>
      /\ Move(t, "idle")
      /\ IF Exhausted(h) THEN UNCHANGED sealed ELSE Sealed(h)
  BY DEF Retry
<1>3. pc \in [Threads -> {"idle", "resolve", "insert", "encrypt", "roll", "install", "retry"}]
  BY DEF IInv, TypeOK
<1> HIDE DEF h
<1>4. OneCipherPerKey' /\ SlotLast' /\ CountsTrue' /\ sealed' \in [Keys -> Nat]
  BY <1>1, <1>2, ChargeKeeps
<1>5. ciphers' \in Seq(Cipher) /\ Len(ciphers') = Len(ciphers)
  BY <1>1, <1>2, ChargeFacts, Zenon
<1>6. pc' \in [Threads -> {"idle", "resolve", "insert", "encrypt", "roll", "install", "retry"}]
  BY <1>2, <1>3 DEF Move
<1>7. TypeOK'
  BY <1>2, <1>4, <1>5, <1>6, Zenon DEF IInv, TypeOK
<1>8. ASSUME NEW u \in Threads PROVE ThreadKnows(u)'
  <2>1. CASE u # t
    <3>1. pc'[u] = pc[u] /\ handle'[u] = handle[u] /\ spent'[u] = spent[u]
      BY <2>1, <1>2, <1>3 DEF Move
    <3> QED
      BY <3>1, <1>1, <1>2, ChargeKnows
  <2>2. CASE u = t
    <3>1. pc'[u] = "idle"
      BY <2>2, <1>2, <1>3 DEF Move
    <3> QED
      BY <3>1 DEF ThreadKnows
  <2> QED
    BY <2>1, <2>2
<1> QED
  BY <1>4, <1>7, <1>8 DEF IInv

\* Every step of every thread keeps the invariant.
LEMMA NextKeeps == IInv /\ [CiphersNext]_cipherVars => IInv'
<1> SUFFICES ASSUME IInv, [CiphersNext]_cipherVars
             PROVE  IInv'
  OBVIOUS
<1>1. CASE Rotate
  BY <1>1, RotateKeeps
<1>2. ASSUME NEW t \in Threads, Seal(t) PROVE IInv'
  BY <1>2, ReadSlotKeeps, ResolveKeeps, InsertKeeps, EncryptKeeps, RollKeeps,
     InstallKeeps, RetryKeeps, SourceFailsKeeps, Zenon DEF Seal
<1>3. CASE UNCHANGED cipherVars
  <2>1. TypeOK' /\ UNCHANGED <<ciphers, active, sealed>> /\ source' >= source
    BY <1>3, Facts DEF IInv, TypeOK, cipherVars
  <2>2. \A t \in Threads : ThreadKnows(t)'
    BY <1>3 DEF IInv, ThreadKnows, cipherVars
  <2> QED
    BY <2>1, <2>2, QuietKeeps
<1> QED
  BY <1>1, <1>2, <1>3 DEF CiphersNext

\* The invariant holds in every reachable state.
THEOREM CacheInvariant == CiphersSpec => []IInv
<1> QED
  BY InitIInv, NextKeeps, PTL DEF CiphersSpec

\* The state of the cache and of every thread keeps its type.
THEOREM CacheTypes == CiphersSpec => []TypeOK
<1>1. IInv => TypeOK
  BY DEF IInv
<1> QED
  BY <1>1, CacheInvariant, PTL

\* No two Ciphers ever share a key, and keys are taken up in order.
THEOREM OneCipherEver == CiphersSpec => []OneCipherPerKey
<1>1. IInv => OneCipherPerKey
  BY DEF IInv
<1> QED
  BY <1>1, CacheInvariant, PTL

\* No key seals more than its budget, however many threads hold its Cipher.
THEOREM BudgetAlwaysKept == CiphersSpec => []BudgetKept
<1>1. IInv => BudgetKept
  <2> SUFFICES ASSUME IInv, NEW k \in Keys
               PROVE  sealed[k] <= Budget
    BY DEF BudgetKept
  <2>1. CASE \E i \in 1..Len(ciphers) : ciphers[i].key = k
    <3>1. PICK i \in 1..Len(ciphers) : ciphers[i].key = k
      BY <2>1
    <3>2. sealed[k] = Within(ciphers[i].used)
      BY <3>1 DEF IInv, CountsTrue
    <3> QED
      BY <3>2, Facts DEF Within
  <2>2. CASE \A i \in 1..Len(ciphers) : ciphers[i].key # k
    <3>1. sealed[k] = 0
      BY <2>2 DEF IInv, CountsTrue
    <3> QED
      BY <3>1, Facts
  <2> QED
    BY <2>1, <2>2
<1> QED
  BY <1>1, CacheInvariant, PTL

\* A thread rolls only away from a key that has sealed its whole budget.
THEOREM OnlySpentKeysRolled == CiphersSpec => []RollsOnlySpent
<1>1. IInv => RollsOnlySpent
  <2> SUFFICES ASSUME IInv, NEW t \in Threads, pc[t] \in {"roll", "install"}
               PROVE  sealed[spent[t]] = Budget
    BY DEF RollsOnlySpent
  <2>1. PICK i \in 1..Len(ciphers) : ciphers[i].key = spent[t] /\ ciphers[i].used >= Budget
    BY DEF IInv, ThreadKnows
  <2>2. sealed[spent[t]] = Within(ciphers[i].used)
    BY <2>1 DEF IInv, CountsTrue
  <2> QED
    BY <2>1, <2>2, Facts DEF Within
<1> QED
  BY <1>1, CacheInvariant, PTL

\* A step that leaves the slot and the Ciphers' keys alone leaves the current
\* key alone.
LEMMA SameCurrent ==
    ASSUME IInv, UNCHANGED active,
           \A i \in 1..Len(ciphers) : ciphers'[i].key = ciphers[i].key
    PROVE  UNCHANGED CurrentKey
<1>1. active # NoKey => active \in 1..Len(ciphers)
  BY DEF IInv, TypeOK
<1> QED
  BY <1>1 DEF CurrentKey

\* Building a Cipher for a later key is taking that key up.
LEMMA BuildTakesUp ==
    ASSUME IInv, NEW k \in Keys, Build(k), active' = Len(ciphers) + 1, UNCHANGED sealed,
           active # NoKey => ciphers[active].key < k
    PROVE  Lifetime!LifetimeNext
<1>0. /\ Len(ciphers) \in Nat
      /\ ciphers'[Len(ciphers) + 1] = [key |-> k, used |-> 0]
  BY Facts, BuildFacts, Zenon
<1>1. Len(ciphers) \in Nat /\ ciphers'[Len(ciphers) + 1].key = k
  BY <1>0
<1>2. active' # NoKey /\ CurrentKey' = k
  BY <1>1, Facts DEF CurrentKey
<1>3. CurrentKey = NoKey \/ k > CurrentKey
  BY Facts DEF CurrentKey, IInv, TypeOK
<1>4. Lifetime!TakeUp(k)
  BY <1>2, <1>3 DEF Lifetime!TakeUp
<1> QED
  BY <1>4 DEF Lifetime!LifetimeNext

\* An encryption seals under a key taken up, within its budget, or does
\* nothing the promise speaks of.
LEMMA ChargeSeals ==
    ASSUME IInv, NEW h \in 1..Len(ciphers), Charge(h), UNCHANGED active,
           IF Exhausted(h) THEN UNCHANGED sealed ELSE Sealed(h)
    PROVE  Lifetime!LifetimeNext \/ UNCHANGED <<CurrentKey, sealed>>
<1>1. UNCHANGED CurrentKey
  BY ChargeFacts, SameCurrent, Zenon
<1>2. CASE Exhausted(h)
  BY <1>1, <1>2
<1>3. CASE ~Exhausted(h)
  <2> DEFINE k == ciphers[h].key
  <2>1. k \in Keys /\ ciphers[h].used < Budget /\ ciphers[h].used \in Nat
    BY <1>3, Facts DEF Exhausted
  <2>2. sealed[k] < Budget
    BY <2>1, Facts DEF IInv, CountsTrue, Within
  <2>3. active # NoKey /\ active = Len(ciphers) /\ active \in 1..Len(ciphers)
    BY Facts DEF IInv, SlotLast
  <2>4. CurrentKey = ciphers[active].key /\ CurrentKey # NoKey
    BY <2>3, Facts DEF CurrentKey
  <2>5. k <= CurrentKey
    <3>1. h = active \/ h < active
      BY <2>3, Facts
    <3>2. k \in Nat /\ ciphers[active].key \in Nat
      BY <2>3, Facts
    <3>3. h < active => k < ciphers[active].key
      BY <2>3 DEF IInv, OneCipherPerKey
    <3> QED
      BY <3>1, <3>2, <3>3, <2>4
  <2>6. sealed' = [sealed EXCEPT ![k] = @ + 1]
    BY <1>3 DEF Sealed
  <2> HIDE DEF k
  <2>7. Lifetime!SealUnder(k)
    BY <1>1, <2>2, <2>4, <2>5, <2>6 DEF Lifetime!SealUnder
  <2> QED
    BY <2>1, <2>7 DEF Lifetime!LifetimeNext
<1> QED
  BY <1>2, <1>3

\* Every step of the cache is a step of the promise, or none.
LEMMA StepImplements ==
    IInv /\ [CiphersNext]_cipherVars => [Lifetime!LifetimeNext]_(Lifetime!lifetimeVars)
<1> SUFFICES ASSUME IInv, [CiphersNext]_cipherVars
             PROVE  Lifetime!LifetimeNext \/ UNCHANGED <<CurrentKey, sealed>>
  BY DEF Lifetime!lifetimeVars
<1>1. CASE UNCHANGED <<ciphers, active, sealed>>
  BY <1>1 DEF CurrentKey
<1>2. CASE Rotate
  BY <1>1, <1>2 DEF Rotate
<1>3. CASE UNCHANGED cipherVars
  BY <1>1, <1>3 DEF cipherVars
<1>4. ASSUME NEW t \in Threads, Seal(t)
      PROVE  Lifetime!LifetimeNext \/ UNCHANGED <<CurrentKey, sealed>>
  <2>1. CASE ReadSlot(t) \/ Resolve(t) \/ Roll(t) \/ SourceFails(t)
    BY <2>1, <1>1 DEF ReadSlot, Resolve, Roll, SourceFails
  <2>2. CASE Fill(t)
    <3>1. offered[t] \in Keys
      BY <2>2 DEF IInv, ThreadKnows, Fill
    <3>2. CASE active = NoKey
      BY <2>2, <3>1, <3>2, BuildTakesUp, ZenonT(30) DEF Fill
    <3>3. CASE active # NoKey
      BY <2>2, <3>3, <1>1 DEF Fill
    <3> QED
      BY <3>2, <3>3
  <2>3. CASE Install(t)
    <3>1. /\ offered[t] \in Keys /\ offered[t] > spent[t]
          /\ \E i \in 1..Len(ciphers) : ciphers[i].key = spent[t]
      BY <2>3 DEF IInv, ThreadKnows, Install
    <3>2. active # NoKey /\ spent[t] \in Nat
      BY <3>1, Facts DEF IInv, SlotLast
    <3>3. CASE ciphers[active].key = spent[t]
      <4>1. Build(offered[t]) /\ active' = Len(ciphers) + 1 /\ UNCHANGED sealed
        BY <2>3, <3>3 DEF Install
      <4>2. ciphers[active].key < offered[t]
        BY <3>1, <3>2, <3>3, Facts
      <4> QED
        BY <3>1, <4>1, <4>2, BuildTakesUp
    <3>4. CASE ciphers[active].key # spent[t]
      BY <2>3, <3>2, <3>4, <1>1 DEF Install
    <3> QED
      BY <3>3, <3>4
  <2>4. CASE Encrypt(t)
    <3>1. handle[t] \in 1..Len(ciphers)
      BY <2>4 DEF IInv, ThreadKnows, Encrypt
    <3>2. /\ Charge(handle[t]) /\ UNCHANGED active
          /\ IF Exhausted(handle[t]) THEN UNCHANGED sealed ELSE Sealed(handle[t])
      BY <2>4 DEF Encrypt
    <3> QED
      BY <3>1, <3>2, ChargeSeals
  <2>5. CASE Retry(t)
    <3>1. handle[t] \in 1..Len(ciphers)
      BY <2>5 DEF IInv, ThreadKnows, Retry
    <3>2. /\ Charge(handle[t]) /\ UNCHANGED active
          /\ IF Exhausted(handle[t]) THEN UNCHANGED sealed ELSE Sealed(handle[t])
      BY <2>5 DEF Retry
    <3> QED
      BY <3>1, <3>2, ChargeSeals
  <2> QED
    BY <1>4, <2>1, <2>2, <2>3, <2>4, <2>5 DEF Seal
<1> QED
  BY <1>2, <1>3, <1>4 DEF CiphersNext

\* The cache implements the abstract lifetime of data keys.
THEOREM CacheImplementsLifetime == CiphersSpec => ImplementsLifetime
<1>1. CiphersInit => Lifetime!LifetimeInit
  BY DEF CiphersInit, Lifetime!LifetimeInit, CurrentKey
<1> QED
  BY <1>1, StepImplements, CacheInvariant, PTL
  DEF CiphersSpec, ImplementsLifetime, Lifetime!LifetimeSpec

=============================================================================
