------------------------- MODULE PortalCallsProofs -------------------------
(***************************************************************************)
(* Proofs about the tracker of module Portals under any caller.            *)
(***************************************************************************)
EXTENDS PortalCalls, SequenceTheorems, FiniteSetTheorems, TLAPS

\* The invariant that is inductive: the parts support one another.
IInv ==
    /\ TypeOK
    /\ WithinLimits
    /\ IncarnationsDistinct
    /\ ReferencesMinted
    /\ DescriptionsFollowIncarnation
    /\ DescribedExecutesFilled
    /\ ExecutesOrdered

\* q is p with some entries left out, in the same order.
Thinned(q, p) ==
    \E f \in [1..Len(q) -> 1..Len(p)] :
        /\ \A i \in 1..Len(q) : q[i] = p[f[i]]
        /\ \A i, j \in 1..Len(q) : i < j => f[i] < f[j]

\* An entry of the next queue that is new, or that is one of this queue's
\* with its rows kept.
Descends(e) ==
    e.kind = "execute" =>
        \/ e.id = nextExecuteId
        \/ \E k \in 1..Len(pending) :
               /\ pending[k].kind = "execute"
               /\ pending[k].id = e.id
               /\ pending[k].statement = e.statement
               /\ pending[k].formats = e.formats
               /\ pending[k].positions # None => e.positions # None

\* What the kind of an entry says about its fields.
LEMMA EntryKinds ==
    ASSUME NEW e \in Pending
    PROVE  /\ e.kind \in {"describe", "execute", "batch"}
           /\ e.kind = "describe" => e \in DescribeEntry
           /\ e.kind = "execute" => e \in ExecuteEntry
           /\ e.kind = "batch" => e \in BatchEntry
BY DEF Pending, DescribeEntry, ExecuteEntry, BatchEntry

\* The entries of the queue, by kind.
LEMMA QueueEntries ==
    ASSUME TypeOK, NEW i \in 1..Len(pending)
    PROVE  /\ pending[i] \in Pending
           /\ pending[i].kind = "describe" => pending[i] \in DescribeEntry
           /\ pending[i].kind = "execute" => pending[i] \in ExecuteEntry
<1>1. pending[i] \in Pending
  BY ElementOfSeq DEF TypeOK, TrackerTypeOK
<1> QED
  BY <1>1, EntryKinds

\* A run of entries has a length, so removing it is well defined.
LEMMA RunLengthType ==
    ASSUME TypeOK, NEW i \in Nat, NEW kinds
    PROVE  RunLength(i, kinds) \in Nat
<1> DEFINE R == {k \in i..Len(pending) : \A m \in i..k : pending[m].kind \in kinds}
<1>1. Len(pending) \in Int
  BY LenProperties DEF TypeOK, TrackerTypeOK
<1>2. IsFiniteSet(i..Len(pending))
  BY <1>1, FS_Interval
<1>3. IsFiniteSet(R)
  BY <1>2, FS_Subset
<1> QED
  BY <1>3, FS_CardinalityType DEF RunLength

\* Dropping a prefix thins the queue.
LEMMA ThinSuffix ==
    ASSUME NEW p \in Seq(Pending), NEW m \in Nat, m >= 1
    PROVE  /\ SubSeq(p, m, Len(p)) \in Seq(Pending)
           /\ Len(SubSeq(p, m, Len(p))) <= Len(p)
           /\ Thinned(SubSeq(p, m, Len(p)), p)
<1> DEFINE q == SubSeq(p, m, Len(p))
           f == [i \in 1..Len(q) |-> i + m - 1]
<1>1. Len(p) \in Nat
  BY LenProperties
<1>2. \A i \in m..Len(p) : p[i] \in Pending
  BY <1>1, ElementOfSeq
<1>3. /\ q \in Seq(Pending)
      /\ Len(q) = IF m <= Len(p) THEN Len(p) - m + 1 ELSE 0
      /\ \A i \in 1..Len(p) - m + 1 : q[i] = p[m + i - 1]
  BY <1>1, <1>2, SubSeqProperties
<1>4. f \in [1..Len(q) -> 1..Len(p)]
  BY <1>1, <1>3
<1>5. \A i \in 1..Len(q) : q[i] = p[f[i]]
  BY <1>1, <1>3
<1>6. \A i, j \in 1..Len(q) : i < j => f[i] < f[j]
  BY <1>1, <1>3
<1>7. Thinned(q, p)
  BY <1>4, <1>5, <1>6, ZenonT(60) DEF Thinned
<1> QED
  BY <1>1, <1>3, <1>7

\* Removing a run from the middle thins the queue.
LEMMA ThinMiddle ==
    ASSUME NEW p \in Seq(Pending), NEW k \in 1..Len(p), NEW m \in Nat, m > k
    PROVE  LET q == SubSeq(p, 1, k) \o SubSeq(p, m, Len(p))
           IN  /\ q \in Seq(Pending)
               /\ Len(q) <= Len(p)
               /\ Thinned(q, p)
<1> DEFINE q1 == SubSeq(p, 1, k)
           q2 == SubSeq(p, m, Len(p))
           q == q1 \o q2
           f == [i \in 1..Len(q) |-> IF i <= k THEN i ELSE i - k + m - 1]
<1>1. Len(p) \in Nat
  BY LenProperties
<1>2. \A i \in 1..Len(p) : p[i] \in Pending
  BY <1>1, ElementOfSeq
<1>3. /\ q1 \in Seq(Pending)
      /\ Len(q1) = k
      /\ \A i \in 1..k : q1[i] = p[i]
  <2>1. \A i \in 1..k : p[i] \in Pending
    BY <1>1, <1>2
  <2> QED
    BY <1>1, <2>1, SubSeqProperties
<1>4. /\ q2 \in Seq(Pending)
      /\ Len(q2) = IF m <= Len(p) THEN Len(p) - m + 1 ELSE 0
      /\ \A i \in 1..Len(p) - m + 1 : q2[i] = p[m + i - 1]
  <2>1. \A i \in m..Len(p) : p[i] \in Pending
    BY <1>1, <1>2
  <2> QED
    BY <1>1, <2>1, SubSeqProperties
<1>5. /\ q \in Seq(Pending)
      /\ Len(q) = Len(q1) + Len(q2)
      /\ \A i \in 1..Len(q1) + Len(q2) :
             q[i] = IF i <= Len(q1) THEN q1[i] ELSE q2[i - Len(q1)]
  BY <1>3, <1>4, ConcatProperties
<1>6. Len(q) = k + (IF m <= Len(p) THEN Len(p) - m + 1 ELSE 0)
  BY <1>3, <1>4, <1>5
<1>7. f \in [1..Len(q) -> 1..Len(p)]
  BY <1>1, <1>6
<1>8. \A i \in 1..Len(q) : q[i] = p[f[i]]
  <2> SUFFICES ASSUME NEW i \in 1..Len(q)
               PROVE  q[i] = p[f[i]]
    OBVIOUS
  <2>1. CASE i <= k
    BY <2>1, <1>1, <1>3, <1>5, <1>6
  <2>2. CASE ~(i <= k)
    <3>1. q[i] = q2[i - k]
      BY <2>2, <1>1, <1>3, <1>4, <1>5, <1>6
    <3>2. i - k \in 1..Len(p) - m + 1
      BY <2>2, <1>1, <1>6
    <3>3. q2[i - k] = p[m + (i - k) - 1]
      BY <3>2, <1>4
    <3> QED
      BY <3>1, <3>2, <3>3, <2>2, <1>1
  <2> QED
    BY <2>1, <2>2
<1>9. \A i, j \in 1..Len(q) : i < j => f[i] < f[j]
  BY <1>1, <1>6
<1> HIDE DEF f
<1>10. Thinned(q, p)
  BY <1>7, <1>8, <1>9, SMTT(30) DEF Thinned
<1> QED
  BY <1>1, <1>5, <1>6, <1>10

-----------------------------------------------------------------------------

\* Entries may leave the queue at any place: the invariant stays.
LEMMA ThinKeeps ==
    ASSUME IInv,
           UNCHANGED <<statements, portals, nextStatementId, nextExecuteId, answered>>,
           pending' \in Seq(Pending), Len(pending') <= Len(pending),
           Thinned(pending', pending), copyIn' \in CopyIn
    PROVE  IInv'
<1> USE DEF IInv
<1>1. PICK f \in [1..Len(pending') -> 1..Len(pending)] :
          /\ \A i \in 1..Len(pending') : pending'[i] = pending[f[i]]
          /\ \A i, j \in 1..Len(pending') : i < j => f[i] < f[j]
  BY DEF Thinned
<1>2. TypeOK'
  BY DEF TypeOK, TrackerTypeOK
<1>3. WithinLimits'
  <2>1. Len(pending) \in Nat /\ Len(pending') \in Nat
    BY LenProperties DEF TypeOK, TrackerTypeOK
  <2> QED
    BY <2>1, LimitsAssumption DEF WithinLimits, Parsed, Bound
<1>4. IncarnationsDistinct'
  BY DEF IncarnationsDistinct, Parsed
<1>5. ReferencesMinted'
  BY <1>1 DEF ReferencesMinted
<1>6. DescriptionsFollowIncarnation'
  BY <1>1, ZenonT(60) DEF DescriptionsFollowIncarnation, Parsed
<1>7. DescribedExecutesFilled'
  BY <1>1 DEF DescribedExecutesFilled, Parsed
<1>8. ExecutesOrdered'
  <2>1. \A i \in 1..Len(pending') : pending'[i].kind = "execute"
            => pending'[i].id < nextExecuteId'
    BY <1>1 DEF ExecutesOrdered
  <2>2. \A i, j \in 1..Len(pending') :
            i < j /\ pending'[i].kind = "execute" /\ pending'[j].kind = "execute"
                => pending'[i].id < pending'[j].id
    BY <1>1 DEF ExecutesOrdered
  <2> QED
    BY <2>1, <2>2 DEF ExecutesOrdered
<1> QED
  BY <1>2, <1>3, <1>4, <1>5, <1>6, <1>7, <1>8

\* A queue that is its own thinning: nothing left it.
LEMMA ThinSelf ==
    ASSUME NEW p \in Seq(Pending)
    PROVE  Thinned(p, p)
<1> DEFINE f == [i \in 1..Len(p) |-> i]
<1>1. /\ f \in [1..Len(p) -> 1..Len(p)]
      /\ \A i \in 1..Len(p) : p[i] = p[f[i]]
      /\ \A i, j \in 1..Len(p) : i < j => f[i] < f[j]
  OBVIOUS
<1> QED
  BY <1>1, ZenonT(60) DEF Thinned

\* The front entry leaves the queue.
LEMMA ThinTail ==
    ASSUME NEW p \in Seq(Pending), p # << >>
    PROVE  /\ Tail(p) \in Seq(Pending)
           /\ Len(Tail(p)) <= Len(p)
           /\ Thinned(Tail(p), p)
<1>1. Tail(p) = SubSeq(p, 2, Len(p))
  BY TailIsSubSeq
<1>2. /\ SubSeq(p, 2, Len(p)) \in Seq(Pending)
      /\ Len(SubSeq(p, 2, Len(p))) <= Len(p)
      /\ Thinned(SubSeq(p, 2, Len(p)), p)
  <2>1. 2 \in Nat /\ 2 >= 1
    OBVIOUS
  <2> HIDE DEF Thinned
  <2> QED
    BY <2>1, ThinSuffix, Zenon
<1> QED
  BY <1>1, <1>2, ZenonT(60)

-----------------------------------------------------------------------------

\* Initially nothing is tracked.
LEMMA InitIInv == Init => IInv
<1> SUFFICES ASSUME Init PROVE IInv
  OBVIOUS
<1> USE DEF Init, TrackerInit
<1>1. Parsed = {} /\ Bound = {}
  BY DEF Parsed, Bound
<1>2. pending = << >> /\ Len(pending) = 0 /\ pending \in Seq(Pending)
  BY EmptySeq
<1>3. TypeOK
  BY <1>2 DEF TypeOK, TrackerTypeOK, CopyIn, Idle
<1>4. WithinLimits
  BY <1>1, <1>2, FS_EmptySet, LimitsAssumption DEF WithinLimits
<1>5. /\ IncarnationsDistinct /\ ReferencesMinted
      /\ DescriptionsFollowIncarnation /\ DescribedExecutesFilled
      /\ ExecutesOrdered
  BY <1>1, <1>2 DEF IncarnationsDistinct, ReferencesMinted,
     DescriptionsFollowIncarnation, DescribedExecutesFilled, ExecutesOrdered
<1> QED
  BY <1>3, <1>4, <1>5 DEF IInv

\* Replacing the entry of one statement or portal name adds at most that name.
LEMMA OneMoreName ==
    ASSUME NEW S, NEW T, NEW x, IsFiniteSet(S), NEW max \in Nat,
           T \subseteq S \cup {x}, Cardinality(S) <= max,
           x \in S \/ Cardinality(S) < max
    PROVE  Cardinality(T) <= max
<1>1. /\ IsFiniteSet(S \cup {x})
      /\ Cardinality(S \cup {x}) = IF x \in S THEN Cardinality(S) ELSE Cardinality(S) + 1
  BY FS_AddElement
<1>2. IsFiniteSet(T) /\ Cardinality(T) <= Cardinality(S \cup {x})
  BY <1>1, FS_Subset
<1>3. Cardinality(S) \in Nat /\ Cardinality(T) \in Nat
  BY <1>2, FS_CardinalityType
<1> QED
  BY <1>1, <1>2, <1>3

\* Only finitely many names are tracked.
LEMMA TrackedFinite == IsFiniteSet(Parsed) /\ IsFiniteSet(Bound)
BY NamesAssumption, FS_Subset DEF Parsed, Bound

-----------------------------------------------------------------------------
(* One lemma per operation that does not merely thin the queue.            *)

\* Appending an entry that respects the invariant on entries.
LEMMA PushKeeps ==
    ASSUME IInv, PushFits, NEW e \in Pending, push(e),
           UNCHANGED <<statements, portals, nextStatementId, copyIn, answered>>,
           nextExecuteId' \in Nat, nextExecuteId <= nextExecuteId',
           e.kind = "describe" /\ e.statement # None
               => e.statement.id < nextStatementId,
           e.kind = "execute" =>
               /\ e.statement # None => e.statement < nextStatementId
               /\ e.positions # None => <<e.statement, e.positions>> \in answered
               /\ e.id = nextExecuteId /\ nextExecuteId < nextExecuteId'
               /\ \A s \in Parsed :
                      e.statement = statements[s].id /\ statements[s].described # None
                          => e.positions # None
    PROVE  IInv'
<1> USE DEF IInv
<1> DEFINE n == Len(pending)
<1>1. /\ n \in Nat
      /\ pending' \in Seq(Pending)
      /\ Len(pending') = n + 1
      /\ \A i \in 1..n : pending'[i] = pending[i]
      /\ pending'[n + 1] = e
  BY AppendProperties, LenProperties DEF TypeOK, TrackerTypeOK, push
<1>2. \A i \in 1..Len(pending') : i \in 1..n \/ i = n + 1
  BY <1>1
<1>3. TypeOK'
  BY <1>1 DEF TypeOK, TrackerTypeOK
<1>4. WithinLimits'
  BY <1>1, LimitsAssumption DEF WithinLimits, PushFits, Parsed, Bound
<1>5. IncarnationsDistinct'
  BY DEF IncarnationsDistinct, Parsed
<1>6. ReferencesMinted'
  BY <1>1, <1>2 DEF ReferencesMinted
<1>7. DescriptionsFollowIncarnation'
  BY <1>1, <1>2 DEF DescriptionsFollowIncarnation, Parsed
<1>8. DescribedExecutesFilled'
  BY <1>1, <1>2 DEF DescribedExecutesFilled, Parsed
<1>9. ExecutesOrdered'
  <2>1. \A i \in 1..n : pending[i].kind = "execute" =>
            pending[i].id \in Nat /\ pending[i].id < nextExecuteId
    BY QueueEntries DEF ExecutesOrdered, ExecuteEntry
  <2>2. \A i \in 1..Len(pending') : pending'[i].kind = "execute"
            => pending'[i].id < nextExecuteId'
    <3> SUFFICES ASSUME NEW i \in 1..Len(pending'), pending'[i].kind = "execute"
                 PROVE  pending'[i].id < nextExecuteId'
      OBVIOUS
    <3>1. nextExecuteId \in Nat
      BY DEF TypeOK, TrackerTypeOK
    <3>2. CASE i \in 1..n
      BY <1>1, <2>1, <3>1, <3>2
    <3>3. CASE i = n + 1
      BY <1>1, <3>3
    <3> QED
      BY <1>2, <3>2, <3>3
  <2>3. \A i, j \in 1..Len(pending') :
            i < j /\ pending'[i].kind = "execute" /\ pending'[j].kind = "execute"
                => pending'[i].id < pending'[j].id
    <3> SUFFICES ASSUME NEW i \in 1..Len(pending'), NEW j \in 1..Len(pending'),
                        i < j, pending'[i].kind = "execute",
                        pending'[j].kind = "execute"
                 PROVE  pending'[i].id < pending'[j].id
      OBVIOUS
    <3>1. i \in 1..n
      BY <1>1
    <3>2. CASE j \in 1..n
      BY <1>1, <3>1, <3>2 DEF ExecutesOrdered
    <3>3. CASE j = n + 1
      BY <1>1, <2>1, <3>1, <3>3
    <3> QED
      BY <1>2, <3>2, <3>3
  <2> QED
    BY <2>2, <2>3 DEF ExecutesOrdered
<1> QED
  BY <1>3, <1>4, <1>5, <1>6, <1>7, <1>8, <1>9

\* Parse: the new incarnation is one no entry of the queue refers to.
LEMMA ParseKeeps ==
    ASSUME IInv, NEW s \in StatementNames, NEW params \in Params, Parse(s, params)
    PROVE  IInv'
<1> DEFINE new == [id |-> nextStatementId, params |-> params, described |-> None]
<1>0. /\ ParseFits(s)
      /\ statements' = [statements EXCEPT ![s] = new]
      /\ nextStatementId' = nextStatementId + 1
      /\ UNCHANGED <<portals, pending, nextExecuteId, copyIn, answered>>
  BY DEF Parse, parse
<1>1. /\ statements' \in [StatementNames -> Statement \cup {None}]
      /\ statements' = [statements EXCEPT ![s] = new]
      /\ new \in Statement
  BY <1>0 DEF IInv, TypeOK, TrackerTypeOK, Statement
<1>2. new # None
  BY <1>1, NoneAssumption
<1>3. /\ \A t \in StatementNames : statements'[t] = IF t = s THEN new ELSE statements[t]
      /\ Parsed' = Parsed \cup {s}
  BY <1>1, <1>2 DEF Parsed, IInv, TypeOK, TrackerTypeOK
<1>4. \A t \in Parsed : statements[t].id \in Nat /\ statements[t].id < nextStatementId
  BY DEF Parsed, IInv, TypeOK, TrackerTypeOK, Statement, IncarnationsDistinct
<1>5. TypeOK'
  BY <1>0, <1>1 DEF IInv, TypeOK, TrackerTypeOK
<1>6. WithinLimits'
  <2>1. Cardinality(Parsed') <= MaxStatements
    BY <1>0, <1>3, OneMoreName, TrackedFinite, LimitsAssumption
    DEF IInv, WithinLimits, ParseFits
  <2> QED
    BY <1>0, <2>1 DEF IInv, WithinLimits, Bound
<1>7. IncarnationsDistinct'
  <2>1. nextStatementId \in Nat
    BY DEF IInv, TypeOK, TrackerTypeOK
  <2> QED
    BY <1>0, <1>3, <1>4, <2>1 DEF IInv, IncarnationsDistinct
<1>8. ReferencesMinted'
  <2> SUFFICES ASSUME NEW i \in 1..Len(pending)
               PROVE  /\ pending[i].kind = "describe" /\ pending[i].statement # None
                             => pending[i].statement.id < nextStatementId + 1
                      /\ pending[i].kind = "execute" /\ pending[i].statement # None
                             => pending[i].statement < nextStatementId + 1
    BY <1>0 DEF ReferencesMinted
  <2> QED
    BY QueueEntries DEF IInv, ReferencesMinted, TypeOK, TrackerTypeOK, DescribeEntry,
       ExecuteEntry, StatementRef
<1>9. \A t \in Parsed' : statements'[t].described # None
          => t \in Parsed /\ statements'[t] = statements[t]
  BY <1>3 DEF Parsed
<1>10. DescriptionsFollowIncarnation'
  <2>1. \A t \in Parsed' : statements'[t].described # None
            => <<statements'[t].id, statements'[t].described>> \in answered'
    BY <1>0, <1>9 DEF IInv, DescriptionsFollowIncarnation
  <2>2. \A i \in 1..Len(pending) :
            pending[i].kind = "execute" =>
                (pending[i].positions # None =>
                    <<pending[i].statement, pending[i].positions>> \in answered)
    BY DEF IInv, DescriptionsFollowIncarnation
  <2> QED
    BY <1>0, <2>1, <2>2 DEF DescriptionsFollowIncarnation
<1>11. DescribedExecutesFilled'
  <2> SUFFICES ASSUME NEW t \in Parsed', NEW i \in 1..Len(pending),
                      pending[i].kind = "execute",
                      pending[i].statement = statements'[t].id,
                      statements'[t].described # None
               PROVE  pending[i].positions # None
    BY <1>0 DEF DescribedExecutesFilled
  <2>1. t \in Parsed /\ statements'[t] = statements[t]
    BY <1>9
  <2> QED
    BY <2>1 DEF IInv, DescribedExecutesFilled
<1>12. ExecutesOrdered'
  BY <1>0 DEF IInv, ExecutesOrdered
<1> QED
  BY <1>5, <1>6, <1>7, <1>8, <1>10, <1>11, <1>12 DEF IInv

\* Bind and ClosePortal touch nothing but the portals.
LEMMA PortalsKeep ==
    ASSUME IInv,
           UNCHANGED <<statements, pending, nextStatementId, nextExecuteId, copyIn,
                       answered>>,
           portals' \in [PortalNames -> Portal \cup {None}],
           Cardinality(Bound') <= MaxPortals
    PROVE  IInv'
<1> USE DEF IInv
<1>1. TypeOK'
  BY DEF TypeOK, TrackerTypeOK
<1>2. WithinLimits'
  BY DEF WithinLimits, Parsed
<1>3. IncarnationsDistinct'
  BY DEF IncarnationsDistinct, Parsed
<1>4. ReferencesMinted'
  BY DEF ReferencesMinted
<1>5. DescriptionsFollowIncarnation'
  BY DEF DescriptionsFollowIncarnation, Parsed
<1>6. DescribedExecutesFilled'
  BY DEF DescribedExecutesFilled, Parsed
<1>7. ExecutesOrdered'
  BY DEF ExecutesOrdered
<1> QED
  BY <1>1, <1>2, <1>3, <1>4, <1>5, <1>6, <1>7

\* Bind: at most the bound portal is new.
LEMMA BindKeeps ==
    ASSUME IInv, NEW p \in PortalNames, NEW s \in StatementNames,
           NEW formats \in Formats, Bind(p, s, formats)
    PROVE  IInv'
<1> DEFINE new == [statement |-> s, formats |-> formats]
<1>1. new \in Portal
  BY DEF Portal
<1>2. /\ portals' = [portals EXCEPT ![p] = new]
      /\ portals \in [PortalNames -> Portal \cup {None}]
  BY DEF Bind, bind, IInv, TypeOK, TrackerTypeOK
<1>3. portals' \in [PortalNames -> Portal \cup {None}]
  BY <1>1, <1>2
<1>4. Bound' \subseteq Bound \cup {p}
  BY <1>2 DEF Bound
<1>5. p \in Bound \/ Cardinality(Bound) < MaxPortals
  BY DEF Bind, bind, BindFits
<1>6. Cardinality(Bound') <= MaxPortals
  BY <1>4, <1>5, OneMoreName, TrackedFinite, LimitsAssumption DEF IInv, WithinLimits
<1> QED
  BY <1>3, <1>6, PortalsKeep DEF Bind, bind

\* Fewer portals stay within the limit.
LEMMA FewerPortals ==
    ASSUME IInv, Bound' \subseteq Bound
    PROVE  Cardinality(Bound') <= MaxPortals
<1>1. /\ Cardinality(Bound') <= Cardinality(Bound)
      /\ Cardinality(Bound) \in Nat /\ Cardinality(Bound') \in Nat
  BY TrackedFinite, FS_Subset, FS_CardinalityType
<1> QED
  BY <1>1, LimitsAssumption DEF IInv, WithinLimits

\* Closing a portal forgets it and nothing else.
LEMMA ClosePortalKeeps ==
    ASSUME IInv, NEW p \in PortalNames, ClosePortal(p)
    PROVE  IInv'
<1>1. /\ portals' = [portals EXCEPT ![p] = None]
      /\ portals \in [PortalNames -> Portal \cup {None}]
  BY DEF ClosePortal, close_portal, IInv, TypeOK, TrackerTypeOK
<1>2. Bound' \subseteq Bound
  BY <1>1 DEF Bound
<1>3. portals' \in [PortalNames -> Portal \cup {None}]
  BY <1>1
<1> QED
  BY <1>2, <1>3, FewerPortals, PortalsKeep DEF ClosePortal, close_portal

\* Closing a statement forgets it and its portals; the queue is not touched.
LEMMA CloseStatementKeeps ==
    ASSUME IInv, NEW s \in StatementNames, CloseStatement(s)
    PROVE  IInv'
<1> USE DEF CloseStatement, close_statement
<1>1. /\ statements \in [StatementNames -> Statement \cup {None}]
      /\ portals \in [PortalNames -> Portal \cup {None}]
  BY DEF IInv, TypeOK, TrackerTypeOK
<1>2. /\ statements' \in [StatementNames -> Statement \cup {None}]
      /\ portals' \in [PortalNames -> Portal \cup {None}]
  BY <1>1
<1>3. Bound' \subseteq Bound
  BY DEF Bound
<1>4. Parsed' \subseteq Parsed /\ \A t \in Parsed' : statements'[t] = statements[t]
  BY <1>1 DEF Parsed
<1>5. TypeOK'
  BY <1>2 DEF IInv, TypeOK, TrackerTypeOK
<1>6. WithinLimits'
  <2>1. /\ Cardinality(Parsed') <= Cardinality(Parsed)
        /\ Cardinality(Parsed) \in Nat /\ Cardinality(Parsed') \in Nat
    BY <1>4, TrackedFinite, FS_Subset, FS_CardinalityType, SMTT(30)
  <2> QED
    BY <1>3, <2>1, FewerPortals, LimitsAssumption DEF IInv, WithinLimits
<1>7. /\ IncarnationsDistinct' /\ DescriptionsFollowIncarnation'
      /\ DescribedExecutesFilled'
  <2>1. IncarnationsDistinct'
    BY <1>4 DEF IInv, IncarnationsDistinct
  <2>2. DescriptionsFollowIncarnation'
    BY <1>4 DEF IInv, DescriptionsFollowIncarnation
  <2>3. DescribedExecutesFilled'
    BY <1>4 DEF IInv, DescribedExecutesFilled
  <2> QED
    BY <2>1, <2>2, <2>3
<1>8. ReferencesMinted' /\ ExecutesOrdered'
  BY DEF IInv, ReferencesMinted, ExecutesOrdered
<1> QED
  BY <1>5, <1>6, <1>7, <1>8 DEF IInv

\* A reference names the current incarnation of a parsed statement.
LEMMA References ==
    ASSUME IInv
    PROVE  /\ \A s \in StatementNames :
                  \/ StatementRefOf(s) = None
                  \/ /\ StatementRefOf(s).name = s
                     /\ StatementRefOf(s).id = statements[s].id
                     /\ StatementRefOf(s) \in StatementRef
                     /\ s \in Parsed
                     /\ statements[s].id < nextStatementId
           /\ \A p \in PortalNames :
                  \/ PortalRefOf(p) = None
                  \/ \E s \in Parsed : /\ PortalRefOf(p).name = s
                                       /\ PortalRefOf(p).id = statements[s].id
                                       /\ PortalRefOf(p) \in StatementRef
                                       /\ statements[s].id < nextStatementId
<1>1. /\ statements \in [StatementNames -> Statement \cup {None}]
      /\ portals \in [PortalNames -> Portal \cup {None}]
  BY DEF IInv, TypeOK, TrackerTypeOK
<1>2. ASSUME NEW s \in StatementNames
      PROVE  \/ StatementRefOf(s) = None
             \/ /\ StatementRefOf(s).name = s
                /\ StatementRefOf(s).id = statements[s].id
                /\ StatementRefOf(s) \in StatementRef
                /\ s \in Parsed
                /\ statements[s].id < nextStatementId
  <2>1. CASE statements[s] = None
    BY <2>1 DEF StatementRefOf
  <2>2. CASE statements[s] # None
    BY <1>1, <2>2, Zenon DEF StatementRefOf, StatementRef, Statement, Parsed, IInv,
       IncarnationsDistinct
  <2> QED
    BY <2>1, <2>2
<1>3. ASSUME NEW p \in PortalNames, PortalRefOf(p) # None
      PROVE  \E s \in Parsed : /\ PortalRefOf(p).name = s
                                /\ PortalRefOf(p).id = statements[s].id
                                /\ PortalRefOf(p) \in StatementRef
                                /\ statements[s].id < nextStatementId
  <2>1. portals[p] # None /\ portals[p].statement \in StatementNames
    BY <1>1, <1>3 DEF PortalRefOf, Portal
  <2>2. PortalRefOf(p) = StatementRefOf(portals[p].statement)
    BY <2>1 DEF PortalRefOf
  <2> QED
    BY <1>2, <1>3, <2>1, <2>2, ZenonT(30)
<1> QED
  BY <1>2, <1>3, Zenon

\* Describe: the queue remembers the incarnation asked about.
LEMMA DescribeKeeps ==
    ASSUME IInv, NEW ref \in StatementRef \cup {None},
           ref # None => ref.id < nextStatementId,
           PushFits, push([kind |-> "describe", statement |-> ref]),
           UNCHANGED <<statements, portals, nextStatementId, nextExecuteId, copyIn,
                       answered>>
    PROVE  IInv'
<1> DEFINE e == [kind |-> "describe", statement |-> ref]
<1>1. e \in Pending
  BY DEF Pending, DescribeEntry
<1>2. e.kind # "execute"
  OBVIOUS
<1>3. nextExecuteId \in Nat /\ nextExecuteId <= nextExecuteId /\ nextExecuteId' = nextExecuteId
  BY DEF IInv, TypeOK, TrackerTypeOK
<1>4. e.statement = ref
  OBVIOUS
<1> HIDE DEF e
<1>5. push(e)
  BY DEF e
<1> QED
  BY <1>1, <1>2, <1>3, <1>4, <1>5, PushKeeps, ZenonT(60)

\* Sync, Query and FunctionCall queue a batch marker.
LEMMA SyncKeeps ==
    ASSUME IInv, Sync
    PROVE  IInv'
<1> DEFINE e == [kind |-> "batch"]
<1>1. e \in Pending /\ e.kind # "execute" /\ e.kind # "describe"
  BY DEF Pending, BatchEntry
<1>2. nextExecuteId \in Nat /\ nextExecuteId <= nextExecuteId /\ nextExecuteId' = nextExecuteId
  BY DEF IInv, TypeOK, TrackerTypeOK, Sync, expect_batch
<1> HIDE DEF e
<1>3. push(e) /\ PushFits
  BY DEF e, Sync, expect_batch
<1> QED
  BY <1>1, <1>2, <1>3, PushKeeps, ZenonT(60) DEF Sync, expect_batch

\* Execute: the entry carries the current incarnation and its description.
LEMMA ExecuteKeeps ==
    ASSUME IInv, NEW p \in PortalNames, Execute(p)
    PROVE  IInv'
<1> DEFINE e == ExecuteOf(p)
           ref == PortalRefOf(p)
           formats == IF portals[p] = None THEN TextFormats ELSE portals[p].formats
<1>1. /\ statements \in [StatementNames -> Statement \cup {None}]
      /\ portals \in [PortalNames -> Portal \cup {None}]
      /\ nextExecuteId \in Nat
  BY DEF IInv, TypeOK, TrackerTypeOK
<1>2. /\ e.kind = "execute" /\ e.id = nextExecuteId
      /\ e.statement = (IF ref = None THEN None ELSE ref.id)
      /\ e.positions = (IF ref = None THEN None ELSE statements[ref.name].described)
      /\ e = [kind |-> "execute", id |-> nextExecuteId, statement |-> e.statement,
              positions |-> e.positions, formats |-> formats]
  BY Zenon DEF ExecuteOf
<1>3. formats \in Formats
  BY <1>1, ValuesAssumption, SMTT(30) DEF Portal
<1>4. ASSUME ref # None
      PROVE  \E s \in Parsed : /\ ref.name = s /\ ref.id = statements[s].id
                                /\ statements[s].id \in Nat
                                /\ statements[s].id < nextStatementId
                                /\ statements[s].described \in Positions \cup {None}
  <2>1. PICK s \in Parsed : /\ ref.name = s /\ ref.id = statements[s].id
                            /\ statements[s].id < nextStatementId
    BY <1>4, References, ZenonT(30)
  <2>2. statements[s] \in Statement
    BY <1>1 DEF Parsed
  <2> QED
    BY <2>1, <2>2 DEF Statement
<1>9. push(e) /\ PushFits /\ nextExecuteId' = nextExecuteId + 1
  BY DEF Execute, expect_execute
<1> HIDE DEF e, ref, formats
<1>5. e \in Pending
  <2>1. e.statement \in Nat \cup {None} /\ e.positions \in Positions \cup {None}
    <3>1. CASE ref = None
      BY <1>2, <3>1
    <3>2. CASE ref # None
      BY <1>2, <1>4, <3>2
    <3> QED
      BY <3>1, <3>2
  <2> QED
    BY <1>1, <1>2, <1>3, <2>1, SMTT(30) DEF Pending, ExecuteEntry
<1>6. e.statement # None => e.statement < nextStatementId
  BY <1>2, <1>4
<1>7. e.positions # None => <<e.statement, e.positions>> \in answered
  BY <1>2, <1>4 DEF IInv, DescriptionsFollowIncarnation
<1>8. \A s \in Parsed : e.statement = statements[s].id /\ statements[s].described # None
          => e.positions # None
  <2> SUFFICES ASSUME NEW s \in Parsed, e.statement = statements[s].id,
                      statements[s].described # None
               PROVE  e.positions # None
    OBVIOUS
  <2>1. statements[s].id \in Nat
    BY <1>1 DEF Parsed, Statement
  <2>2. ref # None
    BY <1>2, <2>1, NoneAssumption
  <2> QED
    BY <1>2, <1>4, <2>2, ZenonT(60) DEF IInv, IncarnationsDistinct
<1>10. nextExecuteId' \in Nat /\ nextExecuteId <= nextExecuteId' /\ nextExecuteId < nextExecuteId'
  BY <1>1, <1>9
<1>11. UNCHANGED <<statements, portals, nextStatementId, copyIn, answered>>
  BY DEF Execute, expect_execute
<1> QED
  BY <1>2, <1>5, <1>6, <1>7, <1>8, <1>9, <1>10, <1>11, PushKeeps, ZenonT(60)

-----------------------------------------------------------------------------
(* The operations that only let entries leave the queue.                   *)

\* The copy state follows the front of the queue; the queue stays.
LEMMA CopyInResponseKeeps ==
    ASSUME IInv, CopyInResponse
    PROVE  IInv'
<1>1. pending \in Seq(Pending) /\ Len(pending) \in Nat
  BY LenProperties DEF IInv, TypeOK, TrackerTypeOK
<1>2. copyIn' \in CopyIn
  <2>1. CASE FrontIs("execute")
    <3>1. pending # << >> /\ Head(pending).kind = "execute"
      BY <2>1 DEF FrontIs
    <3>2. Len(pending) # 0 /\ Head(pending) = pending[1]
      BY <1>1, <3>1, EmptySeq, HeadTailProperties
    <3>3. Head(pending) \in ExecuteEntry
      BY <1>1, <3>1, <3>2, QueueEntries DEF IInv
    <3> QED
      BY <2>1, <3>3 DEF CopyInResponse, copy_in_started, CopyIn, ExecuteEntry
  <2>2. CASE ~FrontIs("execute")
    BY <2>2 DEF CopyInResponse, copy_in_started, CopyIn
  <2> QED
    BY <2>1, <2>2
<1>3. /\ pending' = pending
      /\ UNCHANGED <<statements, portals, nextStatementId, nextExecuteId, answered>>
  BY DEF CopyInResponse, copy_in_started
<1>4. Thinned(pending', pending) /\ pending' \in Seq(Pending) /\ Len(pending') <= Len(pending)
  BY <1>1, <1>3, ThinSelf
<1> QED
  BY <1>2, <1>3, <1>4, ThinKeeps

\* A copy frame drops at most the markers behind the copying Execute.
LEMMA CopyFrameKeeps ==
    ASSUME IInv, NEW last \in BOOLEAN, CopyFrame(last)
    PROVE  IInv' /\ Thinned(pending', pending)
<1>1. pending \in Seq(Pending) /\ Len(pending) \in Nat /\ copyIn \in CopyIn
  BY LenProperties DEF IInv, TypeOK, TrackerTypeOK
<1>2. copyIn' \in CopyIn
  BY <1>1 DEF CopyFrame, copy_data, CopyIn, Idle
<1>3. UNCHANGED <<statements, portals, nextStatementId, nextExecuteId, answered>>
  BY DEF CopyFrame, copy_data
<1>4. Thinned(pending', pending) /\ pending' \in Seq(Pending) /\ Len(pending') <= Len(pending)
  <2>1. CASE CopyExecutes = {}
    <3>1. pending' = pending
      BY <2>1 DEF CopyFrame, copy_data
    <3> QED
      BY <1>1, <3>1, ThinSelf
  <2>2. CASE CopyExecutes # {}
    <3> DEFINE k == CHOOSE i \in CopyExecutes : TRUE
               m == k + 1 + RunLength(k + 1, {"batch"})
    <3>1. pending' = SubSeq(pending, 1, k) \o SubSeq(pending, m, Len(pending))
      BY <2>2, ZenonT(60) DEF CopyFrame, copy_data, WithoutMarkersBehind
    <3>2. k \in 1..Len(pending)
      BY <2>2 DEF CopyExecutes
    <3> HIDE DEF k
    <3>3. k + 1 \in Nat
      BY <3>2, <1>1
    <3>4. RunLength(k + 1, {"batch"}) \in Nat
      BY <3>3, RunLengthType DEF IInv
    <3>5. m \in Nat /\ m > k
      BY <3>2, <3>4, <1>1
    <3> HIDE DEF m
    <3> QED
      BY <3>1, <3>2, <3>5, <1>1, ThinMiddle
  <2> QED
    BY <2>1, <2>2
<1> QED
  BY <1>2, <1>3, <1>4, ThinKeeps

\* CommandComplete settles at most the front.
LEMMA CommandCompleteKeeps ==
    ASSUME IInv, CommandComplete
    PROVE  IInv' /\ Thinned(pending', pending)
<1>1. pending \in Seq(Pending) /\ Len(pending) \in Nat /\ copyIn \in CopyIn
  BY LenProperties DEF IInv, TypeOK, TrackerTypeOK
<1>2. UNCHANGED <<statements, portals, nextStatementId, nextExecuteId, answered, copyIn>>
  BY DEF CommandComplete, execute_answered
<1>3. Thinned(pending', pending) /\ pending' \in Seq(Pending) /\ Len(pending') <= Len(pending)
  <2>1. CASE FrontIs("execute")
    <3>1. pending # << >> /\ pending' = Tail(pending)
      BY <2>1 DEF FrontIs, CommandComplete, execute_answered
    <3> QED
      BY <1>1, <3>1, ThinTail
  <2>2. CASE ~FrontIs("execute")
    <3>1. pending' = pending
      BY <2>2 DEF CommandComplete, execute_answered
    <3> QED
      BY <1>1, <3>1, ThinSelf
  <2> QED
    BY <2>1, <2>2
<1> QED
  BY <1>1, <1>2, <1>3, ThinKeeps

\* ReadyForQuery drops a prefix of the queue.
LEMMA ReadyForQueryKeeps ==
    ASSUME IInv, ReadyForQuery
    PROVE  IInv' /\ Thinned(pending', pending)
<1> DEFINE m == RunLength(1, {"describe", "execute"}) + 2
<1>1. pending \in Seq(Pending)
  BY DEF IInv, TypeOK, TrackerTypeOK
<1>2. /\ UNCHANGED <<statements, portals, nextStatementId, nextExecuteId, answered>>
      /\ copyIn' \in CopyIn
      /\ pending' = SubSeq(pending, m, Len(pending))
  BY DEF ReadyForQuery, batch_answered, CopyIn, Idle
<1>3. m \in Nat /\ m >= 1
  <2>1. RunLength(1, {"describe", "execute"}) \in Nat
    BY RunLengthType DEF IInv
  <2> QED
    BY <2>1
<1> HIDE DEF m
<1>4. Thinned(pending', pending) /\ pending' \in Seq(Pending) /\ Len(pending') <= Len(pending)
  BY <1>1, <1>2, <1>3, ThinSuffix
<1> QED
  BY <1>2, <1>4, ThinKeeps

-----------------------------------------------------------------------------
(* The operations that write descriptions.                                 *)

\* A function on 1..n is a sequence of length n.
LEMMA FunctionSeq ==
    ASSUME NEW n \in Nat, NEW q \in [1..n -> Pending]
    PROVE  q \in Seq(Pending) /\ Len(q) = n
<1>1. q \in Seq(Pending)
  BY SeqDef
<1>2. Len(q) \in Nat /\ DOMAIN q = 1..Len(q)
  BY <1>1, LenProperties
<1>3. 1..Len(q) = 1..n
  BY <1>2
<1> HIDE DEF Pending
<1>4. Len(q) = n
  <2>1. CASE Len(q) < n
    BY <2>1, <1>2, <1>3
  <2>2. CASE Len(q) > n
    BY <2>2, <1>2, <1>3
  <2> QED
    BY <1>2, <2>1, <2>2
<1> QED
  BY <1>1, <1>4

\* The front of the queue, when there is one.
LEMMA FrontEntry ==
    ASSUME IInv, NEW kind, FrontIs(kind)
    PROVE  /\ Len(pending) \in Nat /\ 1 \in 1..Len(pending)
           /\ Head(pending) = pending[1]
           /\ pending[1].kind = kind
<1>1. pending \in Seq(Pending) /\ Len(pending) \in Nat
  BY LenProperties DEF IInv, TypeOK, TrackerTypeOK
<1>2. pending # << >> /\ Head(pending).kind = kind
  BY DEF FrontIs
<1>3. Len(pending) # 0 /\ Head(pending) = pending[1]
  BY <1>1, <1>2, EmptySeq, HeadTailProperties, SMTT(30)
<1> QED
  BY <1>1, <1>2, <1>3

\* What back-filling does to an entry: only an absent description changes.
LEMMA BackfilledEntry ==
    ASSUME NEW e \in Pending, NEW id \in Nat, NEW positions \in Positions
    PROVE  LET b == Backfilled(e, id, positions)
           IN  /\ b \in Pending
               /\ b.kind = e.kind
               /\ b.kind # "execute" => b = e
               /\ b.kind = "execute" =>
                      /\ b.id = e.id
                      /\ b.statement = e.statement
                      /\ b.formats = e.formats
                      /\ \/ b.positions = e.positions
                         \/ /\ e.positions = None
                            /\ b.positions = positions
                            /\ b.statement = id
                      /\ b.statement = id => b.positions # None
<1>1. CASE e.kind = "execute"
  <2>1. e \in ExecuteEntry
    BY <1>1, EntryKinds
  <2>2. CASE e.statement = id /\ e.positions = None
    <3> DEFINE b == [e EXCEPT !.positions = positions]
    <3>1. Backfilled(e, id, positions) = b
      BY <1>1, <2>2 DEF Backfilled
    <3>2. b \in ExecuteEntry
      BY <2>1 DEF ExecuteEntry
    <3>3. /\ b.kind = e.kind /\ b.id = e.id /\ b.statement = e.statement
          /\ b.formats = e.formats /\ b.positions = positions
      BY <2>1 DEF ExecuteEntry
    <3>4. b \in Pending /\ b.positions # None
      BY <3>2, <3>3, NoneAssumption DEF Pending
    <3> HIDE DEF b
    <3> QED
      BY <1>1, <2>2, <3>1, <3>3, <3>4
  <2>3. CASE ~(e.statement = id /\ e.positions = None)
    <3>1. Backfilled(e, id, positions) = e
      BY <1>1, <2>3 DEF Backfilled
    <3> QED
      BY <2>3, <3>1
  <2> QED
    BY <2>2, <2>3, Zenon
<1>2. CASE e.kind # "execute"
  BY <1>2 DEF Backfilled
<1> QED
  BY <1>1, <1>2, ZenonT(30)

\* The answer to a Describe reaches the incarnation it was asked about, in
\* the map and behind it in the queue.
LEMMA DescribeAnsweredKeeps ==
    ASSUME IInv, NEW positions \in Positions, describe_answered(positions),
           AnsweredRef # None,
           answered' = answered \cup {<<AnsweredRef.id, positions>>}
    PROVE  IInv' /\ \A j \in 1..Len(pending') : Descends(pending'[j])
<1> DEFINE ref == AnsweredRef
           n == Len(pending)
<1>1. /\ statements \in [StatementNames -> Statement \cup {None}]
      /\ portals \in [PortalNames -> Portal \cup {None}]
      /\ pending \in Seq(Pending)
      /\ nextStatementId \in Nat /\ nextExecuteId \in Nat /\ copyIn \in CopyIn
      /\ answered \in SUBSET (Nat \X Positions)
  BY DEF IInv, TypeOK, TrackerTypeOK
<1>2. /\ FrontIs("describe") /\ n \in Nat /\ 1 \in 1..n
      /\ ref = pending[1].statement /\ pending[1].kind = "describe"
  BY FrontEntry DEF AnsweredRef
<1>3. ref \in StatementRef /\ ref.id \in Nat /\ ref.id < nextStatementId
  <2>1. pending[1] \in DescribeEntry
    BY <1>2, QueueEntries DEF IInv
  <2>2. ref \in StatementRef
    BY <1>2, <2>1 DEF DescribeEntry
  <2> QED
    BY <1>2, <2>2 DEF StatementRef, IInv, ReferencesMinted
<1> HIDE DEF ref
<1>4. /\ pending' = [i \in 1..n - 1 |-> Backfilled(pending[i + 1], ref.id, positions)]
      /\ statements' = [s \in StatementNames |->
             IF Describes(ref, s)
             THEN [statements[s] EXCEPT !.described = positions]
             ELSE statements[s]]
      /\ UNCHANGED <<portals, nextStatementId, nextExecuteId, copyIn>>
      /\ answered' = answered \cup {<<ref.id, positions>>}
      /\ ref # None
  BY <1>2 DEF describe_answered, ref
<1>5. \A i \in 1..n - 1 : i + 1 \in 1..n /\ pending[i + 1] \in Pending
  BY <1>1, <1>2, ElementOfSeq
<1>6. n - 1 \in Nat
  BY <1>2
<1>7. \A i \in 1..n - 1 : pending'[i] = Backfilled(pending[i + 1], ref.id, positions)
  BY <1>4
<1>8. pending' \in [1..n - 1 -> Pending]
  BY <1>3, <1>4, <1>5, BackfilledEntry
<1>9. pending' \in Seq(Pending) /\ Len(pending') = n - 1
  BY <1>6, <1>8, FunctionSeq
<1>10. ASSUME NEW i \in 1..n - 1
       PROVE  /\ pending'[i] \in Pending
              /\ pending'[i].kind = pending[i + 1].kind
              /\ pending'[i].kind # "execute" => pending'[i] = pending[i + 1]
              /\ pending'[i].kind = "execute" =>
                     /\ pending'[i].id = pending[i + 1].id
                     /\ pending'[i].statement = pending[i + 1].statement
                     /\ pending'[i].formats = pending[i + 1].formats
                     /\ \/ pending'[i].positions = pending[i + 1].positions
                        \/ /\ pending[i + 1].positions = None
                           /\ pending'[i].positions = positions
                           /\ pending'[i].statement = ref.id
                     /\ pending'[i].statement = ref.id => pending'[i].positions # None
  <2> DEFINE e == pending[i + 1]
             b == pending'[i]
  <2>1. e \in Pending /\ b = Backfilled(e, ref.id, positions)
    BY <1>5, <1>7, SMTT(30)
  <2> HIDE DEF e, b
  <2>2. /\ b \in Pending
        /\ b.kind = e.kind
        /\ b.kind # "execute" => b = e
        /\ b.kind = "execute" =>
               /\ b.id = e.id
               /\ b.statement = e.statement
               /\ b.formats = e.formats
               /\ \/ b.positions = e.positions
                  \/ /\ e.positions = None
                     /\ b.positions = positions
                     /\ b.statement = ref.id
               /\ b.statement = ref.id => b.positions # None
    BY <1>3, <2>1, BackfilledEntry, ZenonT(60)
  <2> QED
    BY <2>2, Zenon DEF e, b
<1>11. ASSUME NEW s \in Parsed
       PROVE  /\ statements[s] \in Statement
              /\ statements[s].id \in Nat
              /\ statements'[s] \in Statement
              /\ statements'[s].id = statements[s].id
              /\ statements[s].id = ref.id =>
                     (s = ref.name <=> statements'[s].described = positions
                                       /\ Describes(ref, s))
              /\ \/ statements'[s].described = statements[s].described
                 \/ /\ statements[s].id = ref.id
                    /\ statements'[s].described = positions
  <2>1. statements[s] \in Statement
    BY <1>1 DEF Parsed
  <2>2. s \in StatementNames
    BY DEF Parsed
  <2>3. CASE Describes(ref, s)
    <3>1. statements'[s] = [statements[s] EXCEPT !.described = positions]
      BY <1>4, <2>2, <2>3
    <3>2. statements[s].id = ref.id /\ s = ref.name
      BY <2>3 DEF Describes
    <3> QED
      BY <2>1, <2>3, <3>1, <3>2 DEF Statement
  <2>4. CASE ~Describes(ref, s)
    <3>1. statements'[s] = statements[s]
      BY <1>4, <2>2, <2>4
    <3>2. statements[s].id = ref.id => s # ref.name
      BY <1>4, <2>4, SMTT(30) DEF Describes, Parsed
    <3> QED
      BY <2>1, <2>4, <3>1, <3>2, ZenonT(30) DEF Statement
  <2> QED
    BY <2>3, <2>4, Zenon
<1>12. Parsed' = Parsed
  <2>1. \A s \in StatementNames : s \notin Parsed => statements'[s] = None
    BY <1>4, SMTT(30) DEF Parsed, Describes
  <2>2. \A s \in Parsed : statements'[s] # None
    BY <1>11, NoneAssumption, ZenonT(30)
  <2> QED
    BY <2>1, <2>2 DEF Parsed
<1>13. TypeOK'
  <2>1. \A s \in StatementNames : statements'[s] \in Statement \cup {None}
    BY <1>4, <1>11, ZenonT(60) DEF Parsed, Describes
  <2>2. statements' \in [StatementNames -> Statement \cup {None}]
    BY <1>4, <2>1
  <2>3. answered' \in SUBSET (Nat \X Positions)
    BY <1>1, <1>3, <1>4
  <2> QED
    BY <1>1, <1>4, <1>9, <2>2, <2>3, SMTT(30) DEF TypeOK, TrackerTypeOK
<1>14. WithinLimits'
  BY <1>2, <1>4, <1>9, <1>12, LimitsAssumption DEF IInv, WithinLimits, Bound
<1>15. IncarnationsDistinct'
  <2>1. \A s \in Parsed : statements'[s].id = statements[s].id
    BY <1>11
  <2> QED
    BY <1>4, <1>12, <2>1, SMTT(30) DEF IInv, IncarnationsDistinct
<1>16. ReferencesMinted'
  <2>1. ASSUME NEW i \in 1..n - 1
        PROVE  /\ pending'[i].kind = "describe" /\ pending'[i].statement # None
                      => pending'[i].statement.id < nextStatementId
               /\ pending'[i].kind = "execute" /\ pending'[i].statement # None
                      => pending'[i].statement < nextStatementId
    <3>1. i + 1 \in 1..Len(pending)
      BY <1>5
    <3>2. CASE pending'[i].kind = "execute"
      BY <1>10, <3>1, <3>2, ZenonT(30) DEF IInv, ReferencesMinted
    <3>3. CASE pending'[i].kind # "execute"
      <4>1. pending'[i] = pending[i + 1]
        BY <1>10, <3>3, ZenonT(30)
      <4> QED
        BY <3>1, <3>3, <4>1, ZenonT(30) DEF IInv, ReferencesMinted
    <3> QED
      BY <3>2, <3>3
  <2> QED
    BY <1>4, <1>9, <2>1, ZenonT(60) DEF ReferencesMinted
<1>17. DescriptionsFollowIncarnation'
  <2>1. \A s \in Parsed' : statements'[s].described # None
            => <<statements'[s].id, statements'[s].described>> \in answered'
    BY <1>4, <1>11, <1>12, ZenonT(60) DEF IInv, DescriptionsFollowIncarnation
  <2>2. ASSUME NEW i \in 1..Len(pending'), pending'[i].kind = "execute",
               pending'[i].positions # None
        PROVE  <<pending'[i].statement, pending'[i].positions>> \in answered'
    <3>1. i \in 1..n - 1 /\ i + 1 \in 1..Len(pending)
      BY <1>5, <1>9
    <3>2. CASE pending'[i].positions = pending[i + 1].positions
      <4>1. /\ pending[i + 1].kind = "execute"
            /\ pending'[i].statement = pending[i + 1].statement
        BY <1>10, <2>2, <3>1, ZenonT(30)
      <4>2. <<pending[i + 1].statement, pending[i + 1].positions>> \in answered
        BY <2>2, <3>1, <3>2, <4>1, ZenonT(30) DEF IInv, DescriptionsFollowIncarnation
      <4> QED
        BY <1>4, <3>2, <4>1, <4>2
    <3>3. CASE pending'[i].positions = positions /\ pending'[i].statement = ref.id
      BY <1>4, <3>3
    <3> QED
      BY <1>10, <2>2, <3>1, <3>2, <3>3, Zenon
  <2> QED
    BY <2>1, <2>2, Zenon DEF DescriptionsFollowIncarnation
<1>18. DescribedExecutesFilled'
  <2> SUFFICES ASSUME NEW s \in Parsed, NEW i \in 1..n - 1,
                      pending'[i].kind = "execute",
                      pending'[i].statement = statements'[s].id,
                      statements'[s].described # None
               PROVE  pending'[i].positions # None
    BY <1>9, <1>12, SMTT(30) DEF DescribedExecutesFilled
  <2>1. statements'[s].id = statements[s].id
    BY <1>11, ZenonT(30)
  <2>2. pending'[i].statement = statements[s].id
    BY <2>1
  <2>3. CASE statements[s].id = ref.id
    <3>1. pending'[i].statement = ref.id => pending'[i].positions # None
      BY <1>10, ZenonT(30)
    <3> QED
      BY <2>2, <2>3, <3>1
  <2>4. CASE statements[s].id # ref.id
    <3>1. statements[s].described # None
      BY <1>11, <2>4, ZenonT(30)
    <3>2. /\ pending[i + 1].kind = "execute"
          /\ pending[i + 1].statement = statements[s].id
          /\ pending'[i].positions = pending[i + 1].positions
      <4>1. /\ pending[i + 1].kind = "execute"
            /\ pending'[i].statement = pending[i + 1].statement
            /\ \/ pending'[i].positions = pending[i + 1].positions
               \/ pending'[i].statement = ref.id
        BY <1>10, ZenonT(30)
      <4> QED
        BY <2>2, <2>4, <4>1
    <3>3. i + 1 \in 1..Len(pending)
      BY <1>5
    <3>4. pending[i + 1].positions # None
      BY <3>1, <3>2, <3>3, ZenonT(30) DEF IInv, DescribedExecutesFilled
    <3> QED
      BY <3>2, <3>4, ZenonT(30)
  <2> QED
    BY <2>3, <2>4
<1>19. ExecutesOrdered'
  <2>1. ASSUME NEW i \in 1..n - 1, pending'[i].kind = "execute"
        PROVE  pending'[i].id < nextExecuteId'
    BY <1>4, <1>5, <1>10, <2>1, SMTT(30) DEF IInv, ExecutesOrdered
  <2>2. ASSUME NEW i \in 1..n - 1, NEW j \in 1..n - 1, i < j,
               pending'[i].kind = "execute", pending'[j].kind = "execute"
        PROVE  pending'[i].id < pending'[j].id
    <3>1. i + 1 \in 1..n /\ j + 1 \in 1..n /\ i + 1 < j + 1
      BY <1>2, <2>2, SMTT(30)
    <3> QED
      <4>1. /\ pending[i + 1].kind = "execute" /\ pending[j + 1].kind = "execute"
            /\ pending'[i].id = pending[i + 1].id /\ pending'[j].id = pending[j + 1].id
        BY <1>10, <2>2, ZenonT(30)
      <4>2. pending[i + 1].id < pending[j + 1].id
        BY <3>1, <4>1, SMTT(30) DEF IInv, ExecutesOrdered
      <4> QED
        BY <4>1, <4>2
  <2> QED
    BY <1>9, <2>1, <2>2, ZenonT(30) DEF ExecutesOrdered
<1>20. ASSUME NEW j \in 1..Len(pending')
       PROVE  Descends(pending'[j])
  <2>1. j \in 1..n - 1 /\ j + 1 \in 1..Len(pending)
    BY <1>5, <1>9
  <2> QED
    BY <1>10, <2>1, ZenonT(60) DEF Descends
<1> QED
  BY <1>13, <1>14, <1>15, <1>16, <1>17, <1>18, <1>19, <1>20, SMTT(30) DEF IInv

\* A description with nothing to describe takes a Describe away at most.
LEMMA UnaskedDescriptionKeeps ==
    ASSUME IInv, NEW positions, describe_answered(positions), AnsweredRef = None,
           UNCHANGED answered
    PROVE  IInv' /\ Thinned(pending', pending)
<1>1. /\ statements \in [StatementNames -> Statement \cup {None}]
      /\ pending \in Seq(Pending) /\ Len(pending) \in Nat /\ copyIn \in CopyIn
  BY LenProperties DEF IInv, TypeOK, TrackerTypeOK
<1>2. \A s \in StatementNames : ~Describes(AnsweredRef, s)
  BY DEF Describes
<1>3. statements' = statements /\ UNCHANGED <<portals, nextStatementId, nextExecuteId, copyIn>>
  BY <1>1, <1>2 DEF describe_answered
<1>4. Thinned(pending', pending) /\ pending' \in Seq(Pending) /\ Len(pending') <= Len(pending)
  <2>1. CASE FrontIs("describe")
    <3>1. pending # << >> /\ pending' = Tail(pending)
      BY <2>1 DEF FrontIs, describe_answered
    <3> QED
      BY <1>1, <3>1, ThinTail
  <2>2. CASE ~FrontIs("describe")
    <3>1. pending' = pending
      BY <2>2 DEF describe_answered
    <3> QED
      BY <1>1, <3>1, ThinSelf
  <2> QED
    BY <2>1, <2>2
<1> QED
  BY <1>1, <1>3, <1>4, ThinKeeps

\* The description of the Execute being answered is replaced; where it has
\* none, nothing changes.
LEMMA RederiveKeeps ==
    ASSUME IInv, NEW positions \in Positions, Rederive(positions)
    PROVE  /\ IInv'
           /\ \/ pending' = pending
              \/ /\ Len(pending') = Len(pending)
                 /\ 1 \in 1..Len(pending)
                 /\ \A i \in 1..Len(pending) : i # 1 => pending'[i] = pending[i]
                 /\ pending[1].kind = "execute"
                 /\ pending'[1].id = pending[1].id
                 /\ pending'[1].statement = pending[1].statement
                 /\ pending'[1].formats = pending[1].formats
                 /\ pending'[1].positions # None
<1>1. /\ pending \in Seq(Pending) /\ Len(pending) \in Nat /\ copyIn \in CopyIn
      /\ answered \in SUBSET (Nat \X Positions)
  BY LenProperties DEF IInv, TypeOK, TrackerTypeOK
<1>2. UNCHANGED <<statements, portals, nextStatementId, nextExecuteId, copyIn>>
  BY SMTT(30) DEF Rederive, rederived
<1>3. CASE ~(FrontIs("execute") /\ Head(pending).positions # None)
  <2>1. pending' = pending /\ answered' = answered
    BY <1>3 DEF Rederive, rederived
  <2>2. Thinned(pending', pending) /\ pending' \in Seq(Pending) /\ Len(pending') <= Len(pending)
    BY <1>1, <2>1, ThinSelf, SMTT(30)
  <2> QED
    BY <1>1, <1>2, <2>1, <2>2, ThinKeeps
<1>4. CASE FrontIs("execute") /\ Head(pending).positions # None
  <2> DEFINE e == pending[1]
             b == [e EXCEPT !.positions = positions]
  <2>1. /\ 1 \in 1..Len(pending) /\ Head(pending) = e /\ e.kind = "execute"
    BY <1>4, FrontEntry, ZenonT(30)
  <2>2. e \in ExecuteEntry /\ e.positions # None
    BY <1>4, <2>1, QueueEntries DEF IInv
  <2>3. <<e.statement, e.positions>> \in answered
    BY <2>1, <2>2 DEF IInv, DescriptionsFollowIncarnation
  <2>4. e.statement \in Nat
    BY <1>1, <2>3
  <2>5. /\ pending' = [pending EXCEPT ![1] = b]
        /\ answered' = answered \cup {<<e.statement, positions>>}
    BY <1>4, <2>1 DEF Rederive, rederived
  <2>6. /\ b \in Pending /\ b.kind = "execute" /\ b.id = e.id
        /\ b.statement = e.statement /\ b.formats = e.formats
        /\ b.positions = positions /\ b.positions # None
    BY <2>2, NoneAssumption DEF ExecuteEntry, Pending
  <2> HIDE DEF b
  <2>7. /\ pending' \in Seq(Pending)
        /\ Len(pending') = Len(pending)
        /\ pending'[1] = b
        /\ \A i \in 1..Len(pending) : i # 1 => pending'[i] = pending[i]
    <3>1. /\ pending' \in Seq(Pending)
          /\ Len(pending') = Len(pending)
          /\ \A i \in 1..Len(pending) : pending'[i] = IF i = 1 THEN b ELSE pending[i]
      BY <1>1, <2>1, <2>5, <2>6, ExceptSeq, SMTT(30)
    <3> QED
      BY <2>1, <3>1
  <2>8. TypeOK'
    BY <1>2, <2>4, <2>5, <2>7, SMTT(30) DEF IInv, TypeOK, TrackerTypeOK
  <2>9. WithinLimits' /\ IncarnationsDistinct'
    BY <1>2, <2>7, ZenonT(30) DEF IInv, WithinLimits, IncarnationsDistinct, Parsed, Bound
  <2>10. ReferencesMinted'
    <3> SUFFICES ASSUME NEW i \in 1..Len(pending)
                 PROVE  /\ pending'[i].kind = "describe" /\ pending'[i].statement # None
                               => pending'[i].statement.id < nextStatementId
                        /\ pending'[i].kind = "execute" /\ pending'[i].statement # None
                               => pending'[i].statement < nextStatementId
      BY <1>2, <2>7, ZenonT(30) DEF ReferencesMinted
    <3>1. CASE i = 1
      <4>1. /\ pending'[i].kind = "execute" /\ pending'[i].statement = pending[i].statement
            /\ pending[i].kind = "execute"
        BY <2>1, <2>6, <2>7, <3>1
      <4> QED
        BY <4>1, ZenonT(30) DEF IInv, ReferencesMinted
    <3>2. CASE i # 1
      <4>1. pending'[i] = pending[i]
        BY <2>7, <3>2
      <4> QED
        BY <4>1, ZenonT(30) DEF IInv, ReferencesMinted
    <3> QED
      BY <3>1, <3>2, Zenon
  <2>11. DescriptionsFollowIncarnation'
    <3>1. \A s \in Parsed : statements[s].described # None
              => <<statements[s].id, statements[s].described>> \in answered'
      BY <2>5 DEF IInv, DescriptionsFollowIncarnation
    <3>2. ASSUME NEW i \in 1..Len(pending), pending'[i].kind = "execute",
                 pending'[i].positions # None
          PROVE  <<pending'[i].statement, pending'[i].positions>> \in answered'
      <4>1. CASE i = 1
        BY <2>5, <2>6, <2>7, <4>1
      <4>2. CASE i # 1
        <5>1. pending'[i] = pending[i]
          BY <2>7, <4>2
        <5>2. <<pending[i].statement, pending[i].positions>> \in answered
          BY <3>2, <5>1, ZenonT(30) DEF IInv, DescriptionsFollowIncarnation
        <5> QED
          BY <2>5, <5>1, <5>2
      <4> QED
        BY <4>1, <4>2
    <3> QED
      BY <1>2, <2>7, <3>1, <3>2, ZenonT(30) DEF DescriptionsFollowIncarnation, Parsed
  <2>12. DescribedExecutesFilled'
    <3> SUFFICES ASSUME NEW s \in Parsed, NEW i \in 1..Len(pending),
                        pending'[i].kind = "execute",
                        pending'[i].statement = statements[s].id,
                        statements[s].described # None
                 PROVE  pending'[i].positions # None
      BY <1>2, <2>7 DEF DescribedExecutesFilled, Parsed
    <3>1. CASE i = 1
      BY <2>6, <2>7, <3>1
    <3>2. CASE i # 1
      <4>1. pending'[i] = pending[i]
        BY <2>7, <3>2
      <4> QED
        BY <4>1 DEF IInv, DescribedExecutesFilled
    <3> QED
      BY <3>1, <3>2
  <2>13. ExecutesOrdered'
    BY <1>2, <2>1, <2>6, <2>7, ZenonT(30) DEF IInv, ExecutesOrdered
  <2> QED
    <3>1. IInv'
      BY <2>8, <2>9, <2>10, <2>11, <2>12, <2>13, Zenon DEF IInv
    <3> QED
      BY <2>1, <2>6, <2>7, <3>1, ZenonT(30)
<1> QED
  BY <1>3, <1>4

-----------------------------------------------------------------------------
(* An Execute keeps its rows while it is queued.                           *)

\* The statement of QueuedExecuteKeepsItsRows about one step.
RowsKept ==
    \A i \in 1..Len(pending), j \in 1..Len(pending') :
        KeepsItsRows(pending[i], pending'[j])

\* Ids tell queued Executes apart, so an entry that descends from one of this
\* queue's descends from the one with its id.
LEMMA DescentKeepsRows ==
    ASSUME IInv, \A j \in 1..Len(pending') : Descends(pending'[j])
    PROVE  RowsKept
<1> SUFFICES ASSUME NEW i \in 1..Len(pending), NEW j \in 1..Len(pending'),
                    pending[i].kind = "execute", pending'[j].kind = "execute",
                    pending[i].id = pending'[j].id
             PROVE  /\ pending'[j].statement = pending[i].statement
                    /\ pending'[j].formats = pending[i].formats
                    /\ pending[i].positions # None => pending'[j].positions # None
  BY ZenonT(30) DEF RowsKept, KeepsItsRows
<1>1. Len(pending) \in Nat /\ nextExecuteId \in Nat
  BY LenProperties, SMTT(30) DEF IInv, TypeOK, TrackerTypeOK
<1>2. \A k \in 1..Len(pending) : pending[k].kind = "execute"
          => pending[k].id \in Nat /\ pending[k].id < nextExecuteId
  BY QueueEntries, ZenonT(30) DEF IInv, ExecutesOrdered, ExecuteEntry
<1>3. pending'[j].id # nextExecuteId
  <2>1. pending[i].id \in Nat /\ pending[i].id < nextExecuteId
    BY <1>2
  <2> DEFINE m == pending[i].id
  <2>2. m \in Nat /\ m < nextExecuteId => m # nextExecuteId
    <3> HIDE DEF m
    <3> QED
      BY <1>1
  <2> QED
    BY <2>1, <2>2, ZenonT(30)
<1>4. PICK k \in 1..Len(pending) :
          /\ pending[k].kind = "execute"
          /\ pending[k].id = pending'[j].id
          /\ pending[k].statement = pending'[j].statement
          /\ pending[k].formats = pending'[j].formats
          /\ pending[k].positions # None => pending'[j].positions # None
  BY <1>3 DEF Descends
<1>5. k = i
  <2> DEFINE m == pending[i].id
  <2>3. pending[k].kind = "execute" /\ pending[k].id = m /\ m \in Nat
    BY <1>2, <1>4, ZenonT(30)
  <2>4. ~(m < m)
    BY <2>3
  <2> HIDE DEF m
  <2>1. ~(k < i)
    BY <2>3, <2>4, SMTT(30) DEF IInv, ExecutesOrdered, m
  <2>2. ~(i < k)
    BY <2>3, <2>4, SMTT(30) DEF IInv, ExecutesOrdered, m
  <2> QED
    BY <1>1, <2>1, <2>2, SMTT(30)
<1> QED
  BY <1>4, <1>5, ZenonT(30)

\* Entries that leave the queue change nothing about those that stay.
LEMMA ThinKeepsRows ==
    ASSUME IInv, Thinned(pending', pending)
    PROVE  RowsKept
<1>1. PICK f \in [1..Len(pending') -> 1..Len(pending)] :
          \A i \in 1..Len(pending') : pending'[i] = pending[f[i]]
  BY DEF Thinned
<1>2. \A j \in 1..Len(pending') : Descends(pending'[j])
  BY <1>1 DEF Descends
<1> QED
  BY <1>2, DescentKeepsRows

\* An entry that joins the queue is none of those already there.
LEMMA PushKeepsRows ==
    ASSUME IInv, NEW e, push(e), e.kind = "execute" => e.id = nextExecuteId
    PROVE  RowsKept
<1> DEFINE n == Len(pending)
<1>1. pending \in Seq(Pending) /\ n \in Nat
  BY LenProperties DEF IInv, TypeOK, TrackerTypeOK
<1>2. /\ Len(pending') = n + 1
      /\ \A i \in 1..n : pending'[i] = pending[i]
      /\ pending'[n + 1] = e
  BY <1>1 DEF push
<1>3. ASSUME NEW j \in 1..Len(pending')
      PROVE  Descends(pending'[j])
  <2>1. CASE j \in 1..n
    BY <1>2, <2>1 DEF Descends
  <2>2. CASE j = n + 1
    BY <1>2, <2>2 DEF Descends
  <2> QED
    BY <1>1, <1>2, <2>1, <2>2
<1> QED
  BY <1>3, DescentKeepsRows

-----------------------------------------------------------------------------
(* Every step, and the theorems.                                           *)

\* One step of either relay keeps the invariant and the rows in flight.
LEMMA NextKeeps ==
    ASSUME IInv, [Next]_vars
    PROVE  IInv' /\ RowsKept
<1>1. pending \in Seq(Pending) /\ Thinned(pending, pending)
  BY ThinSelf DEF IInv, TypeOK, TrackerTypeOK
<1>2. pending' = pending => RowsKept
  BY <1>1, ThinKeepsRows
<1>3. ASSUME NEW s \in StatementNames, NEW params \in Params, Parse(s, params)
      PROVE  IInv' /\ RowsKept
  BY <1>2, <1>3, ParseKeeps, ZenonT(60) DEF Parse, parse
<1>4. ASSUME NEW p \in PortalNames, NEW s \in StatementNames, NEW f \in Formats,
             Bind(p, s, f)
      PROVE  IInv' /\ RowsKept
  BY <1>2, <1>4, BindKeeps, ZenonT(60) DEF Bind, bind
<1>5. ASSUME NEW s \in StatementNames, CloseStatement(s)
      PROVE  IInv' /\ RowsKept
  BY <1>2, <1>5, CloseStatementKeeps, ZenonT(60) DEF CloseStatement, close_statement
<1>6. ASSUME NEW p \in PortalNames, ClosePortal(p)
      PROVE  IInv' /\ RowsKept
  BY <1>2, <1>6, ClosePortalKeeps, ZenonT(60) DEF ClosePortal, close_portal
<1>7. ASSUME NEW ref, push([kind |-> "describe", statement |-> ref])
      PROVE  RowsKept
  BY <1>7, PushKeepsRows
<1>8. ASSUME NEW s \in StatementNames, DescribeStatement(s)
      PROVE  IInv' /\ RowsKept
  <2>1. /\ StatementRefOf(s) \in StatementRef \cup {None}
        /\ StatementRefOf(s) # None => StatementRefOf(s).id < nextStatementId
    BY References, ZenonT(30)
  <2>2. /\ PushFits
        /\ push([kind |-> "describe", statement |-> StatementRefOf(s)])
        /\ UNCHANGED <<statements, portals, nextStatementId, nextExecuteId, copyIn,
                       answered>>
    BY <1>8, SMTT(30) DEF DescribeStatement, expect_describe_statement
  <2> QED
    BY <1>7, <2>1, <2>2, DescribeKeeps, ZenonT(30)
<1>9. ASSUME NEW p \in PortalNames, DescribePortal(p)
      PROVE  IInv' /\ RowsKept
  <2>1. /\ PortalRefOf(p) \in StatementRef \cup {None}
        /\ PortalRefOf(p) # None => PortalRefOf(p).id < nextStatementId
    BY References, ZenonT(30)
  <2>2. /\ PushFits
        /\ push([kind |-> "describe", statement |-> PortalRefOf(p)])
        /\ UNCHANGED <<statements, portals, nextStatementId, nextExecuteId, copyIn,
                       answered>>
    BY <1>9, SMTT(30) DEF DescribePortal, expect_describe_portal
  <2> QED
    BY <1>7, <2>1, <2>2, DescribeKeeps, ZenonT(30)
<1>10. ASSUME NEW p \in PortalNames, Execute(p)
       PROVE  IInv' /\ RowsKept
  <2>1. push(ExecuteOf(p)) /\ ExecuteOf(p).id = nextExecuteId
    BY <1>10, Zenon DEF Execute, expect_execute, ExecuteOf
  <2> QED
    BY <1>10, <2>1, ExecuteKeeps, PushKeepsRows, SMTT(30)
<1>11. CASE Sync
  <2>1. push([kind |-> "batch"])
    BY <1>11, SMTT(30) DEF Sync, expect_batch
  <2> QED
    BY <1>11, <2>1, SyncKeeps, PushKeepsRows
<1>12. CASE CopyInResponse
  BY <1>2, <1>12, CopyInResponseKeeps DEF CopyInResponse, copy_in_started
<1>13. ASSUME NEW last \in BOOLEAN, CopyFrame(last)
       PROVE  IInv' /\ RowsKept
  BY <1>13, CopyFrameKeeps, ThinKeepsRows
<1>14. ASSUME NEW positions \in Positions, describe_answered(positions),
              answered' = IF AnsweredRef = None THEN answered
                          ELSE answered \cup {<<AnsweredRef.id, positions>>}
       PROVE  IInv' /\ RowsKept
  <2>1. CASE AnsweredRef = None
    BY <1>14, <2>1, UnaskedDescriptionKeeps, ThinKeepsRows
  <2>2. CASE AnsweredRef # None
    BY <1>14, <2>2, DescribeAnsweredKeeps, DescentKeepsRows
  <2> QED
    BY <2>1, <2>2
<1>15. ASSUME NEW positions \in Positions, RowDescription(positions)
       PROVE  IInv' /\ RowsKept
  BY <1>14, <1>15 DEF RowDescription
<1>16. CASE NoData
  BY <1>14, <1>16, ValuesAssumption DEF NoData, no_data
<1>17. ASSUME NEW positions \in Positions, Rederive(positions)
       PROVE  IInv' /\ RowsKept
  <2>1. IInv'
    BY <1>17, RederiveKeeps
  <2>2. CASE pending' # pending
    <3>1. ASSUME NEW j \in 1..Len(pending')
          PROVE  Descends(pending'[j])
      <4>1. /\ 1 \in 1..Len(pending) /\ j \in 1..Len(pending)
            /\ pending[1].kind = "execute"
            /\ pending'[1].id = pending[1].id
            /\ pending'[1].statement = pending[1].statement
            /\ pending'[1].formats = pending[1].formats
            /\ pending'[1].positions # None
            /\ j # 1 => pending'[j] = pending[j]
        BY <1>17, <2>2, RederiveKeeps, ZenonT(30)
      <4>2. CASE j = 1
        BY <4>1, <4>2, ZenonT(30) DEF Descends
      <4>3. CASE j # 1
        BY <4>1, <4>3, ZenonT(30) DEF Descends
      <4> QED
        BY <4>2, <4>3
    <3> QED
      BY <2>1, <3>1, DescentKeepsRows, SMTT(30)
  <2> QED
    BY <1>2, <2>1, <2>2
<1>18. CASE CommandComplete
  BY <1>18, CommandCompleteKeeps, ThinKeepsRows
<1>19. CASE ReadyForQuery
  BY <1>19, ReadyForQueryKeeps, ThinKeepsRows
<1>20. CASE UNCHANGED vars
  <2>1. /\ pending' = pending
        /\ UNCHANGED <<statements, portals, nextStatementId, nextExecuteId, answered>>
        /\ copyIn' \in CopyIn
    BY <1>20 DEF vars, trackerVars, IInv, TypeOK, TrackerTypeOK
  <2>2. Len(pending) \in Nat
    BY <1>1, LenProperties
  <2> QED
    BY <1>1, <1>2, <2>1, <2>2, ThinKeeps
<1> QED
  BY <1>3, <1>4, <1>5, <1>6, <1>8, <1>9, <1>10, <1>11, <1>12, <1>13, <1>15, <1>16,
     <1>17, <1>18, <1>19, <1>20 DEF Next

\* Whatever the client sends and the server answers, the tracker's invariant
\* holds after every call of either relay.
THEOREM TrackerInvariant == Spec => []IInv
<1>1. Init => IInv
  BY InitIInv
<1>2. IInv /\ [Next]_vars => IInv'
  BY NextKeeps
<1> QED
  BY <1>1, <1>2, PTL DEF Spec

\* The state of the tracker is always well typed: in particular every queued
\* entry is one of the three kinds with all of its fields.
THEOREM TypeCorrect == Spec => []TypeOK
<1>1. IInv => TypeOK
  BY DEF IInv
<1> QED
  BY <1>1, TrackerInvariant, PTL

\* No cap of portal.rs is ever exceeded.
THEOREM LimitsHold == Spec => []WithinLimits
<1>1. IInv => WithinLimits
  BY DEF IInv
<1> QED
  BY <1>1, TrackerInvariant, PTL

\* A description reaches the incarnation it answers and no other, whatever
\* is closed, re-parsed or re-bound meanwhile.
THEOREM DescriptionsStayWithIncarnation == Spec => []DescriptionsFollowIncarnation
<1>1. IInv => DescriptionsFollowIncarnation
  BY DEF IInv
<1> QED
  BY <1>1, TrackerInvariant, PTL

\* No Execute of a described statement waits in the queue undescribed.
THEOREM ExecutesAreFilled == Spec => []DescribedExecutesFilled
<1>1. IInv => DescribedExecutesFilled
  BY DEF IInv
<1> QED
  BY <1>1, TrackerInvariant, PTL

\* Queued Executes stand in sending order with distinct ids.
THEOREM ExecutesStayOrdered == Spec => []ExecutesOrdered
<1>1. IInv => ExecutesOrdered
  BY DEF IInv
<1> QED
  BY <1>1, TrackerInvariant, PTL

\* No two statement names ever share an incarnation.
THEOREM IncarnationsStayDistinct == Spec => []IncarnationsDistinct
<1>1. IInv => IncarnationsDistinct
  BY DEF IInv
<1> QED
  BY <1>1, TrackerInvariant, PTL

\* Every id the queue remembers is one that parse has minted.
THEOREM ReferencesStayMinted == Spec => []ReferencesMinted
<1>1. IInv => ReferencesMinted
  BY DEF IInv
<1> QED
  BY <1>1, TrackerInvariant, PTL

\* No call of either relay changes the statement or the formats of an Execute
\* that stays queued, or takes its description away.
THEOREM InFlightExecutesKeepTheirRows == Spec => QueuedExecuteKeepsItsRows
<1>1. IInv /\ [Next]_vars => [RowsKept]_vars
  BY NextKeeps
<1>2. [RowsKept]_vars <=> [\A i \in 1..Len(pending), j \in 1..Len(pending') :
                              KeepsItsRows(pending[i], pending'[j])]_vars
  BY DEF RowsKept
<1> QED
  BY <1>1, <1>2, TrackerInvariant, PTL DEF Spec, QueuedExecuteKeepsItsRows

=============================================================================
