--------------------------- MODULE ColumnsProofs ---------------------------
(***************************************************************************)
(* Proofs about the column map and its refresh: generations can be compared*)
(* in place of maps, for any number of columns, sessions and migrations.   *)
(***************************************************************************)
EXTENDS Columns, TLAPS

\* What a session and the refresher rely on together.
IInv == TypeOK /\ GenerationsOrdered /\ StampsTrue

\* A description taken from a map is well typed, stamped with the map's
\* generation, and covers it.
LEMMA NewDescribedCovers ==
    ASSUME NEW fields \in SUBSET Field, NEW map \in Resolved
    PROVE  LET d == NewDescribed(fields, map)
           IN  /\ d \in Described
               /\ d.generation = map.generation
               /\ Covers(d, map)
BY DEF NewDescribed, Described, Resolved, protected, Covers, Field

\* So is one derived again, and it keeps what it covered.
LEMMA RederivedCovers ==
    ASSUME NEW d \in Described, NEW map \in Resolved
    PROVE  /\ rederived(d, map) \in Described
           /\ rederived(d, map).generation = map.generation
           /\ Covers(rederived(d, map), map)
           /\ d.columns \subseteq rederived(d, map).columns
BY Zenon DEF rederived, Described, Resolved, protected, Covers, Field

\* The fields of a result set are fields.
LEMMA FieldsNowAreFields == TypeOK => FieldsNow \subseteq Field
BY DEF TypeOK, FieldsNow, Field

LEMMA InitInv == Init => IInv
<1> SUFFICES ASSUME Init PROVE IInv
  OBVIOUS
<1> USE ColumnsAssumption DEF Init
<1>1. \A c \in Column : PlaceAt(c, 0) \in Place
  BY DEF PlaceAt, Place, Column
<1>2. resolved \in Resolved
  BY <1>1 DEF Resolved
<1>3. refresher \in [at : {"waiting", "looking", "found", "swapped", "stopped"},
                    next : 1..NumColumns + 1, found : SUBSET Place]
  BY DEF Waiting
<1>4. TypeOK
  <2>1. /\ catalog \in [Column -> Place \cup {None}]
        /\ moved \in [Column -> 0..MaxMoves]
        /\ generation \in Nat
        /\ cached \in [Sessions -> Described \cup {None}]
        /\ executing \in [Sessions -> Described \cup {None}]
        /\ compared \in [Sessions -> Nat \cup {None}]
        /\ published \in SUBSET Resolved
    BY <1>1, <1>2
  <2>2. /\ permit \in BOOLEAN
        /\ shutdown \in BOOLEAN
        /\ setting \in [timer : BOOLEAN, reject : BOOLEAN]
    BY Zenon
  <2> QED
    BY <1>2, <1>3, <2>1, <2>2, Zenon DEF TypeOK
<1>5. GenerationsOrdered
  BY <1>2 DEF GenerationsOrdered, Resolved
<1>6. StampsTrue
  BY DEF StampsTrue
<1> QED
  BY <1>4, <1>5, <1>6 DEF IInv

\* A step that leaves the sessions and the published maps alone.
LEMMA SessionsAlone ==
    ASSUME IInv, TypeOK', UNCHANGED <<resolved, published, sessionVars>>,
           generation' = generation \/ generation' = resolved.generation
    PROVE  IInv'
<1>1. UNCHANGED <<cached, executing, compared>>
  BY DEF sessionVars
<1>2. GenerationsOrdered'
  BY <1>1 DEF IInv, GenerationsOrdered, TypeOK, Resolved
<1>3. StampsTrue'
  BY <1>1 DEF IInv, StampsTrue, Covers
<1> QED
  BY <1>2, <1>3 DEF IInv

\* A step of one session that sets its descriptions to ones that cover the
\* map they are stamped with.
LEMMA OneSession ==
    ASSUME IInv, TypeOK', UNCHANGED <<resolved, published, generation>>,
           NEW s \in Sessions,
           \A t \in Sessions \ {s} : /\ cached'[t] = cached[t]
                                     /\ executing'[t] = executing[t]
                                     /\ compared'[t] = compared[t],
           \/ cached'[s] = cached[s]
           \/ cached'[s] = None
           \/ /\ cached'[s].generation = resolved.generation
              /\ Covers(cached'[s], resolved),
           \/ executing'[s] = executing[s]
           \/ executing'[s] = cached[s]
           \/ executing'[s] = None
           \/ /\ executing'[s].generation = resolved.generation
              /\ Covers(executing'[s], resolved),
           compared'[s] # None => /\ compared'[s] <= resolved.generation
                                  /\ executing'[s] # None
    PROVE  IInv'
<1>1. resolved.generation \in Nat
  BY DEF IInv, TypeOK, Resolved
<1>2. GenerationsOrdered'
  <2>1. ASSUME NEW t \in Sessions
        PROVE  /\ cached'[t] # None => cached'[t].generation <= resolved.generation
               /\ executing'[t] # None => executing'[t].generation <= resolved.generation
               /\ compared'[t] # None => /\ compared'[t] <= resolved.generation
                                        /\ executing'[t] # None
    <3>1. CASE t = s
      BY <1>1, <3>1 DEF IInv, GenerationsOrdered
    <3>2. CASE t # s
      BY <3>2 DEF IInv, GenerationsOrdered
    <3> QED
      BY <3>1, <3>2
  <2> QED
    BY <2>1 DEF IInv, GenerationsOrdered
<1>3. StampsTrue'
  <2> SUFFICES ASSUME NEW t \in Sessions, NEW r \in published
               PROVE  /\ cached'[t] # None /\ cached'[t].generation = r.generation
                             => Covers(cached'[t], r)
                      /\ executing'[t] # None /\ executing'[t].generation = r.generation
                             => Covers(executing'[t], r)
    BY DEF StampsTrue, Covers
  <2>1. r.generation = resolved.generation => r = resolved
    BY DEF IInv, GenerationsOrdered
  <2>2. /\ cached[t] # None /\ cached[t].generation = r.generation
               => Covers(cached[t], r)
        /\ executing[t] # None /\ executing[t].generation = r.generation
               => Covers(executing[t], r)
    BY DEF IInv, StampsTrue
  <2>3. CASE t = s
    BY <2>1, <2>2, <2>3
  <2>4. CASE t # s
    BY <2>2, <2>4
  <2> QED
    BY <2>3, <2>4
<1> QED
  BY <1>2, <1>3 DEF IInv

\* Every step keeps the types: a description that is derived again is there,
\* because a session compares only while it answers an Execute.
LEMMA NextTypeOK == IInv /\ [Next]_vars => TypeOK'
<1> SUFFICES ASSUME IInv, [Next]_vars PROVE TypeOK'
  OBVIOUS
<1>0. TypeOK
  BY DEF IInv
<1> USE ColumnsAssumption
<1> DEFINE RefresherType ==
        [at : {"waiting", "looking", "found", "swapped", "stopped"},
         next : 1..NumColumns + 1, found : SUBSET Place]
<1>1. ASSUME NEW c \in Column, Move(c) PROVE TypeOK'
  <2>1. PlaceAt(c, moved[c] + 1) \in Place /\ moved[c] + 1 \in 0..MaxMoves
    BY <1>0, <1>1 DEF Move, TypeOK, PlaceAt, Place
  <2>2. /\ catalog' \in [Column -> Place \cup {None}]
        /\ moved' \in [Column -> 0..MaxMoves]
    BY <1>0, <1>1, <2>1 DEF Move, TypeOK
  <2> QED
    BY <1>0, <1>1, <2>2, Zenon DEF Move, TypeOK, sessionVars
<1>2. ASSUME NEW c \in Column, Drop(c) PROVE TypeOK'
  <2>1. catalog' \in [Column -> Place \cup {None}]
    BY <1>0, <1>2 DEF Drop, TypeOK
  <2> QED
    BY <1>0, <1>2, <2>1, Zenon DEF Drop, TypeOK, sessionVars
<1>3. ASSUME Tick PROVE TypeOK'
  <2>1. refresher' \in RefresherType
    BY <1>3 DEF Tick, StartResolving, Waiting
  <2> QED
    BY <1>0, <1>3, <2>1, Zenon DEF Tick, StartResolving, refresherOnly, TypeOK, sessionVars
<1>4. ASSUME Woken PROVE TypeOK'
  <2>1. refresher' \in RefresherType
    BY <1>4 DEF Woken, StartResolving, Waiting
  <2> QED
    BY <1>0, <1>4, <2>1, Zenon DEF Woken, StartResolving, refresherOnly, TypeOK, sessionVars
<1>5. ASSUME Stop PROVE TypeOK'
  <2>1. refresher' \in RefresherType
    BY <1>0, <1>5 DEF Stop, TypeOK
  <2> QED
    BY <1>0, <1>5, <2>1, Zenon DEF Stop, refresherOnly, TypeOK, sessionVars
<1>6. ASSUME NEW c \in Column, LookUp(c) PROVE TypeOK'
  <2>1. read_column(c, catalog[c]) \subseteq Place
    BY <1>0, <1>6 DEF LookUp, TypeOK, read_column
  <2>2. c + 1 \in 1..NumColumns + 1
    BY DEF Column
  <2>3. refresher' \in RefresherType
    BY <1>0, <1>6, <2>1, <2>2 DEF LookUp, TypeOK
  <2> QED
    BY <1>0, <1>6, <2>3, Zenon DEF LookUp, refresherOnly, TypeOK, sessionVars
<1>7. ASSUME Fail PROVE TypeOK'
  <2>1. refresher' \in RefresherType
    BY <1>7 DEF Fail, Waiting
  <2> QED
    BY <1>0, <1>7, <2>1, Zenon DEF Fail, refresherOnly, TypeOK, sessionVars
<1>8. ASSUME SwapResolved PROVE TypeOK'
  <2>1. refresher' \in RefresherType
    BY <1>0, <1>8 DEF SwapResolved, TypeOK
  <2>2. NextResolved \in Resolved
    BY <1>0 DEF NextResolved, Resolved, TypeOK
  <2>3. resolved' \in Resolved /\ published' \in SUBSET Resolved
    BY <1>0, <1>8, <2>2 DEF SwapResolved, TypeOK
  <2> QED
    BY <1>0, <1>8, <2>1, <2>3, Zenon DEF SwapResolved, refresherOnly, TypeOK, sessionVars
<1>9. ASSUME StoreGeneration PROVE TypeOK'
  <2>1. refresher' \in RefresherType /\ generation' \in Nat
    BY <1>0, <1>9 DEF StoreGeneration, Waiting, TypeOK, Resolved
  <2> QED
    BY <1>0, <1>9, <2>1, Zenon DEF StoreGeneration, refresherOnly, TypeOK, sessionVars
<1>10. ASSUME NEW s \in Sessions, NEW fields \in SUBSET FieldsNow,
              RowDescription(s, fields)
       PROVE  TypeOK'
  <2>1. NewDescribed(fields, resolved) \in Described
    BY <1>0, NewDescribedCovers, FieldsNowAreFields DEF TypeOK
  <2>2. cached' \in [Sessions -> Described \cup {None}]
    BY <1>0, <1>10, <2>1 DEF RowDescription, TypeOK
  <2>3. permit' \in BOOLEAN
    BY <1>0, <1>10, Zenon DEF RowDescription, request_refresh, TypeOK
  <2> QED
    BY <1>0, <1>10, <2>2, <2>3, Zenon DEF RowDescription, sessionOnly, TypeOK
<1>11. ASSUME NEW s \in Sessions, Execute(s) PROVE TypeOK'
  <2>1. executing' \in [Sessions -> Described \cup {None}]
    BY <1>0, <1>11 DEF Execute, TypeOK
  <2> QED
    BY <1>0, <1>11, <2>1, Zenon DEF Execute, sessionOnly, TypeOK
<1>12. ASSUME NEW s \in Sessions, ReadCurrentRow(s) PROVE TypeOK'
  BY <1>0, <1>12, Zenon DEF ReadCurrentRow, sessionOnly, TypeOK
<1>13. ASSUME NEW s \in Sessions, CompareGeneration(s) PROVE TypeOK'
  <2>1. compared' \in [Sessions -> Nat \cup {None}]
    BY <1>0, <1>13 DEF CompareGeneration, TypeOK
  <2> QED
    BY <1>0, <1>13, <2>1, Zenon DEF CompareGeneration, sessionOnly, TypeOK
<1>14. ASSUME NEW s \in Sessions, ReadRederivedRow(s) PROVE TypeOK'
  <2>0. executing[s] # None
    BY <1>14 DEF ReadRederivedRow, IInv, GenerationsOrdered
  <2>1. rederived(executing[s], resolved) \in Described
    BY <1>0, <2>0, RederivedCovers DEF TypeOK
  <2>2. /\ executing' \in [Sessions -> Described \cup {None}]
        /\ compared' \in [Sessions -> Nat \cup {None}]
    BY <1>0, <1>14, <2>1 DEF ReadRederivedRow, TypeOK
  <2> QED
    BY <1>0, <1>14, <2>2, Zenon DEF ReadRederivedRow, sessionOnly, TypeOK
<1>15. ASSUME NEW s \in Sessions, CommandComplete(s) PROVE TypeOK'
  <2>1. executing' \in [Sessions -> Described \cup {None}]
    BY <1>0, <1>15 DEF CommandComplete, TypeOK
  <2> QED
    BY <1>0, <1>15, <2>1, Zenon DEF CommandComplete, sessionOnly, TypeOK
<1>16. ASSUME Shutdown PROVE TypeOK'
  BY <1>0, <1>16, Zenon DEF Shutdown, sessionVars, TypeOK
<1>17. ASSUME UNCHANGED vars PROVE TypeOK'
  BY <1>0, <1>17, Zenon DEF vars, sessionVars, TypeOK
<1> QED
  BY <1>1, <1>2, <1>3, <1>4, <1>5, <1>6, <1>7, <1>8, <1>9, <1>10, <1>11, <1>12,
     <1>13, <1>14, <1>15, <1>16, <1>17, Zenon DEF Next, Refresher, Session

\* Every step keeps the invariant.
LEMMA NextInv == IInv /\ [Next]_vars => IInv'
<1> SUFFICES ASSUME IInv, [Next]_vars PROVE IInv'
  OBVIOUS
<1>1. TypeOK /\ TypeOK'
  BY NextTypeOK DEF IInv
<1>2. CASE \/ \E c \in Column : Move(c) \/ Drop(c) \/ LookUp(c)
           \/ Tick \/ Woken \/ Stop \/ Fail \/ Shutdown \/ UNCHANGED vars
  <2>1. UNCHANGED <<resolved, published, sessionVars, generation>>
    BY <1>2, Zenon DEF Move, Drop, LookUp, Tick, Woken, Stop, Fail, Shutdown,
       StartResolving, refresherOnly, vars
  <2> QED
    BY <1>1, <2>1, SessionsAlone
<1>3. CASE StoreGeneration
  BY <1>1, <1>3, SessionsAlone DEF StoreGeneration, refresherOnly
<1>4. CASE SwapResolved
  <2>1. UNCHANGED <<cached, executing, compared, generation>>
    BY <1>4, Zenon DEF SwapResolved, refresherOnly, sessionVars
  <2>2. /\ resolved' = NextResolved
        /\ published' = published \cup {NextResolved}
        /\ resolved'.generation = resolved.generation + 1
        /\ resolved.generation \in Nat
    BY <1>1, <1>4 DEF SwapResolved, NextResolved, TypeOK, Resolved
  <2>3. /\ generation \in Nat
        /\ \A r \in published : r.generation \in Nat
        /\ \A s \in Sessions : /\ cached[s] # None => cached[s].generation \in Nat
                               /\ executing[s] # None => executing[s].generation \in Nat
                               /\ compared[s] # None => compared[s] \in Nat
    BY <1>1 DEF TypeOK, Resolved, Described
  <2>4. GenerationsOrdered'
    BY <2>1, <2>2, <2>3 DEF IInv, GenerationsOrdered
  <2>5. StampsTrue'
    <3> SUFFICES ASSUME NEW s \in Sessions, NEW r \in published'
                 PROVE  /\ cached[s] # None /\ cached[s].generation = r.generation
                               => Covers(cached[s], r)
                        /\ executing[s] # None /\ executing[s].generation = r.generation
                               => Covers(executing[s], r)
      BY <2>1 DEF StampsTrue, Covers
    <3>1. CASE r \in published
      BY <3>1 DEF IInv, StampsTrue
    <3>2. CASE r = NextResolved
      BY <2>2, <2>3, <3>2 DEF IInv, GenerationsOrdered
    <3> QED
      BY <2>2, <3>1, <3>2
  <2> QED
    BY <1>1, <2>4, <2>5 DEF IInv
<1>5. ASSUME NEW s \in Sessions, NEW fields \in SUBSET FieldsNow,
             RowDescription(s, fields)
      PROVE  IInv'
  <2>1. /\ NewDescribed(fields, resolved).generation = resolved.generation
        /\ Covers(NewDescribed(fields, resolved), resolved)
    BY <1>1, NewDescribedCovers, FieldsNowAreFields DEF TypeOK
  <2>2. /\ \A t \in Sessions \ {s} : cached'[t] = cached[t]
        /\ cached'[s] = None \/ cached'[s] = NewDescribed(fields, resolved)
        /\ executing' = executing /\ compared' = compared
    BY <1>1, <1>5 DEF RowDescription, TypeOK
  <2>3. UNCHANGED <<resolved, published, generation>>
    BY <1>5 DEF RowDescription, sessionOnly
  <2>4. compared[s] # None => compared[s] <= resolved.generation /\ executing[s] # None
    BY DEF IInv, GenerationsOrdered
  <2> QED
    BY <1>1, <2>1, <2>2, <2>3, <2>4, OneSession
<1>6. ASSUME NEW s \in Sessions, Execute(s) \/ CommandComplete(s) PROVE IInv'
  <2>1. /\ cached' = cached /\ compared' = compared
        /\ \A t \in Sessions \ {s} : executing'[t] = executing[t]
        /\ executing'[s] = cached[s] \/ executing'[s] = None
        /\ UNCHANGED <<resolved, published, generation>>
    BY <1>1, <1>6 DEF Execute, CommandComplete, sessionOnly, TypeOK
  <2>2. compared[s] = None
    BY <1>6 DEF Execute, CommandComplete, IInv, GenerationsOrdered
  <2> QED
    BY <1>1, <2>1, <2>2, OneSession
<1>7. ASSUME NEW s \in Sessions, ReadCurrentRow(s) PROVE IInv'
  <2>1. UNCHANGED <<resolved, published, sessionVars, generation>>
    BY <1>7 DEF ReadCurrentRow, sessionOnly, sessionVars
  <2> QED
    BY <1>1, <2>1, SessionsAlone
<1>8. ASSUME NEW s \in Sessions, CompareGeneration(s) PROVE IInv'
  <2>1. /\ cached' = cached /\ executing' = executing /\ executing[s] # None
        /\ \A t \in Sessions \ {s} : compared'[t] = compared[t]
        /\ compared'[s] = generation
        /\ UNCHANGED <<resolved, published, generation>>
    BY <1>1, <1>8 DEF CompareGeneration, sessionOnly, TypeOK
  <2>2. generation <= resolved.generation
    BY DEF IInv, GenerationsOrdered
  <2> QED
    BY <1>1, <2>1, <2>2, OneSession
<1>9. ASSUME NEW s \in Sessions, ReadRederivedRow(s) PROVE IInv'
  <2>1. executing[s] \in Described /\ resolved \in Resolved
    BY <1>1, <1>9 DEF ReadRederivedRow, IInv, GenerationsOrdered, TypeOK
  <2>2. /\ rederived(executing[s], resolved).generation = resolved.generation
        /\ Covers(rederived(executing[s], resolved), resolved)
    BY <2>1, RederivedCovers
  <2>3. /\ cached' = cached
        /\ \A t \in Sessions \ {s} : /\ executing'[t] = executing[t]
                                      /\ compared'[t] = compared[t]
        /\ executing'[s] = rederived(executing[s], resolved)
        /\ compared'[s] = None
        /\ UNCHANGED <<resolved, published, generation>>
    BY <1>1, <1>9 DEF ReadRederivedRow, sessionOnly, TypeOK
  <2> QED
    BY <1>1, <2>2, <2>3, OneSession
<1> QED
  BY <1>2, <1>3, <1>4, <1>5, <1>6, <1>7, <1>8, <1>9, Zenon DEF Next, Refresher, Session

\* The invariant holds in every reachable state.
THEOREM MapInvariant == Spec => []IInv
<1>1. Init => IInv
  BY InitInv
<1>2. IInv /\ [Next]_vars => IInv'
  BY NextInv
<1> QED
  BY <1>1, <1>2, PTL DEF Spec

\* publish and current (rows.rs): the atomic is never ahead of the map, and a
\* generation names one map, whatever the interleaving.
THEOREM GenerationsStayOrdered == Spec => []GenerationsOrdered
<1>1. IInv => GenerationsOrdered
  BY DEF IInv
<1> QED
  BY <1>1, MapInvariant, PTL

\* Described::new and Described::rederived: a stamped generation is true, so
\* equal generations mean that nothing the map covers is left unprotected.
THEOREM StampsStayTrue == Spec => []StampsTrue
<1>1. IInv => StampsTrue
  BY DEF IInv
<1> QED
  BY <1>1, MapInvariant, PTL

\* RowDecryptor::current: a row is read with all that a resolution covers
\* which is at least as new as the one announced when it was inspected.
THEOREM PublishedIsHonoured == Spec => []RowsHonourAnnounced
<1>1. IInv => RowsHonourAnnounced
  <2> SUFFICES ASSUME IInv, NEW s \in Sessions, executing[s] # None
               PROVE  /\ compared[s] = None /\ IsCurrent(executing[s]) =>
                             \E r \in published : /\ r.generation >= generation
                                                  /\ Covers(executing[s], r)
                      /\ compared[s] # None =>
                             \E r \in published :
                                 /\ r.generation >= compared[s]
                                 /\ Covers(rederived(executing[s], resolved), r)
    BY DEF RowsHonourAnnounced
  <2>1. CASE compared[s] = None /\ IsCurrent(executing[s])
    <3>1. PICK r \in published : r.generation = generation
      BY DEF IInv, GenerationsOrdered
    <3>2. Covers(executing[s], r)
      BY <2>1, <3>1 DEF IsCurrent, IInv, StampsTrue
    <3>3. generation \in Nat
      BY DEF IInv, TypeOK
    <3> QED
      BY <2>1, <3>1, <3>2, <3>3
  <2>2. CASE compared[s] # None
    <3>1. resolved \in published /\ resolved.generation >= compared[s]
      <4>1. compared[s] \in Nat /\ resolved.generation \in Nat
        BY <2>2 DEF IInv, TypeOK, Resolved
      <4> QED
        BY <2>2, <4>1 DEF IInv, GenerationsOrdered
    <3>2. Covers(rederived(executing[s], resolved), resolved)
      BY RederivedCovers DEF IInv, TypeOK
    <3> QED
      BY <2>2, <3>1, <3>2
  <2> QED
    BY <2>1, <2>2
<1> QED
  BY <1>1, MapInvariant, PTL

\* The map, the refresher and the sessions keep their types.
THEOREM MapTypes == Spec => []TypeOK
<1>1. IInv => TypeOK
  BY DEF IInv
<1> QED
  BY <1>1, MapInvariant, PTL

\* Described::rederived: while one Execute is answered, no row of it is opened
\* with less than an earlier one.
THEOREM ExecutesOnlyGrow == Spec => GrowsWithinExecute
<1> DEFINE Grows == \A s \in Sessions : executing[s] # None /\ executing'[s] # None
                       => executing[s].columns \subseteq executing'[s].columns
<1>1. IInv /\ [Next]_vars => [Grows]_vars
  <2> SUFFICES ASSUME IInv, Next PROVE Grows
    OBVIOUS
  <2>1. CASE \E s \in Sessions : Execute(s) \/ CommandComplete(s)
    BY <2>1 DEF Execute, CommandComplete, IInv, TypeOK
  <2>2. CASE \E s \in Sessions : ReadRederivedRow(s)
    <3>1. PICK s \in Sessions : ReadRederivedRow(s)
      BY <2>2
    <3>2. executing[s] \in Described /\ resolved \in Resolved
      BY <3>1 DEF ReadRederivedRow, IInv, GenerationsOrdered, TypeOK
    <3>3. executing[s].columns \subseteq rederived(executing[s], resolved).columns
      BY <3>2, RederivedCovers
    <3> QED
      BY <3>1, <3>3 DEF ReadRederivedRow, IInv, TypeOK
  <2>3. CASE executing' = executing
    BY <2>3
  <2>4. \/ \E s \in Sessions : Execute(s) \/ CommandComplete(s)
        \/ \E s \in Sessions : ReadRederivedRow(s)
        \/ executing' = executing
    BY Zenon DEF Next, Refresher, Session, Move, Drop, Tick, Woken, Stop, LookUp, Fail,
       SwapResolved, StoreGeneration, StartResolving, refresherOnly, sessionVars,
       RowDescription, ReadCurrentRow, CompareGeneration, Shutdown
  <2> QED
    BY <2>1, <2>2, <2>3, <2>4
<1> QED
  BY <1>1, MapInvariant, PTL DEF Spec, GrowsWithinExecute

=============================================================================
