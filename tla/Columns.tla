------------------------------ MODULE Columns ------------------------------
(***************************************************************************)
(* The column map and its refresh: RowContext and Described of             *)
(* crates/proxy/src/rows.rs, refresh_loop and resolve_columns of           *)
(* resolve.rs, and the sessions that read rows of cached statements.       *)
(*                                                                         *)
(* The read path knows a protected column by its place, (table oid,        *)
(* attnum), which a migration changes.  The refresher looks every column   *)
(* up again, one query at a time, and publishes the new map in two steps:  *)
(* the map under its lock, then the generation in an atomic.  A session    *)
(* compares the atomic with the generation of the description it cached,   *)
(* and reads the map when they differ, also in two steps.                  *)
(*                                                                         *)
(* A declared row key is looked up like a column that is not readable.     *)
(***************************************************************************)
EXTENDS Naturals, FiniteSets

CONSTANTS
    NumColumns,     \* the configured columns, in the order they are looked up
    Readable,       \* those the read path opens or masks
    Lookalikes,     \* those whose name other result columns have too
    Sessions,
    MaxMoves,       \* bound on the places one column has over time
    MaxGeneration,  \* bound on the resolutions published
    MaxFields,      \* bound on the fields of a result set
    None

Column == 1..NumColumns

ASSUME ColumnsAssumption ==
    /\ NumColumns \in Nat
    /\ Readable \subseteq Column
    /\ Lookalikes \subseteq Column
    /\ MaxMoves \in Nat
    /\ MaxGeneration \in Nat
    /\ MaxFields \in Nat

\* PostgreSQL never uses a place again.
Place == [column : Column, at : 0..MaxMoves]

\* What a field of a RowDescription may be besides: the column of that name of
\* an unrelated table, or a computed one of that name, which has no table.
UnrelatedTable == MaxMoves + 1
NoTable == MaxMoves + 2
OtherField == [column : Lookalikes, at : {UnrelatedTable, NoTable}]
Field == Place \cup OtherField

Resolved == [places : SUBSET Place, generation : Nat]
Described == [fields : SUBSET Field, columns : SUBSET Field, generation : Nat]

ASSUME NoneAssumption == None \notin Described /\ None \notin Nat /\ None \notin Place

VARIABLES
    catalog,        \* where the database has each column now, or None
    moved,          \* how often each column was recreated
    resolved,       \* RowContext::resolved
    generation,     \* RowContext::generation
    permit,         \* the permit of RowContext::refresh, a tokio Notify
    refresher,      \* where refresh_loop is, and what it has found
    cached,         \* the description a session keeps for its statement
    executing,      \* that of the Execute being answered, or None
    compared,       \* the generation current() found changed, or None
    shutdown,       \* the shutdown signal was sent
    setting,        \* the configuration
    published       \* history: the resolutions published so far

sessionVars == <<cached, executing, compared>>
vars == <<catalog, moved, resolved, generation, permit, refresher, sessionVars,
          shutdown, setting, published>>

PlaceAt(c, n) == [column |-> c, at |-> n]

\* What resolve_columns keeps of a lookup.
read_column(c, place) == IF c \in Readable THEN {place} ELSE {}

Waiting == [at |-> "waiting", next |-> 1, found |-> {}]

\* timer: the interval is not zero; reject: on_unprotected.
Init ==
    /\ catalog = [c \in Column |-> PlaceAt(c, 0)]
    /\ moved = [c \in Column |-> 0]
    /\ resolved = [places |-> {PlaceAt(c, 0) : c \in Readable}, generation |-> 0]
    /\ generation = 0
    /\ permit = FALSE
    /\ refresher = Waiting
    /\ cached = [s \in Sessions |-> None]
    /\ executing = [s \in Sessions |-> None]
    /\ compared = [s \in Sessions |-> None]
    /\ shutdown = FALSE
    /\ setting \in [timer : BOOLEAN, reject : BOOLEAN]
    /\ published = {resolved}

-----------------------------------------------------------------------------
(* The database.                                                           *)

\* DROP and CREATE of the table, or of the column, in one transaction.
Move(c) ==
    /\ moved[c] < MaxMoves
    /\ moved' = [moved EXCEPT ![c] = @ + 1]
    /\ catalog' = [catalog EXCEPT ![c] = PlaceAt(c, moved[c] + 1)]
    /\ UNCHANGED <<resolved, generation, permit, refresher, sessionVars, shutdown,
                   setting, published>>

\* A lookup may fail only where the timer tries again: without it a request
\* that met a failure is not repeated before the next suspect field.
MayFail == setting.timer

\* In the middle of a migration the column may be missing.
Drop(c) ==
    /\ MayFail
    /\ moved[c] < MaxMoves
    /\ catalog' = [catalog EXCEPT ![c] = None]
    /\ UNCHANGED <<moved, resolved, generation, permit, refresher, sessionVars,
                   shutdown, setting, published>>

-----------------------------------------------------------------------------
(* refresh_loop.                                                           *)

refresherOnly ==
    UNCHANGED <<catalog, moved, sessionVars, shutdown, setting>>

StartResolving ==
    /\ refresher.at = "waiting"
    /\ resolved.generation < MaxGeneration
    /\ refresher' = [Waiting EXCEPT !.at = "looking"]
    /\ UNCHANGED <<resolved, generation, published>>

\* The timer branch leaves a permit where it is.
Tick == setting.timer /\ StartResolving /\ UNCHANGED permit /\ refresherOnly

Woken == permit /\ StartResolving /\ permit' = FALSE /\ refresherOnly

Stop ==
    /\ shutdown /\ refresher.at = "waiting"
    /\ refresher' = [refresher EXCEPT !.at = "stopped"]
    /\ UNCHANGED <<resolved, generation, permit, published>>
    /\ refresherOnly

\* One query of the control connection.
LookUp(c) ==
    /\ refresher.at = "looking" /\ refresher.next = c
    /\ catalog[c] # None
    /\ refresher' = [at |-> IF c = NumColumns THEN "found" ELSE "looking",
                     next |-> c + 1,
                     found |-> refresher.found \cup read_column(c, catalog[c])]
    /\ UNCHANGED <<resolved, generation, permit, published>>
    /\ refresherOnly

\* ColumnNotFound, or the control connection: the previous map is kept.
Fail ==
    /\ MayFail
    /\ refresher.at = "looking"
    /\ refresher' = Waiting
    /\ UNCHANGED <<resolved, generation, permit, published>>
    /\ refresherOnly

NextResolved ==
    [places |-> refresher.found, generation |-> resolved.generation + 1]

\* publish, up to the release of the lock.
SwapResolved ==
    /\ refresher.at = "found"
    /\ resolved' = NextResolved
    /\ published' = published \cup {NextResolved}
    /\ refresher' = [refresher EXCEPT !.at = "swapped"]
    /\ UNCHANGED <<generation, permit>>
    /\ refresherOnly

\* publish, the store that follows.
StoreGeneration ==
    /\ refresher.at = "swapped"
    /\ generation' = resolved.generation
    /\ refresher' = Waiting
    /\ UNCHANGED <<resolved, permit, published>>
    /\ refresherOnly

Refresher ==
    \/ Tick
    \/ Woken
    \/ Stop
    \/ \E c \in Column : LookUp(c)
    \/ Fail
    \/ SwapResolved
    \/ StoreGeneration

-----------------------------------------------------------------------------
(* The sessions.                                                           *)

protected(fields, map) == fields \cap map.places

\* Described::new
NewDescribed(fields, map) ==
    [fields |-> fields, columns |-> protected(fields, map),
     generation |-> map.generation]

\* Described::rederived: what was protected stays protected.
rederived(d, map) ==
    [d EXCEPT !.columns = protected(d.fields, map) \cup d.columns,
              !.generation = map.generation]

NamedLikeProtected(f) == f.column \in Readable

Uncovered(d) == {f \in d.fields \ d.columns : NamedLikeProtected(f)}

Computed(d) == {f \in Uncovered(d) : f.at = NoTable}
Suspect(d) == {f \in Uncovered(d) : f.at # NoTable}

\* Mutant of request_refresh: a request made while nobody waits is lost.
request_refreshWaiting == permit' = (permit \/ refresher.at = "waiting")

\* notify_one: the permit stays until the refresher waits again.
request_refresh == permit' = TRUE

sessionOnly ==
    UNCHANGED <<catalog, moved, resolved, generation, refresher, shutdown,
                setting, published>>

\* The fields a RowDescription may have now.
FieldsNow == OtherField \cup {catalog[c] : c \in {d \in Column : catalog[d] # None}}

\* check_for_stale_mapping in its order: a computed field is refused before a
\* suspect one is looked for.
RefusedAsComputed(d) == setting.reject /\ Computed(d) # {}

\* A refusal ends the session, and another takes its place.
RowDescription(s, fields) ==
    LET d == NewDescribed(fields, resolved)
        ended == setting.reject /\ Uncovered(d) # {}
    IN  /\ executing[s] = None
        /\ Cardinality(fields) <= MaxFields
        /\ IF Suspect(d) # {} /\ ~RefusedAsComputed(d)
           THEN request_refresh ELSE UNCHANGED permit
        /\ cached' = [cached EXCEPT ![s] = IF ended THEN None ELSE d]
        /\ UNCHANGED <<executing, compared>>
        /\ sessionOnly

\* expect_execute copies the description of the statement.
Execute(s) ==
    /\ cached[s] # None /\ executing[s] = None
    /\ executing' = [executing EXCEPT ![s] = cached[s]]
    /\ UNCHANGED <<cached, compared, permit>>
    /\ sessionOnly

\* Mutant of IsCurrent: a description that protects something is kept.
IsCurrentOnce(d) == d.generation = generation \/ d.columns # {}

IsCurrent(d) == d.generation = generation

\* current: the description is of the announced generation.
ReadCurrentRow(s) ==
    /\ executing[s] # None /\ compared[s] = None
    /\ IsCurrent(executing[s])
    /\ UNCHANGED <<cached, executing, compared, permit>>
    /\ sessionOnly

\* current: it is not, so the map is about to be read.
CompareGeneration(s) ==
    /\ executing[s] # None /\ compared[s] = None
    /\ ~IsCurrent(executing[s])
    /\ compared' = [compared EXCEPT ![s] = generation]
    /\ UNCHANGED <<cached, executing, permit>>
    /\ sessionOnly

\* current: the map is read, the description derived again and written back to
\* the Execute being answered.
ReadRederivedRow(s) ==
    /\ compared[s] # None
    /\ executing' = [executing EXCEPT ![s] = rederived(executing[s], resolved)]
    /\ compared' = [compared EXCEPT ![s] = None]
    /\ UNCHANGED <<cached, permit>>
    /\ sessionOnly

CommandComplete(s) ==
    /\ executing[s] # None /\ compared[s] = None
    /\ executing' = [executing EXCEPT ![s] = None]
    /\ UNCHANGED <<cached, compared, permit>>
    /\ sessionOnly

Shutdown ==
    /\ ~shutdown
    /\ shutdown' = TRUE
    /\ UNCHANGED <<catalog, moved, resolved, generation, permit, refresher,
                   sessionVars, setting, published>>

Session(s) ==
    \/ \E fields \in SUBSET FieldsNow : RowDescription(s, fields)
    \/ Execute(s)
    \/ ReadCurrentRow(s)
    \/ CompareGeneration(s)
    \/ ReadRederivedRow(s)
    \/ CommandComplete(s)

Next ==
    \/ \E c \in Column : Move(c) \/ Drop(c)
    \/ Refresher
    \/ \E s \in Sessions : Session(s)
    \/ Shutdown

Spec == Init /\ [][Next]_vars

Resolving ==
    (\E c \in Column : LookUp(c)) \/ Fail \/ SwapResolved \/ StoreGeneration

\* The refresher's task runs, its timer fires and its requests wake it; select!
\* picks among the branches that are ready at random; and the control link does
\* not fail for ever.
Fairness ==
    /\ WF_vars(Resolving)
    /\ WF_vars(Tick)
    /\ WF_vars(Woken)
    /\ SF_vars(Stop)
    /\ \A c \in Column : SF_vars(LookUp(c))

FairSpec == Spec /\ Fairness

-----------------------------------------------------------------------------

TypeOK ==
    /\ catalog \in [Column -> Place \cup {None}]
    /\ moved \in [Column -> 0..MaxMoves]
    /\ resolved \in Resolved
    /\ generation \in Nat
    /\ permit \in BOOLEAN
    /\ refresher \in [at : {"waiting", "looking", "found", "swapped", "stopped"},
                      next : 1..NumColumns + 1, found : SUBSET Place]
    /\ cached \in [Sessions -> Described \cup {None}]
    /\ executing \in [Sessions -> Described \cup {None}]
    /\ compared \in [Sessions -> Nat \cup {None}]
    /\ shutdown \in BOOLEAN
    /\ setting \in [timer : BOOLEAN, reject : BOOLEAN]
    /\ published \in SUBSET Resolved

\* Every generation is announced after its map is in place, names one map, and
\* is never ahead of the map: no description and no comparison of a session
\* knows a generation that cannot be read yet.
GenerationsOrdered ==
    /\ resolved \in published
    /\ \A r \in published :
           /\ r.generation <= resolved.generation
           /\ r.generation = resolved.generation => r = resolved
    /\ generation <= resolved.generation
    /\ \E r \in published : r.generation = generation
    /\ \A s \in Sessions :
           /\ cached[s] # None => cached[s].generation <= resolved.generation
           /\ executing[s] # None => executing[s].generation <= resolved.generation
           /\ compared[s] # None => /\ compared[s] <= resolved.generation
                                   /\ executing[s] # None

\* The description covers what resolution r covers of its fields.
Covers(d, r) == d.fields \cap r.places \subseteq d.columns

\* A generation stamped on a description is true: it protects every field that
\* the resolution of that generation covers, so that comparing generations is
\* enough to know that nothing newer would protect more.
StampsTrue ==
    \A s \in Sessions, r \in published :
        /\ cached[s] # None /\ cached[s].generation = r.generation
               => Covers(cached[s], r)
        /\ executing[s] # None /\ executing[s].generation = r.generation
               => Covers(executing[s], r)

\* A row is read with all that some resolution covers which is at least as new
\* as the generation announced when the row was inspected: a published
\* migration is honoured by the very next row of a cached statement.
RowsHonourAnnounced ==
    \A s \in Sessions : executing[s] # None =>
        /\ compared[s] = None /\ IsCurrent(executing[s]) =>
               \E r \in published : /\ r.generation >= generation
                                    /\ Covers(executing[s], r)
        /\ compared[s] # None =>
               \E r \in published : /\ r.generation >= compared[s]
                                    /\ Covers(rederived(executing[s], resolved), r)

\* While one Execute is answered its description only grows: no row of a
\* result set is opened with less than an earlier row of it.
GrowsWithinExecute ==
    [][\A s \in Sessions : executing[s] # None /\ executing'[s] # None
          => executing[s].columns \subseteq executing'[s].columns]_vars

\* A place of a readable column that a session was shown is in the map in the
\* end, unless the column moves on, a column is missing, the proxy shuts down
\* or the bound on resolutions is reached.
MigrationPickedUp ==
    \A c \in Readable, n \in 1..MaxMoves :
        (catalog[c] = PlaceAt(c, n)
            /\ \E s \in Sessions : cached[s] # None /\ PlaceAt(c, n) \in cached[s].fields)
        ~> \/ PlaceAt(c, n) \in resolved.places
           \/ catalog[c] # PlaceAt(c, n)
           \/ \E d \in Column : catalog[d] = None
           \/ shutdown
           \/ resolved.generation = MaxGeneration

=============================================================================
