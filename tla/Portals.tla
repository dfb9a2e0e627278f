------------------------------ MODULE Portals ------------------------------
(***************************************************************************)
(* The extended-protocol bookkeeping of one session: SessionPortals of     *)
(* crates/proxy/src/portal.rs.  It sits behind a mutex, and each method is *)
(* one critical section, so each method is one action here.  Both relays   *)
(* of the session call it: the write path (client to upstream) records the *)
(* statements, the portals and the responses the server will owe, and the  *)
(* read path (upstream to client) consumes the expectations in order.      *)
(*                                                                         *)
(* A method that may fail with SessionLimit or NameTooLong is an action    *)
(* guarded by the matching ...Fits operator; the callers model the error,  *)
(* which ends the session.                                                 *)
(***************************************************************************)
EXTENDS Naturals, Sequences, FiniteSets

CONSTANTS
    StatementNames,     \* names of prepared statements, the unnamed one included
    PortalNames,        \* names of portals, the unnamed one included
    LongNames,          \* the names longer than MAX_NAME_LEN
    Params,             \* ParamTransforms: what Bind must do to the parameters
    Positions,          \* Described: what one RowDescription said
    EmptyPositions,     \* Positions::default(), the description of NoData
    Formats,            \* ResultFormats of one Bind
    TextFormats,        \* ResultFormats::default(), every column is text
    MaxStatements,      \* MAX_PREPARED_STATEMENTS
    MaxPortals,         \* MAX_PORTALS
    MaxPending,         \* MAX_PENDING_RESPONSES
    None                \* Rust's Option::None

VARIABLES
    statements,         \* name -> Statement, or None
    portals,            \* name -> Portal, or None
    pending,            \* the responses the server still owes, oldest first
    nextStatementId,
    nextExecuteId,
    copyIn              \* the CopyIn state

trackerVars ==
    <<statements, portals, pending, nextStatementId, nextExecuteId, copyIn>>

Statement == [id : Nat, params : Params, described : Positions \cup {None}]
Portal == [statement : StatementNames, formats : Formats]
StatementRef == [name : StatementNames, id : Nat]

DescribeEntry == [kind : {"describe"}, statement : StatementRef \cup {None}]
ExecuteEntry == [kind : {"execute"}, id : Nat, statement : Nat \cup {None},
                 positions : Positions \cup {None}, formats : Formats]
BatchEntry == [kind : {"batch"}]
Pending == DescribeEntry \cup ExecuteEntry \cup BatchEntry

\* "started" by the Execute with this id, or by a simple COPY (None).
CopyIn == [mode : {"idle"}] \cup [mode : {"started"}, by : Nat \cup {None}]
Idle == [mode |-> "idle"]

ASSUME LimitsAssumption ==
    /\ MaxStatements \in Nat
    /\ MaxPortals \in Nat
    /\ MaxPending \in Nat

ASSUME NamesAssumption ==
    /\ IsFiniteSet(StatementNames)
    /\ IsFiniteSet(PortalNames)

ASSUME ValuesAssumption ==
    /\ EmptyPositions \in Positions
    /\ TextFormats \in Formats

\* None is Rust's absent value: no id, no description and no record.
ASSUME NoneAssumption ==
    /\ None \notin Nat
    /\ None \notin Positions
    /\ None \notin Statement
    /\ None \notin Portal
    /\ None \notin StatementRef

-----------------------------------------------------------------------------

TrackerInit ==
    /\ statements = [s \in StatementNames |-> None]
    /\ portals = [p \in PortalNames |-> None]
    /\ pending = << >>
    /\ nextStatementId = 0
    /\ nextExecuteId = 0
    /\ copyIn = Idle

Parsed == {s \in StatementNames : statements[s] # None}
Bound == {p \in PortalNames : portals[p] # None}

NameFits(name) == name \notin LongNames

ParseFits(s) ==
    /\ NameFits(s)
    /\ s \in Parsed \/ Cardinality(Parsed) < MaxStatements

BindFits(p, s) ==
    /\ NameFits(p)
    /\ NameFits(s)
    /\ p \in Bound \/ Cardinality(Bound) < MaxPortals

PushFits == Len(pending) < MaxPending

push(entry) == pending' = Append(pending, entry)

\* Mutant of parse: an entry that exists keeps its parameter actions.
parseKeepingParams(s, params) ==
    /\ ParseFits(s)
    /\ statements' = [statements EXCEPT ![s] =
           [id |-> nextStatementId, described |-> None,
            params |-> IF s \in Parsed THEN statements[s].params ELSE params]]
    /\ nextStatementId' = nextStatementId + 1
    /\ UNCHANGED <<portals, pending, nextExecuteId, copyIn>>

\* A fresh incarnation of the name: nothing of the previous one is kept.
parse(s, params) ==
    /\ ParseFits(s)
    /\ statements' = [statements EXCEPT ![s] =
           [id |-> nextStatementId, params |-> params, described |-> None]]
    /\ nextStatementId' = nextStatementId + 1
    /\ UNCHANGED <<portals, pending, nextExecuteId, copyIn>>

\* The portal is recorded whether or not the statement is known.
bind(p, s, formats) ==
    /\ BindFits(p, s)
    /\ portals' = [portals EXCEPT ![p] = [statement |-> s, formats |-> formats]]
    /\ UNCHANGED <<statements, pending, nextStatementId, nextExecuteId, copyIn>>

\* What bind returns: the statement's parameter actions, or None.
BindParams(s) == IF statements[s] = None THEN None ELSE statements[s].params

\* Mutant of close_statement: queued Executes of the statement lose it.
close_statementOrphaning(s) ==
    /\ statements' = [statements EXCEPT ![s] = None]
    /\ portals' = [p \in PortalNames |->
           IF portals[p] # None /\ portals[p].statement = s
           THEN None ELSE portals[p]]
    /\ pending' = [i \in 1..Len(pending) |->
           IF pending[i].kind = "execute" THEN [pending[i] EXCEPT !.statement = None]
           ELSE pending[i]]
    /\ UNCHANGED <<nextStatementId, nextExecuteId, copyIn>>

close_statement(s) ==
    /\ statements' = [statements EXCEPT ![s] = None]
    /\ portals' = [p \in PortalNames |->
           IF portals[p] # None /\ portals[p].statement = s
           THEN None ELSE portals[p]]
    /\ UNCHANGED <<pending, nextStatementId, nextExecuteId, copyIn>>

close_portal(p) ==
    /\ portals' = [portals EXCEPT ![p] = None]
    /\ UNCHANGED <<statements, pending, nextStatementId, nextExecuteId, copyIn>>

\* The current incarnation of a statement name, and of a portal's statement.
StatementRefOf(s) ==
    IF statements[s] = None THEN None
    ELSE [name |-> s, id |-> statements[s].id]

PortalRefOf(p) ==
    IF portals[p] = None THEN None ELSE StatementRefOf(portals[p].statement)

expect_describe_statement(s) ==
    /\ NameFits(s)
    /\ PushFits
    /\ push([kind |-> "describe", statement |-> StatementRefOf(s)])
    /\ UNCHANGED <<statements, portals, nextStatementId, nextExecuteId, copyIn>>

expect_describe_portal(p) ==
    /\ NameFits(p)
    /\ PushFits
    /\ push([kind |-> "describe", statement |-> PortalRefOf(p)])
    /\ UNCHANGED <<statements, portals, nextStatementId, nextExecuteId, copyIn>>

\* What an Execute of the portal expects; the description is captured here
\* when the statement is described already.
ExecuteOf(p) ==
    LET ref == PortalRefOf(p)
    IN  [kind |-> "execute",
         id |-> nextExecuteId,
         statement |-> IF ref = None THEN None ELSE ref.id,
         positions |-> IF ref = None THEN None ELSE statements[ref.name].described,
         formats |-> IF portals[p] = None THEN TextFormats ELSE portals[p].formats]

expect_execute(p) ==
    /\ PushFits
    /\ push(ExecuteOf(p))
    /\ nextExecuteId' = nextExecuteId + 1
    /\ UNCHANGED <<statements, portals, nextStatementId, copyIn>>

expect_batch ==
    /\ PushFits
    /\ push([kind |-> "batch"])
    /\ UNCHANGED <<statements, portals, nextStatementId, nextExecuteId, copyIn>>

-----------------------------------------------------------------------------
(* The copy state.                                                         *)

FrontIs(kind) == pending # << >> /\ Head(pending).kind = kind

copy_in_started ==
    /\ copyIn' = [mode |-> "started",
                  by |-> IF FrontIs("execute") THEN Head(pending).id ELSE None]
    /\ UNCHANGED <<statements, portals, pending, nextStatementId, nextExecuteId>>

\* How many entries from place i on are all of these kinds.
RunLength(i, kinds) ==
    Cardinality({k \in i..Len(pending) : \A m \in i..k : pending[m].kind \in kinds})

\* The place of the Execute that started the copy, where it is still queued.
CopyExecutes ==
    {i \in 1..Len(pending) : /\ copyIn.mode = "started"
                             /\ pending[i].kind = "execute"
                             /\ pending[i].id = copyIn.by}

\* Mutant of WithoutMarkersBehind: the markers of ignored Syncs stay.
WithMarkersBehind(i) == pending

\* The queue without the run of batch markers right behind place i.
WithoutMarkersBehind(i) ==
    SubSeq(pending, 1, i)
        \o SubSeq(pending, i + 1 + RunLength(i + 1, {"batch"}), Len(pending))

\* A copy frame of the client; "last" is CopyDone or CopyFail.
copy_data(last) ==
    /\ copyIn' = IF last THEN Idle ELSE copyIn
    /\ pending' = IF CopyExecutes = {} THEN pending
                  ELSE WithoutMarkersBehind(CHOOSE i \in CopyExecutes : TRUE)
    /\ UNCHANGED <<statements, portals, nextStatementId, nextExecuteId>>

-----------------------------------------------------------------------------
(* The read path.                                                          *)

\* Mutant of Backfilled: only the map learns the description.
NotBackfilled(entry, id, positions) == entry

\* A queued Execute of this incarnation that has no description gets this one.
Backfilled(entry, id, positions) ==
    IF entry.kind = "execute"
    THEN IF entry.statement = id /\ entry.positions = None
         THEN [entry EXCEPT !.positions = positions] ELSE entry
    ELSE entry

\* The statement the Describe at the front asked about.
AnsweredRef == IF FrontIs("describe") THEN Head(pending).statement ELSE None

\* Mutant of Describes: the incarnation is not compared.
DescribesName(ref, s) == ref # None /\ ref.name = s /\ statements[s] # None

\* The map entry an answer reaches: same name and same incarnation.
Describes(ref, s) ==
    ref # None /\ ref.name = s /\ statements[s] # None /\ statements[s].id = ref.id

describe_answered(positions) ==
    LET ref == AnsweredRef
    IN  /\ statements' = [s \in StatementNames |->
               IF Describes(ref, s)
               THEN [statements[s] EXCEPT !.described = positions]
               ELSE statements[s]]
        /\ pending' =
               IF ~FrontIs("describe") THEN pending
               ELSE IF ref = None THEN Tail(pending)
               ELSE [i \in 1..Len(pending) - 1 |->
                        Backfilled(pending[i + 1], ref.id, positions)]
        /\ UNCHANGED <<portals, nextStatementId, nextExecuteId, copyIn>>

no_data == describe_answered(EmptyPositions)

\* Only the Execute being answered, and only where it has a description.
rederived(positions) ==
    /\ pending' = IF FrontIs("execute")
                  THEN IF Head(pending).positions # None
                       THEN [pending EXCEPT ![1].positions = positions]
                       ELSE pending
                  ELSE pending
    /\ UNCHANGED <<statements, portals, nextStatementId, nextExecuteId, copyIn>>

execute_answered ==
    /\ pending' = IF FrontIs("execute") THEN Tail(pending) ELSE pending
    /\ UNCHANGED <<statements, portals, nextStatementId, nextExecuteId, copyIn>>

\* Everything up to and including the first batch marker is settled.
batch_answered ==
    /\ copyIn' = Idle
    /\ pending' = SubSeq(pending, RunLength(1, {"describe", "execute"}) + 2,
                         Len(pending))
    /\ UNCHANGED <<statements, portals, nextStatementId, nextExecuteId>>

\* Where the positions of the DataRow now arriving come from.
row_source ==
    IF ~FrontIs("execute") THEN [from |-> "lastDescription"]
    ELSE IF Head(pending).positions = None THEN [from |-> "undescribed"]
    ELSE [from |-> "portal", positions |-> Head(pending).positions,
          formats |-> Head(pending).formats]

-----------------------------------------------------------------------------

TrackerTypeOK ==
    /\ statements \in [StatementNames -> Statement \cup {None}]
    /\ portals \in [PortalNames -> Portal \cup {None}]
    /\ pending \in Seq(Pending)
    /\ nextStatementId \in Nat
    /\ nextExecuteId \in Nat
    /\ copyIn \in CopyIn

=============================================================================
