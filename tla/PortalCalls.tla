---------------------------- MODULE PortalCalls ----------------------------
(***************************************************************************)
(* SessionPortals under any caller: both relays may call any method with   *)
(* any argument at any time, whatever the client sends and the server      *)
(* answers.  What holds here holds of the tracker alone; what depends on   *)
(* who calls it when is the subject of module Session.                     *)
(*                                                                         *)
(* The history variable answered records which description was given for   *)
(* which incarnation of a statement.                                       *)
(***************************************************************************)
EXTENDS Portals

CONSTANTS
    MaxStatementIds,    \* bound on Parse calls (u64 ids never wrap)
    MaxExecuteIds       \* bound on Execute calls

ASSUME BoundsAssumption == MaxStatementIds \in Nat /\ MaxExecuteIds \in Nat

VARIABLE answered       \* the pairs <<incarnation, description given for it>>

vars == <<trackerVars, answered>>

Init == TrackerInit /\ answered = {}

-----------------------------------------------------------------------------

Parse(s, params) ==
    /\ nextStatementId < MaxStatementIds
    /\ parse(s, params)
    /\ UNCHANGED answered

Bind(p, s, formats) == bind(p, s, formats) /\ UNCHANGED answered

CloseStatement(s) == close_statement(s) /\ UNCHANGED answered

ClosePortal(p) == close_portal(p) /\ UNCHANGED answered

DescribeStatement(s) == expect_describe_statement(s) /\ UNCHANGED answered

DescribePortal(p) == expect_describe_portal(p) /\ UNCHANGED answered

Execute(p) ==
    /\ nextExecuteId < MaxExecuteIds
    /\ expect_execute(p)
    /\ UNCHANGED answered

Sync == expect_batch /\ UNCHANGED answered

CopyInResponse == copy_in_started /\ UNCHANGED answered

CopyFrame(last) == copy_data(last) /\ UNCHANGED answered

RowDescription(positions) ==
    /\ describe_answered(positions)
    /\ answered' = IF AnsweredRef = None THEN answered
                   ELSE answered \cup {<<AnsweredRef.id, positions>>}

NoData ==
    /\ no_data
    /\ answered' = IF AnsweredRef = None THEN answered
                   ELSE answered \cup {<<AnsweredRef.id, EmptyPositions>>}

Rederive(positions) ==
    /\ rederived(positions)
    /\ answered' = IF FrontIs("execute")
                   THEN IF Head(pending).positions # None
                        THEN answered \cup {<<Head(pending).statement, positions>>}
                        ELSE answered
                   ELSE answered

CommandComplete == execute_answered /\ UNCHANGED answered

ReadyForQuery == batch_answered /\ UNCHANGED answered

Next ==
    \/ \E s \in StatementNames, params \in Params : Parse(s, params)
    \/ \E p \in PortalNames, s \in StatementNames, f \in Formats : Bind(p, s, f)
    \/ \E s \in StatementNames : CloseStatement(s)
    \/ \E p \in PortalNames : ClosePortal(p)
    \/ \E s \in StatementNames : DescribeStatement(s)
    \/ \E p \in PortalNames : DescribePortal(p)
    \/ \E p \in PortalNames : Execute(p)
    \/ Sync
    \/ CopyInResponse
    \/ \E last \in BOOLEAN : CopyFrame(last)
    \/ \E positions \in Positions : RowDescription(positions)
    \/ NoData
    \/ \E positions \in Positions : Rederive(positions)
    \/ CommandComplete
    \/ ReadyForQuery

Spec == Init /\ [][Next]_vars

-----------------------------------------------------------------------------

TypeOK ==
    /\ TrackerTypeOK
    /\ answered \in SUBSET (Nat \X Positions)

\* No map and no queue a client can grow exceeds its cap (portal.rs, the
\* limits checked by parse, bind and push).
WithinLimits ==
    /\ Cardinality(Parsed) <= MaxStatements
    /\ Cardinality(Bound) <= MaxPortals
    /\ Len(pending) <= MaxPending

\* Two names never share an incarnation, and parse never mints an id that a
\* statement still has.
IncarnationsDistinct ==
    /\ \A s \in Parsed : statements[s].id < nextStatementId
    /\ \A s, t \in Parsed : statements[s].id = statements[t].id => s = t

\* Every id the queue remembers was minted: an Execute or a Describe refers to
\* a past Parse of its session, so no later Parse is mistaken for it.
ReferencesMinted ==
    \A i \in 1..Len(pending) :
        /\ pending[i].kind = "describe" /\ pending[i].statement # None
               => pending[i].statement.id < nextStatementId
        /\ pending[i].kind = "execute" /\ pending[i].statement # None
               => pending[i].statement < nextStatementId

\* A description only ever reaches the incarnation it was answered for, in
\* the map and in the queue: a Close orphans nothing and a re-Parse of the
\* name inherits nothing.
DescriptionsFollowIncarnation ==
    /\ \A s \in Parsed : statements[s].described # None
           => <<statements[s].id, statements[s].described>> \in answered
    /\ \A i \in 1..Len(pending) :
           pending[i].kind = "execute" =>
               (pending[i].positions # None =>
                   <<pending[i].statement, pending[i].positions>> \in answered)

\* Once an incarnation is described, no Execute of it that is still queued is
\* without a description, whichever of the two came first.
DescribedExecutesFilled ==
    \A s \in Parsed, i \in 1..Len(pending) :
        pending[i].kind = "execute" =>
            (pending[i].statement = statements[s].id
               /\ statements[s].described # None => pending[i].positions # None)

\* Queued Executes stand in the order they were sent, so the one that started
\* a copy is never confused with another.
ExecutesOrdered ==
    /\ \A i \in 1..Len(pending) :
           pending[i].kind = "execute" => pending[i].id < nextExecuteId
    /\ \A i, j \in 1..Len(pending) :
           i < j /\ pending[i].kind = "execute" /\ pending[j].kind = "execute"
               => pending[i].id < pending[j].id

\* What a step may do to an Execute that stays queued: its statement and its
\* formats are those of the moment it was sent, and a description it has is
\* never lost.
KeepsItsRows(e, f) ==
    e.kind = "execute" /\ f.kind = "execute" =>
        (e.id = f.id => /\ f.statement = e.statement
                        /\ f.formats = e.formats
                        /\ e.positions # None => f.positions # None)

\* Closing, re-parsing or re-binding a name never orphans the rows of an
\* Execute already in flight.
QueuedExecuteKeepsItsRows ==
    [][\A i \in 1..Len(pending), j \in 1..Len(pending') :
           KeepsItsRows(pending[i], pending'[j])]_vars

=============================================================================
