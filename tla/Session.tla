------------------------------ MODULE Session ------------------------------
(***************************************************************************)
(* One proxied session: the write path (QueryRewriter::on_frame and what   *)
(* it calls, crates/proxy/src/encrypt/frame.rs), the read path             *)
(* (RowDecryptor::inspect, crates/proxy/src/rows.rs, and                   *)
(* note_backend_state, session.rs), the tracker they share (module         *)
(* Portals), and the client and the PostgreSQL server at the two ends.     *)
(*                                                                         *)
(* Each relay handles one frame at a time, so an action is one frame.  The *)
(* links to and from the server are FIFO; a client frame is handled in the *)
(* step that sends it, because nothing observes it in between.             *)
(*                                                                         *)
(* A statement is abstracted to its kind: a row-returning one is the shape *)
(* of its result, which is also what a RowDescription says of it and what  *)
(* a DataRow must be read with, and the kind stands for the parameter      *)
(* actions too.  The SQL rewrite itself is the choice between rewriting    *)
(* and refusing.                                                           *)
(***************************************************************************)
EXTENDS Portals

CONSTANTS
    Shapes,         \* kinds of statements that return rows
    NoRows,         \* the kind of a statement without rows
    CopyStmt,       \* COPY ... FROM STDIN
    Begin, End,     \* BEGIN, and COMMIT or ROLLBACK
    Unnamed,        \* the unnamed statement and the unnamed portal
    Texts,          \* what simple Queries contain: sequences of 1 or 2 kinds
    Preparable,     \* the kinds a Parse may carry
    FrameTypes,     \* the frames this client uses
    Habits,         \* what this client does beyond the disciplined one
    MayRefuse,      \* whether the rewrite may refuse a statement
    RefusedShapes,  \* shapes whose RowDescription check_for_stale_mapping refuses
    RelayFunctionResults,   \* on_unprotected = "warn"
    MaxFrames,      \* bound on the frames the client sends
    MaxInFlight     \* bound on the frames on the link to the server

Kinds == Shapes \cup {NoRows, CopyStmt, Begin, End}

ASSUME KindsAssumption ==
    /\ Params = Kinds
    /\ Positions = Shapes \cup {NoRows}
    /\ EmptyPositions = NoRows
    /\ Preparable \subseteq Kinds
    /\ Unnamed \in StatementNames \cap PortalNames
    /\ MaxFrames \in Nat
    /\ MaxInFlight \in Nat

VARIABLES
    awaitingSync,   \* the rewriter discards frames up to the next Sync
    described,      \* the decryptor's last RowDescription, or None
    txStatus,       \* the transaction status the read path saw last
    status,         \* "open", or why the session ended
    toServer,       \* frames forwarded and not yet handled by the server
    fromServer,     \* answers not yet handled by the read path
    server,         \* the state of the PostgreSQL server
    client          \* what the client has done and knows

proxyVars == <<awaitingSync, described, txStatus>>
vars == <<trackerVars, proxyVars, status, toServer, fromServer, server, client>>

NoPortals == [p \in PortalNames |-> None]

SessionInit ==
    /\ TrackerInit
    /\ awaitingSync = FALSE
    /\ described = None
    /\ txStatus = "I"
    /\ status = "open"
    /\ toServer = << >>
    /\ fromServer = << >>

ServerInit ==
    server = [stmts |-> [s \in StatementNames |-> None], portals |-> NoPortals,
              skip |-> FALSE, copy |-> "none", tx |-> "I"]

\* live: the portals it may still execute; fresh: it has parsed the unnamed
\* statement in this batch; used: the names it has parsed; owed: the
\* ReadyForQuery messages it waits for; describes: it executes nothing that
\* it has not described, or asked to have described in the same batch.
ClientInit ==
    \E d \in BOOLEAN :
        /\ d => "describes" \in Habits
        /\ client = [sent |-> 0, batch |-> FALSE, live |-> {}, fresh |-> FALSE,
                     used |-> {}, owed |-> 0, copying |-> "none", describes |-> d]

Init == SessionInit /\ ServerInit /\ ClientInit

-----------------------------------------------------------------------------
(* The client and the write path.                                          *)

Sends(t) ==
    /\ status = "open"
    /\ client.sent < MaxFrames
    /\ Len(toServer) < MaxInFlight
    /\ t \in FrameTypes

\* A frame the rewriter inspects: it is not discarding.
Handles(t) == Sends(t) /\ ~awaitingSync

\* A client that does not pipeline waits for its answers between batches, and
\* none sends a query into its own copy.
MayStart ==
    /\ client.copying = "none"
    /\ client.batch \/ client.owed = 0 \/ "pipelines" \in Habits

Forward(frame) ==
    /\ toServer' = Append(toServer, frame)
    /\ UNCHANGED <<fromServer, server, status>>

EndSession(why) ==
    /\ status' = why
    /\ UNCHANGED <<toServer, fromServer, server>>

\* An extended-protocol frame that leaves the batch open.
InBatch(live) ==
    client' = [client EXCEPT !.sent = @ + 1, !.batch = TRUE, !.live = live]

LivePortalsNotOf(s) ==
    {p \in client.live : portals[p] = None \/ portals[p].statement # s}

\* A name is parsed once, as drivers that number their statements do.
MayParse(s) == s = Unnamed \/ s \notin client.used \/ "reusesNames" \in Habits

SendParse(s, kind) ==
    /\ Handles("Parse") /\ MayStart /\ MayParse(s)
    /\ parse(s, kind)
    /\ Forward([t |-> "Parse", name |-> s, kind |-> kind])
    /\ client' = [client EXCEPT !.sent = @ + 1, !.batch = TRUE,
                                !.live = LivePortalsNotOf(s),
                                !.used = @ \cup {s},
                                !.fresh = @ \/ s = Unnamed]
    /\ UNCHANGED proxyVars

\* Whether the rewrite may refuse a statement behind others of its batch.
RefusesHere == MayRefuse /\ (client.batch => "refusedMidBatch" \in Habits)

\* A refused Parse is answered here and recorded nowhere.
RefuseParse ==
    /\ Handles("Parse") /\ MayStart /\ RefusesHere
    /\ awaitingSync' = TRUE
    /\ InBatch(client.live)
    /\ UNCHANGED <<trackerVars, described, txStatus, status, toServer,
                   fromServer, server>>

MayBind(s) ==
    \/ "reusesNames" \in Habits /\ s \in client.used
    \/ s \in Parsed /\ (s # Unnamed \/ client.fresh)

\* The tracker records the portal; the values go through the parameter
\* actions of the statement, or through none when it is unknown.
SendBind(p, s, formats) ==
    /\ Handles("Bind") /\ MayStart /\ MayBind(s)
    /\ bind(p, s, formats)
    /\ Forward([t |-> "Bind", portal |-> p, name |-> s, formats |-> formats,
                params |-> BindParams(s)])
    /\ InBatch(client.live \cup {p})
    /\ UNCHANGED proxyVars

\* A Bind refused for its values: the portal is recorded all the same.
RefuseBind(p, s, formats) ==
    /\ Handles("Bind") /\ MayStart /\ MayBind(s)
    /\ RefusesHere /\ BindParams(s) # None
    /\ bind(p, s, formats)
    /\ awaitingSync' = TRUE
    /\ InBatch(client.live)
    /\ UNCHANGED <<described, txStatus, status, toServer, fromServer, server>>

SendDescribeStatement(s) ==
    /\ Handles("Describe") /\ MayStart /\ MayBind(s)
    /\ expect_describe_statement(s)
    /\ Forward([t |-> "DescribeStatement", name |-> s])
    /\ InBatch(client.live)
    /\ UNCHANGED proxyVars

MayUse(p) == p \in client.live \/ ("stalePortals" \in Habits /\ p \in Bound)

SendDescribePortal(p) ==
    /\ Handles("Describe") /\ MayStart /\ MayUse(p)
    /\ expect_describe_portal(p)
    /\ Forward([t |-> "DescribePortal", portal |-> p])
    /\ InBatch(client.live)
    /\ UNCHANGED proxyVars

\* A Describe of this incarnation is answered, or asked in this same batch.
DescribedOrAsked(ref) ==
    /\ ref # None
    /\ \/ statements[ref.name].described # None
       \/ \E i \in 1..Len(pending) :
              /\ pending[i].kind = "describe" /\ pending[i].statement = ref
              /\ \A j \in i..Len(pending) : pending[j].kind # "batch"

\* The client waits for the answer to a COPY before it sends anything but Sync.
StartsCopy(p) ==
    PortalRefOf(p) # None /\ BindParams(portals[p].statement) = CopyStmt

SendExecute(p) ==
    /\ Handles("Execute") /\ MayStart /\ MayUse(p)
    /\ client.describes => DescribedOrAsked(PortalRefOf(p))
    /\ expect_execute(p)
    /\ Forward([t |-> "Execute", portal |-> p])
    /\ client' = [client EXCEPT !.sent = @ + 1, !.batch = TRUE,
                     !.copying = IF StartsCopy(p) THEN "asked" ELSE @]
    /\ UNCHANGED proxyVars

SendCloseStatement(s) ==
    /\ Handles("Close") /\ MayStart /\ s \in Parsed
    /\ close_statement(s)
    /\ Forward([t |-> "CloseStatement", name |-> s])
    /\ InBatch(LivePortalsNotOf(s))
    /\ UNCHANGED proxyVars

SendClosePortal(p) ==
    /\ Handles("Close") /\ MayStart /\ p \in client.live
    /\ close_portal(p)
    /\ Forward([t |-> "ClosePortal", portal |-> p])
    /\ InBatch(client.live \ {p})
    /\ UNCHANGED proxyVars

\* The client after a frame that the server answers with ReadyForQuery.
\* Portals outlive it only inside a transaction block.
Boundary ==
    [client EXCEPT !.sent = @ + 1, !.batch = FALSE, !.fresh = FALSE,
                   !.owed = @ + 1, !.live = IF txStatus = "T" THEN @ ELSE {}]

SendSync ==
    /\ Handles("Sync")
    /\ (client.batch /\ client.copying \in {"none", "asked"}) \/ "eagerCopies" \in Habits
    /\ expect_batch
    /\ Forward([t |-> "Sync"])
    /\ client' = Boundary
    /\ UNCHANGED proxyVars

\* Simple queries and function calls start no batch and belong to none.
MayQuery == MayStart /\ (~client.batch \/ "mixesProtocols" \in Habits)

SendQuery(text) ==
    /\ Handles("Query") /\ MayQuery
    /\ expect_batch
    /\ Forward([t |-> "Query", text |-> text])
    /\ client' = Boundary
    /\ UNCHANGED proxyVars

\* ErrorResponse and ReadyForQuery in one reply: nothing is recorded.
RefuseQuery ==
    /\ Handles("Query") /\ MayQuery /\ MayRefuse
    /\ client' = [Boundary EXCEPT !.owed = client.owed]
    /\ UNCHANGED <<trackerVars, proxyVars, status, toServer, fromServer, server>>

\* Mutant of SendFunctionCall: no marker is queued for its ReadyForQuery.
SendFunctionCallUnmarked ==
    /\ Handles("FunctionCall") /\ MayQuery
    /\ Forward([t |-> "FunctionCall"])
    /\ client' = Boundary
    /\ UNCHANGED <<trackerVars, proxyVars>>

SendFunctionCall ==
    /\ Handles("FunctionCall") /\ MayQuery
    /\ expect_batch
    /\ Forward([t |-> "FunctionCall"])
    /\ client' = Boundary
    /\ UNCHANGED proxyVars

\* An extended-protocol copy is followed by a Sync of its own.
AfterCopy ==
    [client EXCEPT !.copying = "none", !.batch = @ \/ client.copying = "extended"]

SendCopyFrame(t) ==
    /\ Handles(t) /\ (client.copying \in {"simple", "extended"} \/ "eagerCopies" \in Habits)
    /\ copy_data(t # "CopyData")
    /\ Forward([t |-> t])
    /\ client' = IF t = "CopyData" THEN [client EXCEPT !.sent = @ + 1]
                 ELSE [AfterCopy EXCEPT !.sent = @ + 1]
    /\ UNCHANGED proxyVars

\* discard_until_sync: everything but Sync and Terminate is dropped.
DiscardFrame ==
    /\ awaitingSync /\ \E t \in FrameTypes \ {"Sync", "Terminate"} : Sends(t)
    /\ client' = [client EXCEPT !.sent = @ + 1]
    /\ UNCHANGED <<trackerVars, proxyVars, status, toServer, fromServer, server>>

\* Mutant of DiscardedSync: the Sync is swallowed and never answered.
DiscardedSyncSilent ==
    /\ awaitingSync /\ Sends("Sync")
    /\ awaitingSync' = FALSE
    /\ client' = Boundary
    /\ UNCHANGED <<trackerVars, described, txStatus, status, toServer,
                   fromServer, server>>

\* The Sync itself stays here too: the proxy answers it.
DiscardedSync ==
    /\ awaitingSync /\ Sends("Sync")
    /\ awaitingSync' = FALSE
    /\ client' = [Boundary EXCEPT !.owed = client.owed, !.live = {}]
    /\ UNCHANGED <<trackerVars, described, txStatus, status, toServer,
                   fromServer, server>>

\* Mutant of ready_for_query: an open transaction is reported as idle.
ready_for_queryIdle == IF txStatus = "E" THEN "E" ELSE "I"

\* The status a synthesized ReadyForQuery reports.
ready_for_query == IF txStatus \in {"T", "E"} THEN "E" ELSE "I"

\* A cap or a name that is too long ends the session.
OverLimit ==
    /\ \/ Handles("Parse") /\ \E s \in StatementNames : ~ParseFits(s)
       \/ Handles("Bind") /\ \E p \in PortalNames, s \in StatementNames :
                                 ~BindFits(p, s)
       \/ Handles("Describe") /\ \E s \in StatementNames \cup PortalNames : ~NameFits(s)
       \/ (\E t \in {"Describe", "Execute", "Sync", "Query", "FunctionCall"} :
              Handles(t)) /\ ~PushFits
    /\ client' = [client EXCEPT !.sent = @ + 1]
    /\ EndSession("limit")
    /\ UNCHANGED <<trackerVars, proxyVars>>

Terminate ==
    /\ Sends("Terminate")
    /\ awaitingSync' = FALSE
    /\ client' = [client EXCEPT !.sent = @ + 1]
    /\ EndSession("terminated")
    /\ UNCHANGED <<trackerVars, described, txStatus>>

WritePath ==
    \/ \E s \in StatementNames, k \in Preparable : SendParse(s, k)
    \/ RefuseParse
    \/ \E p \in PortalNames, s \in StatementNames, f \in Formats :
           SendBind(p, s, f) \/ RefuseBind(p, s, f)
    \/ \E s \in StatementNames : SendDescribeStatement(s) \/ SendCloseStatement(s)
    \/ \E p \in PortalNames :
           SendDescribePortal(p) \/ SendExecute(p) \/ SendClosePortal(p)
    \/ SendSync
    \/ \E text \in Texts : SendQuery(text)
    \/ RefuseQuery
    \/ SendFunctionCall
    \/ \E t \in {"CopyData", "CopyDone", "CopyFail"} : SendCopyFrame(t)
    \/ DiscardFrame
    \/ DiscardedSync
    \/ OverLimit
    \/ Terminate

-----------------------------------------------------------------------------
(* The PostgreSQL server, as the proxy's code relies on it.                *)

Served(t) ==
    /\ status = "open"
    /\ toServer # << >>
    /\ Head(toServer).t = t

\* The server works on this frame: it neither skips nor copies.
Works(t) == Served(t) /\ ~server.skip /\ server.copy = "none"

Answer(sv, out) ==
    /\ server' = sv
    /\ fromServer' = fromServer \o out
    /\ toServer' = Tail(toServer)
    /\ UNCHANGED <<trackerVars, proxyVars, status, client>>

Error == [t |-> "Error"]
Complete == [t |-> "Complete"]
Ready(tx) == [t |-> "Ready", tx |-> tx]
Row(kind, formats) == [t |-> "DataRow", of |-> kind, formats |-> formats]
Description(kind) ==
    IF kind \in Shapes THEN [t |-> "RowDescription", of |-> kind]
    ELSE [t |-> "NoData"]

\* An error aborts the transaction: its portals are gone.
Aborted(sv) ==
    [sv EXCEPT !.portals = NoPortals, !.copy = "none",
               !.tx = IF @ = "I" THEN "I" ELSE "E"]

\* An aborted transaction accepts nothing but its end.
Accepts(kind) == server.tx # "E" \/ kind = End

TxAfter(kind) ==
    IF kind = Begin THEN "T" ELSE IF kind = End THEN "I" ELSE server.tx

\* Any statement of a batch may fail, and the server then skips to the Sync.
ServerFails ==
    /\ \E t \in {"Parse", "Bind", "DescribeStatement", "DescribePortal", "Execute"} :
           Works(t)
    /\ Answer([Aborted(server) EXCEPT !.skip = TRUE], <<Error>>)

ServerSkips ==
    /\ status = "open" /\ toServer # << >>
    /\ server.skip /\ Head(toServer).t # "Sync"
    /\ Answer(server, << >>)

\* A named statement must be closed before it is parsed again.
ServerParses ==
    /\ Works("Parse")
    /\ LET m == Head(toServer)
       IN  /\ m.name = Unnamed \/ server.stmts[m.name] = None
           /\ Accepts(m.kind)
           /\ Answer([server EXCEPT !.stmts[m.name] = m.kind], << >>)

\* A named portal must be closed before it is bound again.
BindAccepted(m) ==
    /\ server.stmts[m.name] # None
    /\ m.portal = Unnamed \/ server.portals[m.portal] = None
    /\ Accepts(server.stmts[m.name])

ServerBinds ==
    /\ Works("Bind")
    /\ LET m == Head(toServer)
       IN  /\ BindAccepted(m)
           /\ Answer([server EXCEPT !.portals[m.portal] =
                         [name |-> m.name, kind |-> server.stmts[m.name],
                          formats |-> m.formats]], << >>)

ServerDescribes ==
    \/ /\ Works("DescribeStatement")
       /\ LET kind == server.stmts[Head(toServer).name]
          IN  kind # None /\ Accepts(kind) /\ Answer(server, <<Description(kind)>>)
    \/ /\ Works("DescribePortal")
       /\ LET portal == server.portals[Head(toServer).portal]
          IN  portal # None /\ Answer(server, <<Description(portal.kind)>>)

\* A result set of at most one row; a later Execute may return more.
ServerExecutes ==
    /\ Works("Execute")
    /\ LET portal == server.portals[Head(toServer).portal]
       IN  /\ portal # None
           /\ \/ /\ portal.kind \in Shapes
                 /\ \/ Answer(server, <<Complete>>)
                    \/ Answer(server, <<Row(portal.kind, portal.formats), Complete>>)
              \/ /\ portal.kind = CopyStmt
                 /\ Answer([server EXCEPT !.copy = "extended"],
                           <<[t |-> "CopyInResponse", by |-> "extended"]>>)
              \/ /\ portal.kind \in {NoRows, Begin, End}
                 /\ Answer([server EXCEPT !.tx = TxAfter(portal.kind),
                                !.portals = IF portal.kind = End THEN NoPortals ELSE @],
                           <<Complete>>)

\* Closing a statement closes the portals built from it.
ServerCloses ==
    \/ /\ Works("CloseStatement")
       /\ LET name == Head(toServer).name
          IN  Answer([server EXCEPT !.stmts[name] = None,
                         !.portals = [p \in PortalNames |->
                             IF server.portals[p] # None /\ server.portals[p].name = name
                             THEN None ELSE server.portals[p]]], << >>)
    \/ /\ Works("ClosePortal")
       /\ Answer([server EXCEPT !.portals[Head(toServer).portal] = None], << >>)

\* Portals outlive their batch only inside a transaction block.
AtBoundary(sv) ==
    [sv EXCEPT !.skip = FALSE, !.portals = IF sv.tx = "I" THEN NoPortals ELSE @]

ServerSyncs ==
    /\ Served("Sync") /\ server.copy = "none"
    /\ Answer(AtBoundary(server), <<Ready(server.tx)>>)

ResultSet(kind) ==
    IF kind \in Shapes THEN <<Description(kind), Row(kind, TextFormats), Complete>>
    ELSE <<Complete>>

\* A simple query destroys the unnamed statement and the unnamed portal.
AfterQuery(kind) ==
    AtBoundary([server EXCEPT !.stmts[Unnamed] = None, !.portals[Unnamed] = None,
                              !.tx = TxAfter(kind)])

ServerQueries ==
    /\ Works("Query")
    /\ LET text == Head(toServer).text
           done == AfterQuery(text[Len(text)])
           first == ResultSet(text[1])
       IN  /\ \A i \in 1..Len(text) : Accepts(text[i])
           /\ \/ /\ text[1] = CopyStmt
                 /\ Answer([server EXCEPT !.copy = "simple"],
                           <<[t |-> "CopyInResponse", by |-> "simple"]>>)
              \/ /\ text[1] # CopyStmt /\ Len(text) = 1
                 /\ Answer(done, Append(first, Ready(done.tx)))
              \/ /\ text[1] # CopyStmt /\ Len(text) = 2
                 /\ Answer(done, first \o Append(ResultSet(text[2]), Ready(done.tx)))

ServerQueryFails ==
    /\ Works("Query") \/ Works("FunctionCall")
    /\ LET sv == AtBoundary(Aborted(server))
       IN  Answer(sv, <<Error, Ready(sv.tx)>>)

ServerCallsFunction ==
    /\ Works("FunctionCall") /\ server.tx # "E"
    /\ Answer(AtBoundary(server), <<[t |-> "FunctionResult"], Ready(server.tx)>>)

\* Copy frames outside a copy are dropped without an answer.
ServerDropsStray ==
    /\ \E t \in {"CopyData", "CopyDone", "CopyFail"} : Works(t)
    /\ Answer(server, << >>)

CopyAborted ==
    IF server.copy = "simple"
    THEN LET sv == AtBoundary(Aborted(server)) IN Answer(sv, <<Error, Ready(sv.tx)>>)
    ELSE Answer([Aborted(server) EXCEPT !.skip = TRUE], <<Error>>)

\* In a copy, Sync is ignored, data is taken or found bad, and any frame that
\* is not of the copy aborts it.
ServerCopies ==
    /\ status = "open" /\ toServer # << >> /\ server.copy # "none"
    /\ LET t == Head(toServer).t
           done == [server EXCEPT !.copy = "none"]
       IN  \/ t \in {"Sync", "CopyData"} /\ Answer(server, << >>)
           \/ t # "Sync" /\ t # "CopyDone" /\ CopyAborted
           \/ t = "CopyDone" /\ server.copy = "extended" /\ Answer(done, <<Complete>>)
           \/ /\ t = "CopyDone" /\ server.copy = "simple"
              /\ Answer(AtBoundary(done), <<Complete, Ready(server.tx)>>)

Server ==
    \/ ServerFails
    \/ ServerSkips
    \/ ServerParses
    \/ ServerBinds
    \/ ServerDescribes
    \/ ServerExecutes
    \/ ServerCloses
    \/ ServerSyncs
    \/ ServerQueries
    \/ ServerQueryFails
    \/ ServerCallsFunction
    \/ ServerDropsStray
    \/ ServerCopies

-----------------------------------------------------------------------------
(* The read path: note_backend_state, then RowDecryptor::inspect.          *)

Inspects(t) ==
    /\ status = "open"
    /\ fromServer # << >>
    /\ Head(fromServer).t = t

\* The answer goes on to the client.
Relay ==
    /\ fromServer' = Tail(fromServer)
    /\ UNCHANGED <<awaitingSync, status, toServer, server>>

InspectRowDescription ==
    /\ Inspects("RowDescription")
    /\ Head(fromServer).of \notin RefusedShapes
    /\ describe_answered(Head(fromServer).of)
    /\ described' = Head(fromServer).of
    /\ Relay
    /\ UNCHANGED <<txStatus, client>>

\* check_for_stale_mapping refuses before anything is attributed.
RefuseRowDescription ==
    /\ Inspects("RowDescription")
    /\ Head(fromServer).of \in RefusedShapes
    /\ EndSession("refused")
    /\ UNCHANGED <<trackerVars, proxyVars, client>>

InspectNoData ==
    /\ Inspects("NoData")
    /\ no_data
    /\ described' = None
    /\ Relay
    /\ UNCHANGED <<txStatus, client>>

\* The description and the formats the DataRow now arriving is read with.
RowReading ==
    LET source == row_source
    IN  IF source.from = "portal"
        THEN [positions |-> source.positions, formats |-> source.formats]
        ELSE [positions |-> IF source.from = "undescribed" THEN None ELSE described,
              formats |-> TextFormats]

InspectDataRow ==
    /\ Inspects("DataRow")
    /\ RowReading.positions # None
    /\ Relay
    /\ UNCHANGED <<trackerVars, described, txStatus, client>>

UndescribedRow ==
    /\ Inspects("DataRow")
    /\ RowReading.positions = None
    /\ EndSession("undescribed")
    /\ UNCHANGED <<trackerVars, proxyVars, client>>

\* CommandComplete, PortalSuspended and EmptyQueryResponse end a result set.
InspectComplete ==
    /\ Inspects("Complete")
    /\ execute_answered
    /\ described' = None
    /\ Relay
    /\ UNCHANGED <<txStatus, client>>

\* So does an ErrorResponse; the client learns that its portals are gone.
InspectError ==
    /\ Inspects("Error")
    /\ execute_answered
    /\ described' = None
    /\ Relay
    /\ client' = [AfterCopy EXCEPT !.live = {}]
    /\ UNCHANGED txStatus

InspectReady ==
    /\ Inspects("Ready")
    /\ txStatus' = Head(fromServer).tx
    /\ batch_answered
    /\ described' = None
    /\ Relay
    /\ client' = [client EXCEPT !.owed = @ - 1, !.copying = "none"]

\* A client that sent its Sync with the Execute now knows it will be ignored.
InspectCopyInResponse ==
    /\ Inspects("CopyInResponse")
    /\ copy_in_started
    /\ Relay
    /\ client' = [client EXCEPT !.copying = Head(fromServer).by,
                     !.owed = IF Head(fromServer).by = "extended" /\ ~client.batch
                              THEN @ - 1 ELSE @]
    /\ UNCHANGED <<described, txStatus>>

InspectFunctionResult ==
    /\ Inspects("FunctionResult")
    /\ RelayFunctionResults
    /\ Relay
    /\ UNCHANGED <<trackerVars, described, txStatus, client>>

RefuseFunctionResult ==
    /\ Inspects("FunctionResult")
    /\ ~RelayFunctionResults
    /\ EndSession("refused")
    /\ UNCHANGED <<trackerVars, proxyVars, client>>

ReadPath ==
    \/ InspectRowDescription
    \/ RefuseRowDescription
    \/ InspectNoData
    \/ InspectDataRow
    \/ UndescribedRow
    \/ InspectComplete
    \/ InspectError
    \/ InspectReady
    \/ InspectCopyInResponse
    \/ InspectFunctionResult
    \/ RefuseFunctionResult

-----------------------------------------------------------------------------

\* The session has ended, or the client has nothing more to send or to read.
Rest ==
    /\ \/ status # "open"
       \/ client.sent = MaxFrames /\ toServer = << >> /\ fromServer = << >>
    /\ UNCHANGED vars

Next == WritePath \/ Server \/ ReadPath \/ Rest

Spec == Init /\ [][Next]_vars

\* Both relays and the server keep working while there is a frame to handle.
Fairness == WF_vars(Server) /\ WF_vars(ReadPath)

FairSpec == Spec /\ Fairness

-----------------------------------------------------------------------------

\* A DataRow is read with the description and the formats of the very
\* statement and portal that produced it, or the session ends: the read path
\* never applies one statement's positions to another statement's rows.
RowAttribution ==
    (Inspects("DataRow") /\ RowReading.positions # None) =>
        /\ RowReading.positions = Head(fromServer).of
        /\ RowReading.formats = Head(fromServer).formats

\* The values of a Bind the server accepts went through the parameter actions
\* of the statement the server executes them with.
BindAttribution ==
    (Works("Bind") /\ BindAccepted(Head(toServer))) =>
        Head(toServer).params = server.stmts[Head(toServer).name]

Count(seq, Test(_)) == Cardinality({i \in DOMAIN seq : Test(seq[i])})

\* The ReadyForQuery messages still to come, from the server's side.
ReadyOwed ==
    Count(fromServer, LAMBDA m : m.t = "Ready")
        + Count(toServer, LAMBDA m : m.t \in {"Sync", "Query", "FunctionCall"})

\* Outside copies there is exactly one batch marker for every ReadyForQuery
\* still to come: the queue of expectations and the server stay aligned.
MarkersMatchReady ==
    status = "open" => Count(pending, LAMBDA e : e.kind = "batch") = ReadyOwed

\* At rest, with no batch and no copy under way, nothing is expected that the
\* server will not send.
QuietAligned ==
    (/\ status = "open" /\ toServer = << >> /\ fromServer = << >>
     /\ ~client.batch /\ client.copying = "none" /\ server.copy = "none")
        => Count(pending, LAMBDA e : e.kind = "batch") = 0

\* A client that describes what it executes never loses its session to a row
\* nobody can attribute, whatever it closes or parses again in between.
NoOrphanedRows == client.describes => status # "undescribed"

\* A ReadyForQuery that the proxy answers itself, for a refused Query or for
\* the Sync behind a refused statement, reports the aborted state whenever the
\* server has a transaction in progress, so that the client rolls it back.
SynthesizedStatusTrue ==
    [][(RefuseQuery \/ DiscardedSync) /\ server.tx # "I" => ready_for_query = "E"]_vars

\* Every Sync and every Query is answered by a ReadyForQuery, or the session
\* ends.
EverySyncAnswered == client.owed > 0 ~> (client.owed = 0 \/ status # "open")

=============================================================================
