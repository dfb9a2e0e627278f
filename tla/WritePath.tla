-------------------------------- MODULE WritePath --------------------------------
(***************************************************************************)
(* A session's SQL on its way upstream: QueryRewriter as Query, Parse and  *)
(* Bind drive it (encrypt/frame.rs, encrypt/statement.rs), the server that *)
(* runs what it relays, and, next to it, a server with no proxy in front   *)
(* that runs what the client wrote.  The second one is the reference: the  *)
(* proxy is transparent when the two hold and answer the same.             *)
(***************************************************************************)
EXTENDS Rewrite

CONSTANTS
    Texts,      \* SQL texts: [utf8, parses, stmts]
    Prepared,   \* the texts of Parse messages, one statement each
    Bindings,   \* what a Bind carries: placeholder -> cell
    Startups,   \* startup packets: sets of <<name, value>>
    SeedRows,   \* the rows of the plain database at first
    Schemas,    \* the schemas that exist
    MaxTexts    \* how many messages a behaviour explores

VARIABLES
    reject,        \* on_unprotected = "reject"
    q,             \* search_path_trusted and escape_strings
    startup_moved, \* what startup moved, until the first text reports it
    server,        \* the path bare names follow, and how strings are read
    store,         \* the tables behind the proxy
    plain,         \* the tables of the server with no proxy
    prepared,      \* the statement last parsed: as written, as relayed
    faults,        \* answers that differ ("wrong") or show a masked value ("leak")
    warned,        \* a site was met and its statement relayed anyway
    left           \* messages left

vars == <<reject, q, startup_moved, server, store, plain, prepared, faults, warned, left>>

-------------------------------------------------------------------------------
(* What the policy makes of a row at rest, and of a stored row read back. *)
IsProtected(at, c, how) ==
    \E p \in Protected : p.schema = at[1] /\ p.table = at[2] /\ p.column = c
                         /\ p.transform \in how
RowOf(at, row) == IF at \in DOMAIN RowKeys THEN Word(row[RowKeys[at]]) ELSE ""
Cell(at, row, c) == <<"sealed", Word(row[c]), at[1], at[2], c, RowOf(at, row)>>
Sealed(at, row) ==
    [c \in DOMAIN row |->
       IF IsProtected(at, c, {"search", "encrypt"}) /\ row[c] # Null
       THEN Cell(at, row, c) ELSE row[c]]
Opened(at, row) ==
    [c \in DOMAIN row |->
       IF row[c][1] # "sealed" THEN row[c]
       ELSE IF SubSeq(row[c], 3, 5) = <<at[1], at[2], c>> /\ row[c][6] \in {"", RowOf(at, row)}
       THEN <<"plain", row[c][2]>> ELSE <<"raw">>]
Through(f(_, _), tables) == [at \in DOMAIN tables |-> {f(at, row) : row \in tables[at]}]

FirstSchema(names) ==
    LET there == SelectSeq(names, LAMBDA n : n \in Schemas)
    IN  IF there = <<>> THEN "nowhere" ELSE there[1]
On(value) == value \in {"on", "true", "t", "yes", "y", "1"}
\* A setting as the server takes it: its name and the values it is given.
Moved(s, moves) ==
    CASE moves = <<>> -> s
      [] moves[1] = "search_path" -> [s EXCEPT !.path = FirstSchema(Tail(moves))]
      [] OTHER -> [s EXCEPT !.conforming = On(moves[2])]
StartedWith(params) ==
    [path |-> IF params \cap {<<"search_path", "other">>, <<"options", "search_path">>} = {}
              THEN "public" ELSE "other",
     conforming |-> params \cap {<<"standard_conforming_strings", "off">>,
                                 <<"options", "standard_conforming_strings">>} = {}]

Init ==
    /\ reject \in BOOLEAN
    /\ \E params \in Startups :
         /\ q = startup_settings(params)
         /\ server = StartedWith(params)
    /\ startup_moved = IF q.escapes THEN <<"EscapeStrings">> ELSE <<>>
    /\ plain = SeedRows
    /\ store = Through(Sealed, SeedRows)
    /\ prepared = <<>>
    /\ faults = {}
    /\ warned = FALSE
    /\ left = MaxTexts

(***************************************************************************)
(* One statement on both servers: s as the client wrote it, r as the proxy *)
(* relayed it, each with the values it is given.                           *)
(***************************************************************************)
World == [store |-> store, plain |-> plain, server |-> server, faults |-> faults]
Faults(shown, right) ==
    (IF shown = right THEN {} ELSE {"wrong"})
    \cup (IF \E row \in shown : <<"leak">> \in {row[c] : c \in DOMAIN row} THEN {"leak"} ELSE {})
Executed(w, s, r, params, bound) ==
    LET db(tables, values) ==
          [tables |-> tables, path |-> w.server.path, conforming |-> w.server.conforming,
           params |-> values, ctes |-> <<>>]
    IN  [store |-> Exec(r, db(w.store, bound)),
         plain |-> Exec(s, db(w.plain, params)),
         server |-> Moved(w.server, s.moves),
         faults |-> w.faults \cup Faults(Answer(r, db(w.store, bound)),
                                         Answer(s, db(w.plain, params)))]
Become(w) ==
    /\ store' = w.store
    /\ plain' = w.plain
    /\ server' = w.server
    /\ faults' = w.faults

\* After a warning only what moves a setting is of interest.
Worth(text) == warned => \E i \in DOMAIN text.stmts : text.stmts[i].tokens # <<>>
Heard(text) == IF text.utf8 THEN <<>> ELSE startup_moved

\* A simple Query: refused whole, or relayed and run.
Simple(text) ==
    /\ left > 0 /\ Worth(text)
    /\ \E out \in {rewrite_sql(q, startup_moved, reject, text)} :
         /\ q' = out.q
         /\ warned' = (warned \/ (~out.refused /\ out.sites # {}))
         /\ IF out.refused THEN UNCHANGED <<store, plain, server, faults>>
            ELSE Become(FoldLeft(LAMBDA w, i : Executed(w, text.stmts[i], out.stmts[i], <<>>, <<>>),
                                 World, [i \in DOMAIN text.stmts |-> i]))
    /\ startup_moved' = Heard(text)
    /\ left' = left - 1
    /\ UNCHANGED <<reject, prepared>>

\* Parse: a refused statement is not recorded, so the one before it stays; a
\* relayed one is run by a later Bind and Execute.
Parse(text) ==
    /\ left > 0 /\ Worth(text)
    /\ \E out \in {rewrite_sql(q, startup_moved, reject, text)} :
         /\ q' = out.q
         /\ warned' = (warned \/ (~out.refused /\ out.sites # {}))
         /\ prepared' = IF out.refused THEN prepared
                        ELSE <<[wrote |-> text.stmts[1], relayed |-> out.stmts[1],
                                acts |-> out.acts]>>
    /\ startup_moved' = Heard(text)
    /\ left' = left - 1
    /\ UNCHANGED <<reject, server, store, plain, faults>>

\* Bind and Execute of the parsed statement.
BindExecute(values) ==
    /\ left > 0 /\ prepared # <<>>
    /\ LET p == prepared[1]
           out == bind(p.acts, values, reject)
       IN  /\ warned' = (warned \/ (~out.refused /\ out.sites # {}))
           /\ IF out.refused THEN UNCHANGED <<store, plain, server, faults>>
              ELSE Become(Executed(World, p.wrote, p.relayed, values, out.values))
    /\ left' = left - 1
    /\ UNCHANGED <<reject, q, startup_moved, prepared>>

Next ==
    \/ \E text \in Texts : Simple(text)
    \/ \E text \in Prepared : Parse(text)
    \/ \E values \in Bindings : BindExecute(values)

Spec == Init /\ [][Next]_vars

-------------------------------------------------------------------------------
(***************************************************************************)
(* A client whose statements raised no site cannot tell the proxy is       *)
(* there: the stored tables, opened, are the tables the same statements    *)
(* make without it, and every answer is the same.  Statements refused      *)
(* under reject never ran on either side.                                  *)
(***************************************************************************)
Transparent == warned \/ ("wrong" \notin faults /\ Through(Opened, store) = plain)

(***************************************************************************)
(* Until a site is relayed, what is at rest in a protected column is       *)
(* sealed for that column and, in a table with a row key, for the row it   *)
(* stands in: seal_expr, bind_row_key and the row each of them is given.   *)
(***************************************************************************)
SealedInPlace ==
    warned \/ \A at \in DOMAIN store : \A row \in store[at] : \A c \in DOMAIN row :
        IsProtected(at, c, {"search", "encrypt"}) /\ row[c] # Null
          => row[c] = <<"sealed", row[c][2], at[1], at[2], c, RowOf(at, row)>>

(***************************************************************************)
(* A value under a mask is not shown through a computation over it or a    *)
(* COPY of it, unless a site said so first.                                *)
(***************************************************************************)
MaskHeld == warned \/ "leak" \notin faults

(***************************************************************************)
(* The rewriter never believes a setting the server has left: while it     *)
(* resolves bare names to public the server does too, and while it reads a *)
(* backslash literally so does the server, whichever spelling moved the    *)
(* setting and whatever became of the text that did.                       *)
(***************************************************************************)
SettingsFollowed ==
    /\ q.trusted => server.path = "public"
    /\ ~q.escapes => server.conforming
===============================================================================
