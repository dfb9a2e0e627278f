---------------------------------- MODULE Sql ----------------------------------
(***************************************************************************)
(* The SQL that reaches the proxy, as the parser hands it to the rewriter, *)
(* and what PostgreSQL does with it.  Both are external to the repository: *)
(* the shapes are the ones src/crates/proxy/src/encrypt/*.rs matches on,   *)
(* and the evaluator is the reference the rewriter is judged against.      *)
(*                                                                         *)
(* Every expression is one record: its kind, its words (a name, a value),  *)
(* its operands and its subqueries.  A value is a CELL, a tuple of words:  *)
(*   <<"null">>  <<"plain", v>>  <<"hidden", v>> (a mask-only column)      *)
(*   <<"sealed", v, schema, table, column, row>>  an encrypted value       *)
(*   <<"token", v, schema, table, column>>        its blind index          *)
(*   <<"array", v1, ...>> and <<"tokens", schema, table, column, v1, ...>> *)
(*   <<"raw">>   bytes that mean nothing to the client                     *)
(*   <<"true">> and <<"false">>                                            *)
(***************************************************************************)
EXTENDS Sequences, FiniteSets, Integers

CONSTANTS
    Layout,       \* <<schema, table>> -> the set of its columns
    UniqueColumn, \* the column no two rows of a table share
    Canonical,    \* what a spelling of a value means: "01" is "1"
    Precedes,     \* the pairs of values in order
    Backslashed,  \* the values spelled with a backslash
    Unescaped     \* what such a spelling means once backslashes escape

Node(k, n, args, sub) == [k |-> k, n |-> n, args |-> args, sub |-> sub]

Lit(v) == Node("lit", <<"plain", v>>, <<>>, <<>>)
\* E'...', U&'...' and dollar quoting: no setting changes how they are read.
Safe(v) == Node("safe", <<"plain", v>>, <<>>, <<>>)
Value(cell) == Node("safe", cell, <<>>, <<>>)
Param(p) == Node("param", <<p>>, <<>>, <<>>)
Col(q, c) == Node("col", Append(q, c), <<>>, <<>>)
Op(k, args) == Node(k, <<>>, args, <<>>)
Query1(k, args, q) == Node(k, <<>>, args, <<q>>)

Item(e, as) == [k |-> "item", e |-> e, as |-> as]
Star == [k |-> "star", e |-> Op("null", <<>>), as |-> <<>>]

Table(name, alias) ==
    [k |-> "table", name |-> name, alias |-> alias, q |-> <<>>, t |-> <<>>]
Derived(q, alias) ==
    [k |-> "derived", name |-> <<>>, alias |-> alias, q |-> <<q>>, t |-> <<>>]
NestedJoin(t) ==
    [k |-> "nested", name |-> <<>>, alias |-> <<>>, q |-> <<>>, t |-> <<t>>]
With(rel, joins) == [rel |-> rel, joins |-> joins]
Only(rel) == With(rel, <<>>)
Joined(rel, on) == [rel |-> rel, on |-> on]

Body(k, from, proj, where, group, parts, stmt) ==
    [k |-> k, from |-> from, proj |-> proj, where |-> where, group |-> group,
     parts |-> parts, stmt |-> stmt]
Select(proj, from, where) == Body("select", from, proj, where, <<>>, <<>>, <<>>)
Query(with, body, order) == [with |-> with, body |-> body, order |-> order]
Simply(body) == Query(<<>>, body, <<>>)

Assign(cols, rowwise, e) == [cols |-> cols, rowwise |-> rowwise, e |-> e]
OnConflict(target, sets, where) ==
    [target |-> target, sets |-> sets, where |-> where]

(***************************************************************************)
(* One shape for all statements; a kind uses the fields it has.  Tokens    *)
(* are kept only for statements that set something.                        *)
(***************************************************************************)
Statement ==
    [k |-> "other", table |-> <<>>, alias |-> <<>>, columns |-> <<>>,
     rows |-> <<>>, query |-> <<>>, on |-> <<>>, sets |-> <<>>, from |-> <<>>,
     where |-> <<>>, to |-> FALSE, of |-> <<>>, tokens |-> <<>>, moves |-> <<>>]

\* A setting: what the client writes and, once it runs, what it moves.
Setting(tokens, moves) == [Statement EXCEPT !.tokens = tokens, !.moves = moves]
Spelled(head, values, tail) ==
    head \o [i \in 1..(2 * Len(values) - 1) |->
               IF i % 2 = 1 THEN values[(i + 1) \div 2] ELSE <<"comma">>] \o tail
Words(ws) == [i \in DOMAIN ws |-> <<"word", ws[i]>>]

-------------------------------------------------------------------------------
Null == <<"null">>
Truth(b) == IF b THEN <<"true">> ELSE <<"false">>
Holds(c) == c = <<"true">>

Word(c) == c[2]
Same(a, b) ==
    \/ a = b
    \/ a[1] \in {"plain", "hidden"} /\ b[1] \in {"plain", "hidden"}
       /\ Canonical[Word(a)] = Canonical[Word(b)]
Equal(a, b) == IF Null \in {a, b} THEN Null ELSE Truth(Same(a, b))
Before(a, b) ==
    IF Null \in {a, b} THEN Null
    ELSE Truth(a[1] = "plain" /\ b[1] = "plain" /\ <<Word(a), Word(b)>> \in Precedes)

\* A computation over a stored value: over a sealed one it is noise, over a
\* hidden one it is the value the mask was to hide.
Computed(c) ==
    IF c[1] \in {"sealed", "token"} THEN <<"raw">>
    ELSE IF c[1] = "hidden" THEN <<"leak">> ELSE c

\* substring(c from 1 for 32): the blind index a searchable value starts with.
Prefix(c) ==
    IF c[1] = "sealed" THEN <<"token", c[2], c[3], c[4], c[5]>>
    ELSE IF c = Null THEN Null ELSE <<"raw">>

Both(a, b) ==
    IF <<"false">> \in {a, b} THEN <<"false">>
    ELSE IF Null \in {a, b} THEN Null ELSE <<"true">>
Either(a, b) ==
    IF <<"true">> \in {a, b} THEN <<"true">>
    ELSE IF Null \in {a, b} THEN Null ELSE <<"false">>
Negated(a) == IF a = Null THEN Null ELSE Truth(~Holds(a))
Among(c, cells) ==
    IF \E d \in cells : Holds(Equal(c, d)) THEN <<"true">>
    ELSE IF Null \in {Equal(c, d) : d \in cells} THEN Null ELSE <<"false">>

Elements(c) ==
    IF c[1] = "array" THEN {<<"plain", c[i]>> : i \in 2..Len(c)}
    ELSE IF c[1] = "tokens"
    THEN {<<"token", c[i], c[2], c[3], c[4]>> : i \in 5..Len(c)}
    ELSE {}

(***************************************************************************)
(* Names.  A binding is a row in scope and the names it answers to: its    *)
(* alias if it has one, else its table.  A name is looked for in the       *)
(* innermost query first; one that two rows answer to is an error, which   *)
(* here matches nothing.                                                   *)
(***************************************************************************)
Binding(as, row) == [as |-> as, row |-> row]
Refers(b, q) == q = <<>> \/ (Len(q) <= Len(b.as)
                             /\ SubSeq(b.as, Len(b.as) - Len(q) + 1, Len(b.as)) = q)

RECURSIVE Lookup(_, _)
Lookup(env, n) ==
    LET q == SubSeq(n, 1, Len(n) - 1)
        c == n[Len(n)]
        hits == {i \in DOMAIN env[1] :
                   Refers(env[1][i], q) /\ c \in DOMAIN env[1][i].row}
    IN  IF env = <<>> THEN Null
        ELSE IF hits = {} THEN (IF Len(env) = 1 THEN Null ELSE Lookup(Tail(env), n))
        ELSE IF Cardinality(hits) > 1 THEN Null
        ELSE env[1][CHOOSE i \in hits : TRUE].row[c]

\* db: the tables, the path an unqualified name follows, whether backslashes
\* are ordinary, the values bound to placeholders and the CTEs in scope.
TableAt(db, name) ==
    IF Len(name) = 1 THEN <<db.path, name[1]>> ELSE <<name[1], name[2]>>

Literal(db, n) ==
    IF ~db.conforming /\ Word(n) \in Backslashed
    THEN <<"plain", Unescaped[Word(n)]>> ELSE n

RECURSIVE Eval(_, _, _), Rows(_, _, _), FromRows(_, _, _), FactorRows(_, _, _)

Eval(e, env, db) ==
    LET v(i) == Eval(e.args[i], env, db)
        only(r) == r[CHOOSE c \in DOMAIN r : TRUE]
        answered(answers) ==
          CASE e.k = "insub" -> Among(v(1), {only(r) : r \in answers})
            [] e.k = "exists" -> Truth(answers # {})
            [] OTHER -> IF Cardinality(answers) = 1
                        THEN only(CHOOSE r \in answers : TRUE) ELSE Null
    IN  CASE e.k = "lit" -> Literal(db, e.n)
          [] e.k = "safe" -> e.n
          [] e.k = "null" -> Null
          [] e.k = "param" -> db.params[e.n[1]]
          [] e.k = "col" -> Lookup(env, e.n)
          [] e.k \in {"cast", "nested"} -> v(1)
          [] e.k = "fn" -> Computed(v(1))
          [] e.k = "prefix" -> Prefix(v(1))
          [] e.k = "eq" -> Equal(v(1), v(2))
          [] e.k = "less" -> Before(v(1), v(2))
          [] e.k = "distinct" -> Truth(~Same(v(1), v(2)))
          [] e.k = "and" -> Both(v(1), v(2))
          [] e.k = "or" -> Either(v(1), v(2))
          [] e.k = "not" -> Negated(v(1))
          [] e.k = "isnull" -> Truth(v(1) = Null)
          [] e.k = "in" -> Among(v(1), {v(i) : i \in 2..Len(e.args)})
          [] e.k = "any" ->
               Among(v(1), IF e.args[2].k = "array"
                           THEN {Eval(a, env, db) : a \in {e.args[2].args[i] :
                                   i \in DOMAIN e.args[2].args}}
                           ELSE Elements(v(2)))
          [] e.k \in {"insub", "exists", "sub"} -> answered(Rows(e.sub[1], env, db))
          [] OTHER -> Null

\* The rows a FROM element offers, each a sequence of bindings.
FactorRows(f, env, db) ==
    CASE f.k = "table" ->
           LET at == TableAt(db, f.name)
               cte == Len(f.name) = 1 /\ f.name[1] \in DOMAIN db.ctes
               rows == IF cte THEN db.ctes[f.name[1]]
                       ELSE IF at \in DOMAIN db.tables THEN db.tables[at] ELSE {}
               as == IF f.alias # <<>> THEN f.alias ELSE IF cte THEN f.name ELSE at
           IN  {<<Binding(as, r)>> : r \in rows}
      [] f.k = "derived" ->
           {<<Binding(f.alias, r)>> : r \in Rows(f.q[1], env, db)}
      [] f.k = "nested" -> FromRows(f.t, env, db)

FromRows(from, env, db) ==
    IF from = <<>> THEN {<<>>}
    ELSE LET RECURSIVE JoinAll(_, _)
             JoinAll(sofar, joins) ==
               IF joins = <<>> THEN sofar
               ELSE JoinAll({x \in {l \o r : l \in sofar,
                                      r \in FactorRows(joins[1].rel, env, db)} :
                               \A i \in DOMAIN joins[1].on :
                                 Holds(Eval(joins[1].on[i], <<x>> \o env, db))},
                            Tail(joins))
             first == JoinAll(FactorRows(from[1].rel, env, db), from[1].joins)
         IN  {l \o r : l \in first, r \in FromRows(Tail(from), env, db)}

NameOf(item) ==
    IF item.as # <<>> THEN item.as[1]
    ELSE IF item.e.k = "col" THEN item.e.n[Len(item.e.n)] ELSE "?column?"

Output(items, x, env, db) ==
    LET names == UNION {IF items[i].k = "item" THEN {NameOf(items[i])}
                        ELSE UNION {DOMAIN x[j].row : j \in DOMAIN x} :
                        i \in DOMAIN items}
        from(c) == {i \in DOMAIN items : items[i].k = "item" /\ NameOf(items[i]) = c}
    IN  [c \in names |->
           IF from(c) # {}
           THEN Eval(items[CHOOSE i \in from(c) : TRUE].e, <<x>> \o env, db)
           ELSE Lookup(<<x>>, <<c>>)]

RECURSIVE BodyRows(_, _, _)
BodyRows(b, env, db) ==
    CASE b.k = "select" ->
           {Output(b.proj, x, env, db) :
              x \in {x \in FromRows(b.from, env, db) :
                       \A i \in DOMAIN b.where :
                         Holds(Eval(b.where[i], <<x>> \o env, db))}}
      [] b.k = "setop" -> UNION {BodyRows(b.parts[i], env, db) : i \in DOMAIN b.parts}
      [] b.k = "table" -> {x[1].row : x \in FromRows(b.from, env, db)}
      [] OTHER -> {}

Rows(q, env, db) ==
    LET named == {q.with[i].name : i \in DOMAIN q.with}
        cte(n) == q.with[CHOOSE i \in DOMAIN q.with : q.with[i].name = n].query
        inner == [db EXCEPT !.ctes =
                    [n \in named \cup DOMAIN db.ctes |->
                       IF n \in named THEN Rows(cte(n), env, db) ELSE db.ctes[n]]]
    IN  BodyRows(q.body, env, inner)

(***************************************************************************)
(* Writes.  Each returns the tables afterwards; a statement the server     *)
(* refuses leaves them as they were.                                       *)
(***************************************************************************)
\* A value as the column stores it: a key in its canonical spelling.
Stored(c, v) ==
    IF c = UniqueColumn /\ v[1] = "plain" THEN <<"plain", Canonical[Word(v)]>> ELSE v

Assigned(sets, row, env, db) ==
    LET at(c) == {i \in DOMAIN sets : \E j \in DOMAIN sets[i].cols : sets[i].cols[j] = c}
        value(s, c) ==
          IF ~s.rowwise THEN s.e
          ELSE IF s.e.k = "nested" THEN s.e.args[1]
          ELSE s.e.args[CHOOSE j \in DOMAIN s.cols : s.cols[j] = c]
        whole(s) == s.rowwise =>
          CASE s.e.k = "nested" -> Len(s.cols) = 1
            [] s.e.k = "tuple" -> Len(s.cols) = Len(s.e.args)
            [] OTHER -> FALSE
    IN  IF \E i \in DOMAIN sets : ~whole(sets[i]) THEN row
        ELSE [c \in DOMAIN row |->
                IF at(c) = {} THEN row[c]
                ELSE Stored(c, Eval(value(sets[CHOOSE i \in at(c) : TRUE], c), env, db))]

\* The value list of a VALUES row as the row the table would hold.
Proposed(s, values, at, db) ==
    LET columns == IF s.columns = <<>> THEN <<"id", "ssn">> ELSE s.columns
        place(c) == {i \in DOMAIN columns : columns[i] = c}
    IN  [c \in Layout[at] |->
           IF place(c) = {} THEN Null
           ELSE Stored(c, Eval(values[CHOOSE i \in place(c) : TRUE], <<>>, db))]
NewRows(s, at, db) ==
    IF s.rows # <<>> THEN {Proposed(s, s.rows[i], at, db) : i \in DOMAIN s.rows}
    ELSE IF s.query # <<>>
    THEN {[c \in Layout[at] |-> IF c \in DOMAIN r THEN r[c] ELSE Null] :
            r \in Rows(s.query[1], <<>>, db)}
    ELSE {}

Placed(s, new, db) ==
    LET at == TableAt(db, s.table)
        old == db.tables[at]
        clash(r) == {o \in old : o[UniqueColumn] = r[UniqueColumn]}
        upsert == s.on # <<>> /\ UniqueColumn \in
                    {s.on[1].target[i] : i \in DOMAIN s.on[1].target}
        names == IF s.alias # <<>> THEN s.alias ELSE at
        updated(o, r) ==
          LET env == <<<<Binding(names, o), Binding(<<"excluded">>, r)>>>>
          IN  IF \A i \in DOMAIN s.on[1].where : Holds(Eval(s.on[1].where[i], env, db))
              THEN Assigned(s.on[1].sets, o, env, db) ELSE o
    IN  IF (s.on # <<>> /\ ~upsert) \/ (\E r \in new : r[UniqueColumn] = Null)
           \/ (\E r \in new : clash(r) # {} /\ ~upsert)
        THEN db.tables
        ELSE [db.tables EXCEPT ![at] =
                {o \in old : \A r \in new : o \notin clash(r)}
                \cup {r \in new : clash(r) = {}}
                \cup UNION {{updated(o, r) : o \in clash(r)} : r \in new}]
Insert(s, db) == Placed(s, NewRows(s, TableAt(db, s.table), db), db)

\* The rows of the target a WHERE selects, with what they are joined to.
Matching(s, row, db) ==
    LET names == IF s.alias # <<>> THEN s.alias ELSE TableAt(db, s.table)
    IN  {x \in {<<Binding(names, row)>> \o f : f \in FromRows(s.from, <<>>, db)} :
           \A i \in DOMAIN s.where : Holds(Eval(s.where[i], <<x>>, db))}

Update(s, db) ==
    LET at == TableAt(db, s.table)
        new(row, hits) == IF hits = {} THEN row
                          ELSE Assigned(s.sets, row, <<CHOOSE x \in hits : TRUE>>, db)
    IN  [db.tables EXCEPT ![at] = {new(row, Matching(s, row, db)) : row \in db.tables[at]}]

Delete(s, db) ==
    LET at == TableAt(db, s.table)
    IN  [db.tables EXCEPT ![at] = {row \in @ : Matching(s, row, db) = {}}]

\* COPY ... FROM STDIN and MERGE bring values no rewrite has touched.
Untouched(s, db) ==
    LET at == TableAt(db, s.table)
    IN  [db.tables EXCEPT ![at] =
           @ \cup {[c \in Layout[at] |-> IF c = UniqueColumn THEN <<"plain", "9">>
                                         ELSE <<"plain", "a">>]}]

RECURSIVE Exec(_, _)
Exec(s, db) ==
    CASE s.k = "insert" -> Insert(s, db)
      [] s.k = "update" -> Update(s, db)
      [] s.k = "delete" -> Delete(s, db)
      [] s.k = "merge" \/ (s.k = "copy" /\ ~s.to) -> Untouched(s, db)
      [] s.k = "prepare" -> Exec(s.of[1], db)
      [] s.k = "query" ->
           LET writes == SelectSeq(s.query[1].with, LAMBDA w : w.query.body.k = "stmt")
           IN  IF writes = <<>> THEN db.tables
               ELSE Exec(writes[1].query.body.stmt[1], db)
      [] OTHER -> db.tables

\* What the client is sent: rows the read path opens and masks, or the bytes
\* of a COPY, which it relays as they are stored.
Shown(c) ==
    IF c[1] = "sealed" THEN <<"plain", c[2]>>
    ELSE IF c[1] = "hidden" THEN <<"masked">> ELSE c
Copied(c) ==
    IF c[1] = "sealed" THEN <<"raw">> ELSE IF c[1] = "hidden" THEN <<"leak">> ELSE c

Answer(s, db) ==
    LET through(f(_), rows) == {[c \in DOMAIN r |-> f(r[c])] : r \in rows}
    IN  CASE s.k = "query" -> through(Shown, Rows(s.query[1], <<>>, db))
          [] s.k = "copy" /\ s.to /\ s.query # <<>> ->
               through(Copied, Rows(s.query[1], <<>>, db))
          [] s.k = "copy" /\ s.to -> through(Copied, db.tables[TableAt(db, s.table)])
          [] OTHER -> {}
===============================================================================
