-------------------------------- MODULE Rewrite --------------------------------
(***************************************************************************)
(* The encrypt path's rewriter: src/crates/proxy/src/encrypt/ statement.rs,*)
(* seal.rs, predicate.rs, query.rs, scope.rs, catalog.rs, mod.rs.          *)
(*                                                                         *)
(* Every function of the code that walks SQL returns here what it makes of *)
(* the piece it is given: the piece rewritten, the Unprotected sites it    *)
(* meets, and what Bind has to do to each placeholder.  Under              *)
(* on_unprotected = "reject" the first site refuses the statement; under   *)
(* "warn" the walk goes on: collecting the sites serves both, because a    *)
(* refused statement is refused whole and the walk changes no state.       *)
(***************************************************************************)
EXTENDS Sql, SequencesExt

CONSTANTS
    Protected,   \* the policy's columns: [schema, table, column, transform]
    RowKeys,     \* <<schema, table>> -> the row key a [[table]] entry names
    KeyTexts     \* the texts the row key's type reads

Made(to, sites, acts) == [to |-> to, sites |-> sites, acts |-> acts]
Keep(x) == Made(x, {}, {})
Flag(x, site) == Made(x, {site}, {})
\* The pieces of one walk, put back together.
All(to, made) ==
    Made(to, UNION {made[i].sites : i \in DOMAIN made},
             UNION {made[i].acts : i \in DOMAIN made})
Each(f(_), seq) == [i \in DOMAIN seq |-> f(seq[i])]
Pieces(made) == [i \in DOMAIN made |-> made[i].to]
Also(made, sites) == [made EXCEPT !.sites = @ \cup sites]
Gather(made) == All(Pieces(made), made)
One(made) == [made EXCEPT !.to = <<@>>]
\* `outer` with a field replaced by what was made of it.
Put(outer, field, made) == All([outer.to EXCEPT ![field] = made.to], <<outer, made>>)
\* A second walk over what the first one made.
Then(made, walk(_)) == LET next == walk(made.to) IN All(next.to, <<made, next>>)

-------------------------------------------------------------------------------
(* The catalog: the write direction and the read direction of the policy. *)
TransformOf(p) == <<p.schema, p.table, p.column>>
At(p) == <<p.schema, p.table>>
Writes == {p \in Protected : p.transform # "mask"}
ReadColumns(at) == {p.column : p \in {p \in Protected : At(p) = at}}
Columns(at) ==
    [c \in {p.column : p \in {p \in Writes : At(p) = at}} |-> <<at[1], at[2], c>>]
supports_search(transform) ==
    \E p \in Writes : TransformOf(p) = transform /\ p.transform = "search"

resolved_name(name) ==
    IF Len(name) = 1 THEN <<"public", name[1]>>
    ELSE <<name[Len(name) - 1], name[Len(name)]>>
WritesTo(at) == \E p \in Writes : At(p) = at
ReadsFrom(at) == \E p \in Protected : At(p) = at
may_be_protected(name) == \E p \in Writes : p.table = Last(name)
may_protect_reads(name) == \E p \in Protected : p.table = Last(name)

\* q: the rewriter's own state, search_path_trusted and escape_strings.
Resolves(q, name) == q.trusted \/ Len(name) > 1

\* Whether the table is write-protected, and the site a guess would be.
table(q, name) ==
    IF Resolves(q, name)
    THEN [found |-> WritesTo(resolved_name(name)), sites |-> {}]
    ELSE [found |-> FALSE,
          sites |-> IF may_be_protected(name) THEN {"SearchPath"} ELSE {}]
reads_protected(q, name) ==
    IF Resolves(q, name)
    THEN [found |-> ReadsFrom(resolved_name(name)), sites |-> {}]
    ELSE [found |-> FALSE,
          sites |-> IF may_protect_reads(name) THEN {"SearchPath"} ELSE {}]

-------------------------------------------------------------------------------
(* Scopes: the protected tables a predicate can mention. *)
ScopedTable(alias, name, columns, read) ==
    [alias |-> alias, name |-> name, columns |-> columns, read |-> read]
Scoped(alias, name) ==
    ScopedTable(alias, name, Columns(resolved_name(name)),
                ReadColumns(resolved_name(name)))

matches(t, qualifiers) ==
    CASE Len(qualifiers) = 0 -> TRUE
      [] Len(qualifiers) = 1 -> \/ t.alias = qualifiers
                                \/ t.name # <<>> /\ Last(t.name) = qualifiers[1]
      [] OTHER -> IsSuffix(qualifiers, t.name)

\* Mutant of Candidates: the first table that has the column is taken.
FirstCandidate(scope, n) ==
    LET hits == SelectSeq(scope, LAMBDA t : matches(t, Front(n))
                                            /\ Last(n) \in DOMAIN t.columns)
    IN  IF hits = <<>> THEN <<>> ELSE <<hits[1].columns[Last(n)]>>

\* The transforms a column reference may mean: none is Unknown, one is One,
\* more are Ambiguous.
Candidates(scope, n) ==
    Each(LAMBDA t : t.columns[Last(n)],
         SelectSeq(scope, LAMBDA t : matches(t, Front(n)) /\ Last(n) \in DOMAIN t.columns))
\* Mutant of resolves_read: the write direction's columns.
ResolvesWrite(scope, n) ==
    \E i \in DOMAIN scope : matches(scope[i], Front(n)) /\ Last(n) \in DOMAIN scope[i].columns
resolves_read(scope, n) ==
    \E i \in DOMAIN scope : matches(scope[i], Front(n)) /\ Last(n) \in scope[i].read

Meanings(scope, e) == IF e.k = "col" THEN Candidates(scope, e.n) ELSE <<>>
column_ref(scope, e) == Len(Meanings(scope, e)) = 1
Sole(meanings) == IF Len(meanings) = 1 THEN {meanings[1]} ELSE {}
read_column_ref(scope, e) == e.k = "col" /\ resolves_read(scope, e.n)

\* A read-only walk stops where a query of its own begins.
expr_operands(e) == IF e.k \in {"sub", "insub", "exists", "array"} THEN <<>> ELSE e.args
RECURSIVE read_protected_reference(_, _), ambiguous_column(_, _), protected_columns(_, _)
read_protected_reference(e, scope) ==
    \/ read_column_ref(scope, e)
    \/ \E i \in DOMAIN expr_operands(e) : read_protected_reference(expr_operands(e)[i], scope)
computed_protected_column(item, scope) ==
    /\ item.k = "item"
    /\ ~read_column_ref(scope, item.e)
    /\ read_protected_reference(item.e, scope)

\* The operands a comparison is looked at by: both sides of an operator, the
\* left of the rest.  IS NULL has none: nullness survives sealing.
predicate_operands(e) ==
    IF e.k \in {"eq", "less", "any"} THEN e.args
    ELSE IF e.k \in {"in", "insub", "distinct"} THEN <<e.args[1]>> ELSE <<>>
ambiguous_column(e, scope) ==
    IF e.k = "tuple" THEN \E i \in DOMAIN e.args : ambiguous_column(e.args[i], scope)
    ELSE Len(Meanings(scope, e)) > 1
protected_columns(e, scope) ==
    IF e.k = "tuple" THEN UNION {protected_columns(e.args[i], scope) : i \in DOMAIN e.args}
    ELSE Sole(Meanings(scope, e))

PredicateSites(operands, scope) ==
    IF \E i \in DOMAIN operands : ambiguous_column(operands[i], scope)
    THEN {"AmbiguousColumn"}
    ELSE IF \E i \in DOMAIN operands : protected_columns(operands[i], scope) # {}
    THEN {"Predicate"} ELSE {}
unsupported_predicate(e, scope) == Made(e, PredicateSites(predicate_operands(e), scope), {})

-------------------------------------------------------------------------------
(* Values. *)
RECURSIVE unwrap_casts(_)
unwrap_casts(e) == IF e.k \in {"cast", "nested"} THEN unwrap_casts(e.args[1]) ELSE e

literal_agrees_with_server(q, e) ==
    LET u == unwrap_casts(e)
    IN  q.escapes => ~(u.k = "lit" /\ Word(u.n) \in Backslashed)
IsLiteral(e) == unwrap_casts(e).k \in {"lit", "safe"}
IsParam(e) == unwrap_casts(e).k = "param"
Written(e) == Word(unwrap_casts(e).n)
Placeholder(e) == unwrap_casts(e).n[1]

\* What Bind does to a placeholder: seal it (for which row), index it, or
\* index each element of an array.
Act(e, what, transform, row) == {<<Placeholder(e), what, transform, row>>}
Conflicting(acts) == \E a, b \in acts : a[1] = b[1] /\ a # b

index_value(e, transform) ==
    IF IsParam(e) THEN Made(e, {}, Act(e, "index", transform, <<>>))
    ELSE Keep(Value(<<"token", Written(e)>> \o transform))
index_prefix(e) == Op("prefix", <<e>>)
Indexable(e) == IsParam(e) \/ IsLiteral(e)

\* col IN (list): all of it is indexed, or none of it.  The first piece of
\* what it makes is the column, the rest the list.
IndexList(q, column, list, transform) ==
    IF ~supports_search(transform) THEN Flag(<<column>> \o list, "UnindexedPredicate")
    ELSE IF \E i \in DOMAIN list : ~literal_agrees_with_server(q, list[i])
    THEN Flag(<<column>> \o list, "AmbiguousLiteral")
    ELSE IF list = <<>> \/ \E i \in DOMAIN list : ~Indexable(list[i])
    THEN Flag(<<column>> \o list, "Predicate")
    ELSE Gather(<<Keep(index_prefix(column))>>
                \o Each(LAMBDA e : index_value(e, transform), list))
rewrite_in_list(q, column, list, scope) ==
    IF column_ref(scope, column) THEN IndexList(q, column, list, Meanings(scope, column)[1])
    ELSE Made(<<column>> \o list, PredicateSites(<<column>>, scope), {})

\* left = right with the column on either side: `at` is the column's place.
rewrite_equality(q, e, at, transform) ==
    LET value == e.args[3 - at]
        made == index_value(value, transform)
    IN  IF ~supports_search(transform) THEN Flag(e, "UnindexedPredicate")
        ELSE IF ~literal_agrees_with_server(q, value) THEN Flag(e, "AmbiguousLiteral")
        ELSE IF ~Indexable(value) THEN Flag(e, "Predicate")
        ELSE [made EXCEPT !.to = [e EXCEPT !.args =
                [i \in {1, 2} |-> IF i = at THEN index_prefix(e.args[at]) ELSE made.to]]]

RECURSIVE rewrite_selection(_, _, _)
rewrite_selection(q, e, scope) ==
    CASE e.k = "eq" ->
           (IF column_ref(scope, e.args[1])
            THEN rewrite_equality(q, e, 1, Meanings(scope, e.args[1])[1])
            ELSE IF column_ref(scope, e.args[2])
            THEN rewrite_equality(q, e, 2, Meanings(scope, e.args[2])[1])
            ELSE unsupported_predicate(e, scope))
      [] e.k \in {"and", "or", "nested", "not"} ->
           Put(Keep(e), "args", Gather(Each(LAMBDA a : rewrite_selection(q, a, scope), e.args)))
      [] e.k = "in" ->
           Put(Keep(e), "args", rewrite_in_list(q, e.args[1], Tail(e.args), scope))
      [] e.k = "any" /\ e.args[2].k = "array" ->
           Put(Keep(e), "args",
               Then(rewrite_in_list(q, e.args[1], e.args[2].args, scope), LAMBDA list :
                      Keep(<<list[1], [e.args[2] EXCEPT !.args = Tail(list)]>>)))
      [] e.k = "any" /\ IsParam(e.args[2]) /\ column_ref(scope, e.args[1])
         /\ supports_search(Meanings(scope, e.args[1])[1]) ->
           Made([e EXCEPT !.args[1] = index_prefix(@)], {},
                Act(e.args[2], "indexArray", Meanings(scope, e.args[1])[1], <<>>))
      [] OTHER -> unsupported_predicate(e, scope)

-------------------------------------------------------------------------------
(* Which row a write binds to: <<"none">>, <<"literal", key>> or             *)
(* <<"param", placeholder>>, and the two gaps <<"missing">> and              *)
(* <<"reassigned">>.  <<>> is an expression that names no row.               *)
row_key_spec(at) == IF at \in DOMAIN RowKeys THEN <<RowKeys[at]>> ELSE <<>>
row_key_source(e) ==
    IF IsParam(e) THEN <<"param", Placeholder(e)>>
    ELSE IF IsLiteral(e) /\ Written(e) \in KeyTexts
    THEN <<"literal", Canonical[Written(e)]>> ELSE <<>>

assigns_column(sets, wanted) ==
    \E i \in DOMAIN sets : \E j \in DOMAIN sets[i].cols : sets[i].cols[j] = wanted
names_row_key(e, wanted, target, joined) ==
    /\ e.k = "col" /\ Last(e.n) = wanted
    /\ IF Len(e.n) = 1 THEN ~joined ELSE matches(target, Front(e.n))

RECURSIVE row_key_in_predicate(_, _, _, _)
row_key_in_predicate(e, wanted, target, joined) ==
    LET in(i) == row_key_in_predicate(e.args[i], wanted, target, joined)
        names(i) == names_row_key(e.args[i], wanted, target, joined)
    IN  CASE e.k = "and" -> IF in(1) # <<>> THEN in(1) ELSE in(2)
          [] e.k = "nested" -> in(1)
          [] e.k = "eq" -> IF names(1) THEN row_key_source(e.args[2])
                           ELSE IF names(2) THEN row_key_source(e.args[1]) ELSE <<>>
          [] OTHER -> <<>>

update_row(s) ==
    LET at == resolved_name(s.table)
        spec == row_key_spec(at)
        found == IF s.where = <<>> THEN <<>>
                 ELSE row_key_in_predicate(s.where[1], spec[1],
                        Scoped(s.alias, s.table), s.from # <<>>)
    IN  IF spec = <<>> THEN <<"none">>
        ELSE IF assigns_column(s.sets, spec[1]) THEN <<"reassigned">>
        ELSE IF found = <<>> THEN <<"missing">> ELSE found

\* Mutant of conflict_row: a conflict action seals for no row.
ConflictRowNone(s) == <<"none">>
\* The row a conflict action updates is the one the VALUES row proposes only
\* if the conflict is on the row key, and the key is there to be read.
conflict_row(s) ==
    LET spec == row_key_spec(resolved_name(s.table))
        at == {i \in DOMAIN s.columns : s.columns[i] = spec[1]}
        found == row_key_source(s.rows[1][CHOOSE i \in at : TRUE])
    IN  IF spec = <<>> THEN <<"none">>
        ELSE IF assigns_column(s.on[1].sets, spec[1]) THEN <<"reassigned">>
        ELSE IF \/ \A i \in DOMAIN s.on[1].target : s.on[1].target[i] # spec[1]
                \/ at = {} \/ Len(s.rows) # 1
        THEN <<"missing">>
        ELSE IF found = <<>> THEN <<"missing">> ELSE found

row_of(row) == IF row[1] \in {"missing", "reassigned"} THEN <<"none">> ELSE row
RowSites(row) ==
    CASE row[1] = "missing" -> {"RowKeyMissing"}
      [] row[1] = "reassigned" -> {"RowKeyReassigned"}
      [] OTHER -> {}

\* The single place a plaintext becomes a stored form.
seal_expr(q, e, transform, row) ==
    CASE IsParam(e) -> Made(e, {}, Act(e, "seal", transform, row))
      [] unwrap_casts(e).k = "null" -> Keep(e)
      [] ~literal_agrees_with_server(q, e) -> Flag(e, "AmbiguousLiteral")
      [] ~IsLiteral(e) \/ row[1] = "param" -> Flag(e, "UnsupportedValue")
      [] OTHER -> Keep(Value(<<"sealed", Written(e)>> \o transform
                             \o <<IF row[1] = "literal" THEN row[2] ELSE "">>))

\* EXCLUDED.c assigned to c, where the VALUES list sealed c.
re_stores_a_sealed_value(e, column, sealed) ==
    e.k = "col" /\ e.n = <<"excluded", column>> /\ column \in sealed

SealAssigned(q, e, column, columns, row, sealed) ==
    IF re_stores_a_sealed_value(e, column, sealed) THEN Made(e, RowSites(row), {})
    ELSE Also(seal_expr(q, e, columns[column], row_of(row)), RowSites(row))

seal_tuple_assignment(q, set, columns, row, sealed) ==
    LET elements == CASE set.e.k = "tuple" -> set.e.args
                      [] set.e.k = "nested" -> set.e.args
                      [] OTHER -> <<>>
        made == [i \in DOMAIN elements |->
                   IF set.cols[i] \in DOMAIN columns
                   THEN SealAssigned(q, elements[i], set.cols[i], columns, row, sealed)
                   ELSE Keep(elements[i])]
    IN  IF \A i \in DOMAIN set.cols : set.cols[i] \notin DOMAIN columns THEN Keep(set)
        ELSE IF Len(elements) # Len(set.cols) THEN Flag(set, "UnsupportedValue")
        ELSE All([set EXCEPT !.e.args = Pieces(made)], made)

seal_assignments(q, sets, columns, row, sealed) ==
    LET seal(set) ==
          IF set.rowwise THEN seal_tuple_assignment(q, set, columns, row, sealed)
          ELSE IF Last(set.cols) \notin DOMAIN columns THEN Keep(set)
          ELSE Put(Keep(set), "e",
                   SealAssigned(q, set.e, Last(set.cols), columns, row, sealed))
    IN  Gather(Each(seal, sets))

\* The VALUES rows with their protected values sealed, each for the row its
\* own key names, and the columns that now hold sealed values.
rewrite_insert_values(q, s, columns) ==
    LET spec == row_key_spec(resolved_name(s.table))
        touched == {i \in DOMAIN s.columns : s.columns[i] \in DOMAIN columns}
        at == IF spec = <<>> THEN {} ELSE {i \in DOMAIN s.columns : s.columns[i] = spec[1]}
        found(values) == row_key_source(values[CHOOSE i \in at : TRUE])
        row(values) == IF spec = <<>> THEN <<"none">>
                       ELSE IF at = {} \/ found(values) = <<>> THEN <<"missing">>
                       ELSE found(values)
        cell(values, i) ==
          IF i \in touched
          THEN seal_expr(q, values[i], columns[s.columns[i]], row_of(row(values)))
          ELSE Keep(values[i])
        sealed(values) ==
          Also(Gather([i \in DOMAIN values |-> cell(values, i)]), RowSites(row(values)))
    IN  IF touched = {} THEN [made |-> Keep(s.rows), columns |-> {}]
        ELSE IF s.rows = <<>>
        THEN [made |-> IF s.query = <<>> THEN Keep(s.rows)
                       ELSE Flag(s.rows, "InsertFromSelect"), columns |-> {}]
        ELSE [made |-> Gather(Each(sealed, s.rows)),
              columns |-> {s.columns[i] : i \in touched}]

-------------------------------------------------------------------------------
(* What a FROM clause puts in scope.  A derived table offers the protected *)
(* columns it passes through under the names it gives them.                *)
RECURSIVE scope(_, _), derived_scope(_, _)
FactorsOf(t) == <<t.rel>> \o [i \in DOMAIN t.joins |-> t.joins[i].rel]

DerivedColumns(item, inner) ==
    IF item.k = "star" THEN FoldLeft(LAMBDA acc, t : t.columns @@ acc, <<>>, inner)
    ELSE IF item.k = "item" /\ column_ref(inner, item.e)
    THEN NameOf(item) :> Meanings(inner, item.e)[1] ELSE <<>>
DerivedReads(item, inner) ==
    IF item.k = "star" THEN UNION {inner[i].read : i \in DOMAIN inner}
    ELSE IF item.k = "item" /\ read_column_ref(inner, item.e) THEN {NameOf(item)} ELSE {}
DerivedTable(alias, columns, reads) ==
    IF DOMAIN columns = {} /\ reads = {} THEN <<>>
    ELSE <<ScopedTable(alias, alias, columns, reads)>>

derived_scope(q, f) ==
    LET select == f.q[1].body
        offered(inner) ==
          DerivedTable(f.alias,
            FoldLeft(LAMBDA acc, item : DerivedColumns(item, inner) @@ acc, <<>>, select.proj),
            UNION {DerivedReads(select.proj[i], inner) : i \in DOMAIN select.proj})
    IN  IF select.k # "select" THEN Keep(<<>>)
        ELSE Then(scope(q, select.from), LAMBDA inner : Keep(offered(inner)))

scope(q, from) ==
    LET ofTable(known, f) ==
          Made(IF known.found THEN <<Scoped(f.alias, f.name)>> ELSE <<>>, known.sites, {})
        ofFactor(f) ==
          CASE f.k = "table" -> ofTable(reads_protected(q, f.name), f)
            [] f.k = "nested" -> scope(q, f.t)
            [] f.k = "derived" -> derived_scope(q, f)
    IN  Then(Gather(Each(ofFactor, FlattenSeq(Each(FactorsOf, from)))),
             LAMBDA tables : Keep(FlattenSeq(tables)))

RECURSIVE rewrite_query(_, _), rewrite_nested_queries(_, _), rewrite_set_expr(_, _),
          rewrite_statement(_, _), rewrite_derived_tables(_, _), rewrite_join_conditions(_, _, _)

rewrite_nested_queries(q, e) ==
    LET arg(a) == IF e.k = "array" THEN Keep(a) ELSE rewrite_nested_queries(q, a)
    IN  Put(Put(Keep(e), "args", Gather(Each(arg, e.args))),
            "sub", Gather(Each(LAMBDA s : rewrite_query(q, s), e.sub)))
NestedIn(q, exprs) == Gather(Each(LAMBDA e : rewrite_nested_queries(q, e), exprs))
\* The expression each record of a sequence holds in its field `e`.
NestedInEach(q, items) ==
    Gather(Each(LAMBDA x : Put(Keep(x), "e", rewrite_nested_queries(q, x.e)), items))

Selections(q, exprs, sc) == Gather(Each(LAMBDA e : rewrite_selection(q, e, sc), exprs))
rewrite_predicate(q, exprs, sc) ==
    Then(Selections(q, exprs, sc), LAMBDA made : NestedIn(q, made))

\* A FROM clause with each factor walked, and with each ON condition walked.
InFactors(from, walk(_)) ==
    Gather(Each(LAMBDA t :
      Put(Put(Keep(t), "rel", walk(t.rel)), "joins",
          Gather(Each(LAMBDA j : Put(Keep(j), "rel", walk(j.rel)), t.joins))), from))
InConditions(from, walk(_)) ==
    Gather(Each(LAMBDA t :
      Put(Keep(t), "joins",
          Gather(Each(LAMBDA j : Put(Keep(j), "on", walk(j.on)), t.joins))), from))

rewrite_join_conditions(q, from, sc) ==
    Then(InConditions(from, LAMBDA on : Selections(q, on, sc)), LAMBDA made :
      InFactors(made, LAMBDA f :
        IF f.k # "nested" THEN Keep(f)
        ELSE Put(Keep(f), "t", rewrite_join_conditions(q, f.t, sc))))

rewrite_derived_tables(q, from) ==
    InFactors(from, LAMBDA f :
      CASE f.k = "derived" -> Put(Keep(f), "q", One(rewrite_query(q, f.q[1])))
        [] f.k = "nested" -> Put(Keep(f), "t", rewrite_derived_tables(q, f.t))
        [] OTHER -> Keep(f))

\* Queries nested in the ON conditions of a SELECT's joins.
NestedInJoins(q, from) == InConditions(from, LAMBDA on : NestedIn(q, on))

\* A FROM clause under its own scope: first the conditions, then the queries.
FromClause(q, from, sc) ==
    Then(rewrite_join_conditions(q, from, sc), LAMBDA made : rewrite_derived_tables(q, made))

rewrite_select(q, b) ==
    Then(scope(q, b.from), LAMBDA sc :
      Also(Put(Put(Put(Put(Keep(b),
             "where", rewrite_predicate(q, b.where, sc)),
             "proj", NestedInEach(q, b.proj)),
             "group", NestedIn(q, b.group)),
             "from", Then(FromClause(q, b.from, sc), LAMBDA made : NestedInJoins(q, made))),
           IF \E i \in DOMAIN b.proj : computed_protected_column(b.proj[i], sc)
           THEN {"ComputedColumn"} ELSE {}))

rewrite_set_expr(q, b) ==
    CASE b.k = "select" -> rewrite_select(q, b)
      [] b.k = "setop" ->
           Put(Keep(b), "parts", Gather(Each(LAMBDA p : rewrite_set_expr(q, p), b.parts)))
      [] b.k = "stmt" -> Put(Keep(b), "stmt", One(rewrite_statement(q, b.stmt[1])))
      [] OTHER -> Keep(b)

rewrite_query(q, query) ==
    Put(Put(Put(Keep(query),
      "with", Gather(Each(LAMBDA w : Put(Keep(w), "query", rewrite_query(q, w.query)),
                          query.with))),
      "body", rewrite_set_expr(q, query.body)),
      "order", NestedIn(q, query.order))

-------------------------------------------------------------------------------
(* COPY of a query: every protected table it reads is a site. *)
RECURSIVE collect_copied_tables(_, _), collect_copied_tables_in(_, _),
          collect_copied_tables_from(_, _)
record_copied_table(q, name) ==
    LET known == reads_protected(q, name)
    IN  known.sites \cup (IF known.found THEN {"CopyQuery"} ELSE {})
collect_copied_tables_from(q, f) ==
    CASE f.k = "table" -> record_copied_table(q, f.name)
      [] f.k = "derived" -> collect_copied_tables(q, f.q[1])
      [] f.k = "nested" -> UNION {collect_copied_tables_from(q, FactorsOf(f.t[1])[i]) :
                                    i \in DOMAIN FactorsOf(f.t[1])}
collect_copied_tables_in(q, b) ==
    LET factors == FlattenSeq(Each(FactorsOf, b.from))
    IN  CASE b.k \in {"select", "table"} ->
               UNION {collect_copied_tables_from(q, factors[i]) : i \in DOMAIN factors}
          [] b.k = "setop" ->
               UNION {collect_copied_tables_in(q, b.parts[i]) : i \in DOMAIN b.parts}
          [] OTHER -> {}
collect_copied_tables(q, query) ==
    collect_copied_tables_in(q, query.body)
    \cup UNION {collect_copied_tables(q, query.with[i].query) : i \in DOMAIN query.with}

rewrite_copy_query(q, s) ==
    Also(IF s.to THEN Put(Keep(s), "query", One(rewrite_query(q, s.query[1]))) ELSE Keep(s),
         collect_copied_tables(q, s.query[1]))
refuse_copy_table(q, s) ==
    LET known == IF s.to THEN reads_protected(q, s.table) ELSE table(q, s.table)
    IN  Made(s, known.sites \cup (IF known.found THEN {"Copy"} ELSE {}), {})

-------------------------------------------------------------------------------
(* One operator per statement kind. *)
refuse_merge(q, s) ==
    LET known == table(q, s.table)
    IN  Made(s, known.sites \cup (IF known.found THEN {"Unsupported"} ELSE {}), {})
refuse_prepare(q, s) ==
    IF s.of[1].k \notin {"insert", "update", "merge"} THEN Keep(s)
    ELSE LET known == table(q, s.of[1].table)
         IN  Made(s, known.sites \cup (IF known.found THEN {"Unsupported"} ELSE {}), {})

\* FROM of an UPDATE is a join of its target; both are in scope.
TargetScope(q, s) == scope(q, <<Only(Table(s.table, s.alias))>> \o s.from)
rewrite_update(q, s) ==
    LET known == table(q, s.table)
        sets == IF known.found
                THEN seal_assignments(q, s.sets, Columns(resolved_name(s.table)),
                                      update_row(s), {})
                ELSE Keep(s.sets)
    IN  Also(Then(TargetScope(q, s), LAMBDA sc :
               Put(Put(Put(Keep(s), "sets", Then(sets, LAMBDA made : NestedInEach(q, made))),
                 "where", rewrite_predicate(q, s.where, sc)),
                 "from", FromClause(q, s.from, sc))), known.sites)

rewrite_delete(q, s) ==
    Then(TargetScope(q, s), LAMBDA sc :
      Put(Put(Keep(s), "where", rewrite_predicate(q, s.where, sc)),
          "from", FromClause(q, s.from, sc)))

\* ON CONFLICT DO UPDATE, `sealed` the columns the VALUES rows sealed.
ConflictAction(q, s, on, columns, sealed) ==
    Put(Put(Keep(on), "sets", seal_assignments(q, on.sets, columns, conflict_row(s), sealed)),
        "where", rewrite_predicate(q, on.where, <<Scoped(s.alias, s.table)>>))
rewrite_insert(q, s) ==
    LET known == table(q, s.table)
        columns == Columns(resolved_name(s.table))
        values == IF s.columns = <<>>
                  THEN [made |-> Flag(s.rows, "NoColumnList"), columns |-> {}]
                  ELSE rewrite_insert_values(q, s, columns)
    IN  IF ~known.found THEN Made(s, known.sites, {})
        ELSE Put(Put(Keep(s), "rows", values.made), "on",
               Gather(Each(LAMBDA on : ConflictAction(q, s, on, columns, values.columns), s.on)))

rewrite_statement(q, s) ==
    CASE s.k = "insert" -> rewrite_insert(q, s)
      [] s.k = "update" -> rewrite_update(q, s)
      [] s.k = "query" -> Put(Keep(s), "query", One(rewrite_query(q, s.query[1])))
      [] s.k = "delete" -> rewrite_delete(q, s)
      [] s.k = "copy" -> IF s.query = <<>> THEN refuse_copy_table(q, s)
                         ELSE rewrite_copy_query(q, s)
      [] s.k = "merge" -> refuse_merge(q, s)
      [] s.k = "prepare" -> refuse_prepare(q, s)
      [] OTHER -> Keep(s)

-------------------------------------------------------------------------------
(* Session settings, read from the tokens of a statement.  A token is a    *)
(* tuple: its kind and, for a word, a quoted word or a number, its text;   *)
(* a string has the parts it falls into at its commas.                     *)
keyword(t, word) == t = <<"word", word>>
is_on_value(v) == v \in {"on", "true", "t", "yes", "y", "1"}
is_default_search_path(values) ==
    /\ \A i \in DOMAIN values : values[i] \in {"public", "$user"}
    /\ \E i \in DOMAIN values : values[i] = "public"

\* <<values>>, or <<>> when a token cannot be evaluated.
setting_values(tokens) ==
    LET ends == {i \in DOMAIN tokens : tokens[i][1] = "rparen"}
        until == IF ends = {} THEN Len(tokens)
                 ELSE (CHOOSE i \in ends : \A j \in ends : i <= j) - 1
        read == SubSeq(tokens, 1, until)
    IN  IF \E i \in DOMAIN read :
             read[i][1] \notin {"word", "quoted", "number", "string", "comma"}
        THEN <<>> ELSE <<FlattenSeq(Each(Tail, read))>>

moved_by(name, values) ==
    IF name = "search_path"
    THEN IF values # <<>> /\ is_default_search_path(values[1]) THEN <<>> ELSE <<"SearchPath">>
    ELSE IF name = "standard_conforming_strings"
    THEN IF values # <<>> /\ Len(values[1]) = 1 /\ is_on_value(values[1][1])
         THEN <<>> ELSE <<"EscapeStrings">>
    ELSE <<>>

\* Mutant of set_statement: SESSION and LOCAL are not skipped.
SetPlainly(tokens) ==
    IF Len(tokens) < 2 \/ tokens[1][1] # "word" THEN <<>>
    ELSE IF keyword(tokens[1], "schema") THEN moved_by("search_path", setting_values(Tail(tokens)))
    ELSE IF tokens[2][1] = "eq" \/ keyword(tokens[2], "to")
    THEN moved_by(tokens[1][2], setting_values(SubSeq(tokens, 3, Len(tokens))))
    ELSE <<>>
set_statement(tokens) ==
    LET rest == IF tokens # <<>> /\ (keyword(tokens[1], "session") \/ keyword(tokens[1], "local"))
                THEN Tail(tokens) ELSE tokens
    IN  IF Len(rest) < 2 \/ rest[1][1] # "word" THEN <<>>
        ELSE IF keyword(rest[1], "schema") THEN moved_by("search_path", setting_values(Tail(rest)))
        ELSE IF rest[2][1] = "eq" \/ keyword(rest[2], "to")
        THEN moved_by(rest[1][2], setting_values(SubSeq(rest, 3, Len(rest))))
        ELSE <<>>

set_config_call(tokens) ==
    IF tokens = <<>> \/ tokens[1][1] # "lparen" THEN <<>>
    ELSE IF Len(tokens) < 2 \/ tokens[2][1] # "string" THEN <<"SearchPath">>
    ELSE IF Len(tokens) < 4 THEN <<>>
    ELSE IF tokens[3][1] # "comma" THEN <<"SearchPath">>
    ELSE moved_by(tokens[2][2], setting_values(<<tokens[4]>>))

statement_settings_moved(tokens) ==
    LET found(i) ==
          LET rest == SubSeq(tokens, i + 1, Len(tokens))
          IN  IF i = 1 /\ keyword(tokens[i], "set") THEN set_statement(rest)
              ELSE IF keyword(tokens[i], "set_config") THEN set_config_call(rest) ELSE <<>>
    IN  FoldLeft(LAMBDA moved, m : IF Contains(moved, m) THEN moved ELSE Append(moved, m),
                 <<>>, FlattenSeq([i \in DOMAIN tokens |-> found(i)]))

\* What a startup packet moves: parameters are <<name, value>>, and those of
\* "options" the settings its command line mentions.
startup_settings(params) ==
    LET given(name) == {p \in params : p[1] = name}
        mentioned(name) == <<"options", name>> \in params
    IN  [trusted |-> /\ \A p \in given("search_path") : p[2] = "public"
                     /\ ~mentioned("search_path"),
         escapes |-> \/ \E p \in given("standard_conforming_strings") : ~is_on_value(p[2])
                     \/ mentioned("standard_conforming_strings")]

\* The flag moves before on_unprotected is asked; under reject the first move
\* ends the text.
note_session_state(q, reject, moved) ==
    LET heard == IF reject /\ moved # <<>> THEN <<moved[1]>> ELSE moved
    IN  [q EXCEPT !.trusted = @ /\ ~Contains(heard, "SearchPath"),
                  !.escapes = @ \/ Contains(heard, "EscapeStrings")]

-------------------------------------------------------------------------------
(* A whole SQL text: [utf8, parses, stmts].  The outcome is the rewriter's *)
(* settings afterwards, the statements to relay, what Bind is to do, the   *)
(* sites met, and whether the text is refused.                             *)
Outcome(q, stmts, acts, sites, refused) ==
    [q |-> q, stmts |-> stmts, acts |-> acts, sites |-> sites, refused |-> refused]

\* One statement after another: a move counts from the statement that makes it.
Judged(reject, q, stmts, acts, sites) ==
    Outcome(q, stmts, acts, sites, Conflicting(acts) \/ (reject /\ sites # {}))
RewriteNext(reject, sofar, s) ==
    LET moved == statement_settings_moved(s.tokens)
        q == note_session_state(sofar.q, reject, moved)
        with(made) ==
          Judged(reject, q, Append(sofar.stmts, made.to), sofar.acts \cup made.acts,
                 sofar.sites \cup ToSet(moved) \cup made.sites)
    IN  IF sofar.refused THEN sofar ELSE with(rewrite_statement(q, s))

rewrite_sql(q, startup_moved, reject, text) ==
    LET moved == FlattenSeq(Each(LAMBDA s : statement_settings_moved(s.tokens), text.stmts))
        upfront == startup_moved \o (IF text.parses THEN <<>> ELSE moved)
        noted == note_session_state(q, reject, upfront)
        start == Outcome(noted, <<>>, {}, ToSet(upfront), reject /\ upfront # <<>>)
    IN  IF ~text.utf8 THEN Outcome(q, text.stmts, {}, {"NonUtf8"}, reject)
        ELSE IF ~text.parses
        THEN Outcome(noted, text.stmts, {}, ToSet(upfront) \cup {"Unparseable"}, reject)
        ELSE FoldLeft(LAMBDA sofar, s : RewriteNext(reject, sofar, s), start, text.stmts)

-------------------------------------------------------------------------------
(* Bind: each placeholder's value as its action asks.  A NULL is left; a   *)
(* row key that is itself a parameter has to be one the key's type reads;  *)
(* an array that is not a plain list cannot be indexed.                    *)
bind_row_key(row, values) ==
    CASE row[1] = "literal" -> row[2]
      [] row[1] = "param" -> Canonical[Word(values[row[2]])]
      [] OTHER -> ""
UnusableKey(row, values) ==
    row[1] = "param" /\ (values[row[2]][1] # "plain"
                         \/ Word(values[row[2]]) \notin KeyTexts)

bind(acts, values, reject) ==
    LET live == {a \in acts : values[a[1]] # Null}
        refused == \E a \in live : a[2] = "seal" /\ UnusableKey(a[4], values)
        unindexed == {a \in live : a[2] = "indexArray" /\ values[a[1]][1] # "array"}
        new(a) ==
          LET v == values[a[1]]
          IN  CASE a[2] = "seal" -> <<"sealed", Word(v)>> \o a[3] \o <<bind_row_key(a[4], values)>>
                [] a[2] = "index" -> <<"token", Word(v)>> \o a[3]
                [] a \in unindexed -> v
                [] OTHER -> <<"tokens">> \o a[3] \o Tail(v)
    IN  [refused |-> refused \/ (reject /\ unindexed # {}),
         sites |-> IF unindexed = {} THEN {} ELSE {"Predicate"},
         values |-> [p \in DOMAIN values |->
                       LET mine == {a \in live : a[1] = p}
                       IN  IF refused \/ mine = {} THEN values[p] ELSE new(CHOOSE a \in mine : TRUE)]]
===============================================================================
