-------------------------------- MODULE MCRewrite --------------------------------
(***************************************************************************)
(* WritePath on one policy: public.users with a searchable, an encrypted   *)
(* and a masked column bound to the row key id, public.notes with a        *)
(* searchable column and no row key, and two tables of no concern, one of  *)
(* them another schema's users.  The conversions of Codec share no state   *)
(* with it and are checked with it standing still.                         *)
(***************************************************************************)
EXTENDS WritePath, Codec

\* "1" and "01" are one key; "c:" is spelled with a backslash, and means "b"
\* once backslashes escape.
Words0 == {"a", "b", "c:", "1", "01", "2", "3", "9"}
MCCanonical == [w \in Words0 |-> IF w = "01" THEN "1" ELSE w]
MCPrecedes == {<<"a", "b">>, <<"1", "2">>}
MCUnescaped == "c:" :> "b"

users == <<"users">>
notes == <<"notes">>
audit == <<"audit">>
foreign == <<"other", "users">>
MCLayout ==
    [at \in {<<"public", "users">>, <<"other", "users">>} |-> {"id", "ssn", "mail", "phone"}]
    @@ [at \in {<<"public", "notes">>, <<"public", "audit">>, <<"other", "notes">>,
                <<"other", "audit">>} |-> {"id", "ssn"}]
Column(t, column, transform) ==
    [schema |-> "public", table |-> t, column |-> column, transform |-> transform]
MCProtected ==
    {Column("users", "ssn", "search"), Column("users", "mail", "encrypt"),
     Column("users", "phone", "mask"), Column("notes", "ssn", "search")}
MCRowKeys == <<"public", "users">> :> "id"

User(id, ssn) == [id |-> <<"plain", id>>, ssn |-> <<"plain", ssn>>, mail |-> Null,
                  phone |-> <<"hidden", "a">>]
Pair(id, ssn) == [id |-> <<"plain", id>>, ssn |-> <<"plain", ssn>>]
MCSeedRows ==
    [at \in DOMAIN MCLayout |->
       CASE at = <<"public", "users">> -> {User("1", "a"), User("2", "b")}
         [] at = <<"public", "notes">> -> {Pair("1", "b"), Pair("2", "a")}
         [] at = <<"public", "audit">> -> {Pair("1", "a"), Pair("2", "a")}
         [] OTHER -> {}]

-------------------------------------------------------------------------------
C(c) == Col(<<>>, c)
Eq(a, b) == Op("eq", <<a, b>>)
And(a, b) == Op("and", <<a, b>>)
Or(a, b) == Op("or", <<a, b>>)
Is(c, v) == Eq(C(c), Lit(v))
Of(name) == Only(Table(name, <<>>))
Cols(names) == [i \in DOMAIN names |-> Item(C(names[i]), <<>>)]
IdsWhere(from, where) == Simply(Select(Cols(<<"id">>), <<from>>, where))
Ask(query) == [Statement EXCEPT !.k = "query", !.query = <<query>>]
InsertInto(t, columns, rows) ==
    [Statement EXCEPT !.k = "insert", !.table = t, !.columns = columns, !.rows = rows]
Set(c, e) == Assign(<<c>>, FALSE, e)
UpdateOf(t, sets, where) ==
    [Statement EXCEPT !.k = "update", !.table = t, !.sets = sets, !.where = where]
DeleteFrom(t, where) ==
    [Statement EXCEPT !.k = "delete", !.table = t, !.where = where]
Upsert(rows, sets, where) ==
    [InsertInto(users, <<"id", "ssn">>, rows) EXCEPT
        !.on = <<OnConflict(<<"id">>, sets, where)>>]
Ssn == Set("ssn", Lit("b"))
Excluded == Set("ssn", Col(<<"excluded">>, "ssn"))

Writes0 ==
    {InsertInto(users, <<"id", "ssn", "mail">>, <<<<Lit("3"), Lit("b"), Lit("a")>>>>),
     InsertInto(users, <<"id", "ssn">>, <<<<Lit("3"), Lit("c:")>>>>),
     InsertInto(users, <<"id", "ssn">>, <<<<Lit("3"), Op("fn", <<Lit("a")>>)>>>>),
     InsertInto(foreign, <<"id", "ssn">>, <<<<Lit("3"), Lit("b")>>>>),
     InsertInto(users, <<>>, <<<<Lit("3"), Lit("a")>>>>),
     InsertInto(users, <<"ssn">>, <<<<Lit("a")>>>>),
     [InsertInto(users, <<"id", "ssn">>, <<>>) EXCEPT !.query = <<IdsWhere(Of(audit), <<>>)>>],
     Upsert(<<<<Lit("01"), Lit("a")>>>>, <<Ssn>>, <<>>),
     Upsert(<<<<Lit("2"), Lit("a")>>>>, <<Excluded>>, <<>>),
     Upsert(<<<<Lit("2"), Lit("a")>>>>, <<Ssn>>, <<Eq(Col(users, "ssn"), Lit("a"))>>),
     Upsert(<<<<Lit("1"), Lit("a")>>, <<Lit("2"), Lit("a")>>>>, <<Ssn>>, <<>>),
     UpdateOf(users, <<Ssn>>, <<Is("id", "01")>>),
     UpdateOf(users, <<Ssn>>, <<Or(Is("id", "1"), Is("id", "2"))>>),
     UpdateOf(users, <<Ssn>>, <<And(Op("isnull", <<C("mail")>>), Eq(Lit("1"), C("id")))>>),
     UpdateOf(users, <<Set("ssn", Op("null", <<>>))>>, <<Is("id", "1")>>),
     UpdateOf(users, <<Set("mail", C("ssn"))>>, <<Is("id", "1")>>),
     UpdateOf(users, <<Assign(<<"ssn", "mail">>, TRUE, Op("tuple", <<Lit("b"), Lit("a")>>))>>,
              <<Is("id", "2")>>),
     UpdateOf(users, <<Assign(<<"id", "ssn">>, TRUE, Op("tuple", <<Lit("3"), Lit("b")>>))>>,
              <<Is("id", "1")>>),
     UpdateOf(users, <<Assign(<<"ssn">>, TRUE, Op("nested", <<Lit("b")>>))>>, <<Is("id", "1")>>),
     [UpdateOf(users, <<Ssn>>, <<And(Eq(Col(<<"n">>, "id"), Lit("1")),
                                     Eq(Col(<<"u">>, "id"), Lit("2")))>>) EXCEPT
        !.alias = <<"u">>, !.from = <<Only(Table(notes, <<"n">>))>>],
     [UpdateOf(audit, <<Ssn>>, <<And(Eq(Col(users, "ssn"), Lit("a")),
                                     Eq(Col(users, "id"), Col(audit, "id")))>>) EXCEPT
        !.from = <<Of(users)>>],
     UpdateOf(notes, <<Ssn>>, <<Is("ssn", "a")>>),
     UpdateOf(audit, <<Set("ssn", Query1("sub", <<>>, IdsWhere(Of(users), <<Is("ssn", "a")>>)))>>,
              <<>>)}

Deletes ==
    {DeleteFrom(users, <<Is("ssn", "a")>>),
     DeleteFrom(users, <<Op("not", <<Is("ssn", "a")>>)>>),
     DeleteFrom(users, <<Op("less", <<C("ssn"), Lit("b")>>)>>),
     DeleteFrom(audit, <<Op("not", <<Query1("insub", <<C("id")>>,
                             IdsWhere(Of(users), <<Is("ssn", "a")>>))>>)>>),
     DeleteFrom(audit, <<Query1("exists", <<>>, IdsWhere(Of(notes), <<Is("ssn", "c:")>>))>>),
     [DeleteFrom(audit, <<And(Eq(Col(users, "ssn"), Lit("a")),
                              Eq(Col(users, "id"), Col(audit, "id")))>>) EXCEPT
        !.from = <<Of(users)>>]}

-------------------------------------------------------------------------------
Lower(e) == Op("fn", <<e>>)
Renamed == Simply(Select(<<Item(C("id"), <<>>), Item(C("ssn"), <<"s">>), Item(C("phone"), <<"p">>)>>,
                         <<Of(users)>>, <<>>))
Whole == Simply(Select(<<Star>>, <<Of(users)>>, <<>>))
Bodies(b1, b2) == Body("setop", <<>>, <<>>, <<>>, <<>>, <<b1, b2>>, <<>>)
Reads ==
    {Ask(IdsWhere(Of(users), <<Is("ssn", "a")>>)),
     Ask(Simply(Select(Cols(<<"ssn", "phone">>), <<Of(users)>>, <<Is("id", "1")>>))),
     Ask(Simply(Select(<<Item(Lower(C("phone")), <<>>)>>, <<Of(users)>>, <<>>))),
     Ask(Simply(Select(<<Item(Lower(C("p")), <<>>)>>, <<Only(Derived(Renamed, <<"x">>))>>, <<>>))),
     Ask(Simply(Select(<<Item(Lower(C("phone")), <<>>)>>,
                       <<Only(Derived(Whole, <<"x">>))>>, <<>>))),
     Ask(IdsWhere(Only(Derived(Renamed, <<"x">>)), <<Is("s", "a")>>)),
     Ask(IdsWhere(Only(Derived(IdsWhere(Of(users), <<Is("ssn", "a")>>), <<"x">>)), <<>>)),
     Ask(IdsWhere(Of(users), <<Op("in", <<C("ssn"), Lit("a"), Lit("b")>>)>>)),
     Ask(IdsWhere(Of(users), <<Op("in", <<C("ssn"), Lit("a"), C("mail")>>)>>)),
     Ask(IdsWhere(Of(users), <<Op("any", <<C("ssn"), Op("array", <<Lit("a")>>)>>)>>)),
     Ask(IdsWhere(Of(users), <<Eq(C("mail"), Lit("a"))>>)),
     Ask(IdsWhere(Of(users), <<Op("distinct", <<C("ssn"), Lit("a")>>)>>)),
     Ask(IdsWhere(Of(notes), <<Eq(Safe("a"), C("ssn"))>>)),
     Ask(IdsWhere(Of(notes), <<Is("ssn", "c:")>>)),
     \* users under another name, and another table under the name users.
     Ask(Simply(Select(<<Item(Col(<<"u">>, "id"), <<>>)>>,
           <<With(Table(users, <<"u">>),
                  <<Joined(Table(notes, users), <<Eq(Col(users, "id"), Col(<<"u">>, "id"))>>)>>)>>,
           <<Eq(Col(users, "ssn"), Lit("a"))>>))),
     \* A condition of a parenthesised join, and one over both sides.
     Ask(Simply(Select(<<Item(Col(users, "id"), <<>>)>>,
           <<Only(NestedJoin(With(Table(users, <<>>),
                    <<Joined(Table(audit, <<>>), <<Eq(Col(users, "ssn"), Lit("b"))>>)>>)))>>,
           <<Eq(Col(users, "id"), Col(audit, "id"))>>))),
     Ask(Simply(Select(<<Item(Col(users, "id"), <<>>)>>,
           <<With(Table(users, <<>>),
                  <<Joined(Table(notes, <<>>), <<Eq(Col(users, "ssn"), Col(notes, "ssn"))>>)>>)>>,
           <<>>))),
     Ask(Query(<<[name |-> "w", query |-> IdsWhere(Of(users), <<Is("ssn", "a")>>)]>>,
               Select(Cols(<<"id">>), <<Of(<<"w">>)>>, <<>>), <<>>)),
     Ask(Query(<<[name |-> "w", query |-> Simply(Body("stmt", <<>>, <<>>, <<>>, <<>>, <<>>,
                   <<InsertInto(users, <<"id", "ssn">>, <<<<Lit("3"), Lit("a")>>>>)>>))]>>,
               Select(Cols(<<"id">>), <<Of(audit)>>, <<>>), <<>>)),
     Ask(Simply(Bodies(IdsWhere(Of(users), <<Is("ssn", "a")>>).body,
                       IdsWhere(Of(notes), <<Is("ssn", "a")>>).body))),
     Ask(Simply(Select(<<Item(Query1("sub", <<>>, IdsWhere(Of(users), <<Is("ssn", "a")>>)),
                              <<"n">>)>>, <<>>, <<>>)))}

CopyOf(t, query, to) ==
    [Statement EXCEPT !.k = "copy", !.table = t, !.query = query, !.to = to]
Others ==
    {CopyOf(users, <<>>, TRUE), CopyOf(users, <<>>, FALSE), CopyOf(foreign, <<>>, FALSE),
     CopyOf(audit, <<>>, TRUE),
     CopyOf(<<>>, <<Simply(Select(Cols(<<"phone">>), <<Only(Derived(Whole, <<"x">>))>>, <<>>))>>, TRUE),
     CopyOf(<<>>, <<Query(<<[name |-> "w", query |-> Whole]>>,
                          Select(Cols(<<"phone">>), <<Of(<<"w">>)>>, <<>>), <<>>)>>, TRUE),
     CopyOf(<<>>, <<Simply(Body("table", <<Of(users)>>, <<>>, <<>>, <<>>, <<>>, <<>>))>>, TRUE),
     [Statement EXCEPT !.k = "merge", !.table = users],
     [Statement EXCEPT !.k = "prepare",
        !.of = <<InsertInto(users, <<"id", "ssn">>, <<<<Lit("3"), Lit("a")>>>>)>>]}

SetTo(name, values) ==
    Setting(Spelled(Words(<<"set", name, "to">>), values, <<>>),
            <<name>> \o FlattenSeq(Each(Tail, values)))
SetEq(name, value) ==
    Setting(Words(<<"set", "session", name>>) \o <<<<"eq">>, <<"word", value>>>>, <<name, value>>)
SetConfig(name, parts) ==
    Setting(Words(<<"select", "set_config">>) \o
              <<<<"lparen">>, <<"string", name>>, <<"comma">>, <<"string">> \o parts,
                <<"comma">>, <<"word", "false">>, <<"rparen">>>>, <<name>> \o parts)
SetConfigOf(name, parts) ==
    Setting(Words(<<"select", "set_config">>) \o
              <<<<"lparen">>, <<"word", "name">>, <<"comma">>, <<"string">> \o parts,
                <<"comma">>, <<"word", "false">>, <<"rparen">>>>, <<name>> \o parts)
SetSchema(schema) ==
    Setting(Words(<<"set", "schema">>) \o <<<<"string", schema>>>>, <<"search_path", schema>>)
Strings == "standard_conforming_strings"
Settings ==
    {SetTo("search_path", Words(<<"other", "public">>)),
     SetTo("search_path", <<<<"quoted", "$user">>, <<"word", "public">>>>),
     SetTo("search_path", Words(<<"public", "other">>)),
     SetEq(Strings, "off"), SetEq(Strings, "on"),
     SetConfig("search_path", <<"other", "public">>), SetConfig(Strings, <<"off">>),
     SetConfigOf("search_path", <<"other">>)}

Text(stmts) == [utf8 |-> TRUE, parses |-> TRUE, stmts |-> stmts]
MCTexts ==
    {Text(<<s>>) : s \in Writes0 \cup Deletes \cup Reads \cup Others \cup Settings}
    \cup {Text(<<UpdateOf(users, <<Ssn>>, <<Is("id", "1")>>),
                 SetTo("search_path", Words(<<"other">>))>>),
          Text(<<SetEq(Strings, "off"), InsertInto(notes, <<"id", "ssn">>, <<<<Lit("3"), Lit("c:")>>>>)>>),
          [Text(<<SetSchema("other")>>) EXCEPT !.parses = FALSE],
          [Text(<<UpdateOf(users, <<Ssn>>, <<>>)>>) EXCEPT !.utf8 = FALSE]}

MCPrepared ==
    {Text(<<s>>) : s \in
       {InsertInto(users, <<"id", "ssn">>, <<<<Param("$1"), Param("$2")>>>>),
        InsertInto(users, <<"id", "ssn">>, <<<<Param("$1"), Lit("a")>>>>),
        UpdateOf(users, <<Set("ssn", Param("$2"))>>, <<Eq(C("id"), Param("$1"))>>),
        UpdateOf(users, <<Set("ssn", Param("$2"))>>, <<Is("id", "1")>>),
        UpdateOf(notes, <<Set("ssn", Param("$2"))>>, <<Eq(C("ssn"), Param("$2"))>>),
        Ask(IdsWhere(Of(notes), <<Eq(C("ssn"), Param("$2"))>>)),
        Ask(IdsWhere(Of(notes), <<Op("any", <<C("ssn"), Param("$3")>>)>>)),
        SetTo("search_path", Words(<<"other">>))}}
MCBindings ==
    {("$1" :> k) @@ ("$2" :> v) @@ ("$3" :> <<"array", "a", "b">>) :
       k \in {<<"plain", "01">>, <<"plain", "3">>, <<"plain", "a">>, Null},
       v \in {<<"plain", "a">>, Null}}
    \cup {("$1" :> Null) @@ ("$2" :> Null) @@ ("$3" :> <<"matrix", "a">>)}
MCStartups ==
    {{}, {<<"search_path", "public">>}, {<<"search_path", "other">>}, {<<Strings, "off">>},
     {<<"options", "search_path">>}, {<<"options", Strings>>, <<Strings, "on">>}}
-------------------------------------------------------------------------------
(* Codec *)

UpTo(S, n) == UNION {[1..k -> S] : k \in 0..n}
MCMessages ==
    {m \in [portal : {<<>>, <<2>>}, statement : {<<>>, <<2>>}, formats : UpTo({0, 1}, 2),
            params : UpTo({None, <<>>, <<5>>}, 2), results : UpTo({0, 1}, 1)] :
        /\ Len(m.formats) \in {0, 1, Len(m.params)}
        /\ m.portal # <<>> => m.statement # <<>> /\ m.results # <<>>}
MCSqlPieces ==
    {<<"a">>, <<"e", "'">>, <<"'">>, <<Slash>>, <<";">>, <<"-", "-">>, <<"newline">>,
     <<"/", "*">>, <<"*", "/">>, <<"$", "$">>}
NamePieces == {<<"-", "-", "newline">>, <<";">>, <<"a">>, <<"$", "$">>}

VARIABLE part

MCInit ==
    /\ Init
    /\ \/ part = "sql" /\ subject = "sql" /\ sent = None /\ input = <<>>
       \/ /\ part = "codec" /\ CodecInit
          /\ reject /\ q = startup_settings({}) /\ server = StartedWith({})
MCNext ==
    \/ part = "sql" /\ Next /\ UNCHANGED <<part, codecVars>>
    \/ part = "codec" /\ CodecNext /\ UNCHANGED <<part, vars>>
MCSpec == MCInit /\ [][MCNext]_<<part, vars, codecVars>>

===============================================================================
