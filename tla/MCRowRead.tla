------------------------------ MODULE MCRowRead ------------------------------
(***************************************************************************)
(* Two rows of one table: a migration from no protection to strict row     *)
(* binding, and every configuration of one or two columns; and records     *)
(* whose protection is derived, under policies that differ from theirs.    *)
(***************************************************************************)
EXTENDS RowRead, Derive, TLC

Entry(column, transform, searchable, mask) ==
    [table |-> "users", column |-> column, transform |-> transform,
     searchable |-> searchable, detokenize |-> TRUE, mask |-> mask]

Ssn == Entry("ssn", "encrypt", FALSE, FALSE)
Note == Entry("note", "encrypt", TRUE, TRUE)
Id == Entry("id", "none", FALSE, TRUE)
KeyEntry(strict) == [table |-> "public.users", row_key |-> "id", strict |-> strict]

Migration ==
    <<[columns |-> << >>, tables |-> << >>],
      [columns |-> <<Ssn, Note, Id>>, tables |-> << >>],
      [columns |-> <<Ssn, Note, Id>>, tables |-> <<KeyEntry(FALSE)>>],
      [columns |-> <<Ssn, Note, Id>>, tables |-> <<KeyEntry(TRUE)>>]>>

AnyEntry ==
    [table : {"users"}, column : {"ssn", "id"}, transform : {"encrypt", "fpe", "token", "none"},
     searchable : BOOLEAN, detokenize : BOOLEAN, mask : {FALSE}]

Singles ==
    {<<[columns |-> cs, tables |-> ts]>> :
        cs \in {<<a, b>> : a \in AnyEntry, b \in AnyEntry \cup {Id, Note}},
        ts \in {<< >>, <<KeyEntry(TRUE)>>}}

MCPlans == {Migration} \cup Singles

Interchangeable == Permutations(Rows) \cup Permutations(Keys)

F(n, column) == [from |-> n, column |-> column]

MCProjections ==
    {<<F(1, "ssn")>>, <<F(1, "id"), F(1, "ssn")>>, <<F(1, "note"), F(1, "id"), F(1, "ssn")>>,
     <<F(1, "ssn"), F(1, "id"), F(1, "ssn")>>, <<F(1, "id"), F(1, "ssn"), F(2, "ssn")>>,
     <<F(1, "id"), F(2, "ssn")>>, <<F(1, "id"), F(1, "ssn"), F(2, "id"), F(2, "ssn")>>}

-----------------------------------------------------------------------------
(* Derived records *)

Field(ident, type, metas) == [ident |-> ident, type |-> type, metas |-> metas]
Declared(item, table, key, fields) ==
    [item |-> item, table |-> table, row_key |-> key, fields |-> fields]

IdField == Field("id", <<"i64">>, None)
Kinds == {"encrypt", "fpe", "token", "none"}

MCDeclarations ==
    {Declared("struct", "users", key,
        <<IdField, Field("ssn", <<"String">>, <<<<"kind", kind>>, <<"mask">>>>),
          Field("note", <<"Option", "Vec">>, << >>)>>) : key \in {None, "id"}, kind \in Kinds}
    \cup {Declared("struct", "users", "id", <<IdField, Field("ssn", <<"String">>, metas)>>) :
            metas \in {<<<<"searchable", TRUE>>, <<"column", "code">>>>, <<<<"unknown">>>>,
                       <<<<"kind", "fpe">>, <<"detokenize", FALSE>>>>}}
    \cup {Declared("enum", "users", None, << >>), Declared("struct", None, None, <<IdField>>),
          Declared("struct", "users", None, <<IdField>>),
          Declared("struct", "users", "ssn", <<Field("ssn", <<"String">>, << >>)>>),
          Declared("struct", "users", None, <<Field("ssn", <<"Option", "Option">>, << >>)>>)}

Deployed(transform, searchable, tables) ==
    [columns |-> <<Entry("ssn", transform, searchable, transform = "none"), Note>>,
     tables |-> tables]

MCDeployments ==
    {Deployed(t, s, ts) : t \in Kinds, s \in BOOLEAN, ts \in {<< >>, <<KeyEntry(TRUE)>>}}

VARIABLE part

Simplest == Declared("struct", "users", "id", <<IdField, Field("ssn", <<"String">>, << >>)>>)

MCInit ==
    /\ part \in {"proxy", "derive"}
    /\ IF part = "proxy" THEN DeriveStart({Simplest}) /\ deployed = policy(derived) /\ Init
       ELSE Start({Migration}) /\ DeriveInit

MCNext ==
    \/ part = "proxy" /\ Next /\ UNCHANGED <<part, deriveVars>>
    \/ part = "derive" /\ DeriveNext /\ UNCHANGED <<part, vars>>

MCSpec == MCInit /\ [][MCNext]_<<part, vars, deriveVars>>

=============================================================================
