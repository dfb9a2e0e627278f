------------------------------- MODULE RowRead -------------------------------
(***************************************************************************)
(* Reading rows: what Resolved::protected and decrypt_row                  *)
(* (crates/proxy/src/rows.rs) make of a result set, over a table whose     *)
(* rows are written by clients of the proxy, before and during the         *)
(* migration to row binding, and edited behind its back.                   *)
(*                                                                         *)
(* A query reads one or two instances of the table.  A field of its result *)
(* is an instance and a column; the wire gives the proxy the column only.  *)
(***************************************************************************)
EXTENDS Envelope, Functions

CONSTANTS
    Rows,           \* the physical rows of the table
    Keys,           \* values of its row key
    Texts,          \* plaintexts of its protected columns
    Long,           \* the plaintexts whose sealed form exceeds MaxValue
    Plans,          \* sequences of configurations, deployed one after the other
    Projections,    \* the field lists of the queries
    MaxValue,       \* max_protected_value_bytes
    MaxBody,        \* the largest body of a frame
    MaxEdits        \* bound on the changes of the table

Table == "users"
Columns == {"id", "ssn", "note"}

\* None is no value and no name.
ASSUME NoValueAssumption ==
    /\ None \notin Columns
    /\ \A t \in Texts \cup Keys : Plain(t) # None

\* The key of the table is its id, where a configuration declares one.
ASSUME PlansAssumption ==
    \A p \in Plans :
        /\ Len(p) \in Nat \ {0}
        /\ \A i \in 1..Len(p) :
               /\ \A j \in 1..Len(p[i].columns) :
                      p[i].columns[j].transform \in {"encrypt", "fpe", "token", "none"}
               /\ TableEntry(p[i], Table) # None => TableEntry(p[i], Table).row_key = "id"

ASSUME ProjectionsAssumption ==
    \A fields \in Projections :
        /\ Len(fields) \in Nat
        /\ \A i \in 1..Len(fields) : fields[i].column \in Columns /\ fields[i].from \in {1, 2}

VARIABLES
    plan,           \* the configurations of the proxy, as resolved
    stage,          \* the one in force
    retyped,        \* the key column has another type than when it was resolved
    cells,          \* the stored table: a row to its columns
    written,        \* <<key, column, text>>: what clients have written
    edited,         \* the table was changed behind the proxy's back
    edits           \* how many changes were made

vars == <<plan, stage, retyped, cells, written, edited, edits>>

\* What a policy configures: the column map, and the key of the table
\* (Policy::build, row_keys).
ResolvedPolicy(policy) ==
    [columns |-> [c \in Columns |-> ProtectedColumn(policy, Table, c)],
     key |-> LET entry == TableEntry(policy, Table)
             IN  IF entry = None THEN None ELSE entry.row_key]

Column(c) == plan[stage].columns[c]
KeyColumn == plan[stage].key

-----------------------------------------------------------------------------
(* The description: Resolved::protected and row_key_ref *)

\* Resolved::row_key_ref: where the key of the table is, if that is certain.
row_key_ref(fields) ==
    LET matches == {i \in 1..Len(fields) : fields[i].column = KeyColumn}
    IN  IF matches = {} THEN [kind |-> "Absent", at |-> 0]
        ELSE IF Cardinality(matches) > 1 THEN [kind |-> "Ambiguous", at |-> 0]
        ELSE IF retyped THEN [kind |-> "TypeChanged", at |-> 0]
        ELSE [kind |-> "Slot", at |-> CHOOSE i \in matches : TRUE]

\* Resolved::protected: the positions that hold a protected column.
protected(fields) == {i \in 1..Len(fields) : Column(fields[i].column) # None}

-----------------------------------------------------------------------------
(* decrypt_row *)

\* A sealed value has a header, and a mask may be a longer character.
Size(value) ==
    IF value = None THEN 0
    ELSE LET length == IF value.text \in Long THEN 3 ELSE 1
         IN  CASE value.form = "sealed" -> length + 2
               [] value.form = "masked" -> length * 2
               [] OTHER -> length

BodySize(values) == SumFunction([i \in DOMAIN values |-> Size(values[i])])

\* rowkey::canonical, of what the row holds; read_row_key.
read_row_key(at, values) ==
    IF values[at] = None THEN Err("RowKeyType") ELSE Ok(values[at])

\* RowKeyOnce::read: the key, none, or why it could not be read.
RowKeyOnce(key, values) == IF key.kind = "Slot" THEN read_row_key(key.at, values) ELSE Ok(None)

\* attribute_open_failure.
attribute_open_failure(why, keyed, repeated) ==
    IF why = "Decrypt" /\ keyed
    THEN IF repeated THEN "AmbiguousRowInstance" ELSE "RowBindingFailed"
    ELSE why

\* The columns that came back at more than one position.
Repeated(fields, i) ==
    \E j \in 1..Len(fields) : j # i /\ fields[j].column = fields[i].column

\* Mutant of OpenAt: a value that lacks its key is passed on.
OpenAtRelaying(fields, key, values, i) ==
    LET c == Column(fields[i].column)
        row == RowKeyOnce(key, values)
        opened == Open(c, values[i], IF row.ok THEN row.value ELSE None)
    IN  IF opened.ok THEN opened
        ELSE IF opened.error = "RowKeyMissing" THEN Ok(None)
        ELSE Err(attribute_open_failure(opened.error, row.ok /\ row.value # None,
                                        Repeated(fields, i)))

\* One value opened against the key of its row, against none, or against one
\* that could not be read: then that is why a row-bound value does not open.
OpenAt(fields, key, values, i) ==
    LET c == Column(fields[i].column)
        row == RowKeyOnce(key, values)
        opened == Open(c, values[i], IF row.ok THEN row.value ELSE None)
    IN  IF opened.ok THEN opened
        ELSE IF ~row.ok /\ opened.error = "RowKeyMissing" THEN row
        ELSE Err(attribute_open_failure(opened.error, row.ok /\ row.value # None,
                                        Repeated(fields, i)))

\* Mutant of Shown: only what was opened is masked.
ShownOpened(c, stored, opened) ==
    IF opened = None THEN stored ELSE IF c.mask THEN Masked(opened) ELSE opened

\* What the client gets in place of a value: the opened or the stored form,
\* masked if the column is.
Shown(c, stored, opened) ==
    LET seen == IF opened = None THEN stored ELSE opened
    IN  IF c.mask THEN Masked(seen) ELSE seen

\* What one round of the loop puts at a position, or why it ends the loop there.
ReadAt(fields, key, values, i) ==
    LET c == Column(fields[i].column)
        opened == IF c.transform = "none" THEN Ok(None) ELSE OpenAt(fields, key, values, i)
    IN  IF values[i] = None THEN Ok(None)
        ELSE IF Size(values[i]) > MaxValue THEN Err("ProtectedValueTooLarge")
        ELSE IF opened.ok THEN Ok(Shown(c, values[i], opened.value))
        ELSE opened

\* The row once the positions up to i are replaced.
RowUpTo(values, reads, i) ==
    [j \in DOMAIN values |->
        IF j \in DOMAIN reads /\ j <= i /\ reads[j].ok THEN reads[j].value ELSE values[j]]

\* The value does not open, or the row has grown too long with it.
FailureAt(values, reads, i) ==
    IF ~reads[i].ok THEN reads[i].error
    ELSE IF values[i] # None /\ BodySize(RowUpTo(values, reads, i)) > MaxBody
         THEN "FrameTooLarge"
    ELSE "none"

Refused(why) == [row |-> << >>, error |-> why]

\* RowDecryptor::decrypt_row: the row the client gets, or the first error.
decrypt_row(fields, values) ==
    LET key == row_key_ref(fields)
        positions == protected(fields)
        reads == [i \in positions |-> ReadAt(fields, key, values, i)]
        failed == {i \in DOMAIN reads : FailureAt(values, reads, i) # "none"}
    IN  IF positions = {} THEN [row |-> values, error |-> "none"]
        ELSE IF key.kind = "Ambiguous" THEN Refused("AmbiguousRowKey")
        ELSE IF key.kind = "TypeChanged" THEN Refused("RowKeyType")
        ELSE IF failed # {}
             THEN Refused(FailureAt(values, reads,
                                    CHOOSE i \in failed : \A j \in failed : i <= j))
        ELSE [row |-> RowUpTo(values, reads, Len(fields)), error |-> "none"]

\* is_refusal: these answer the client; the others only end the session.
Refusals ==
    {"ProtectedValueTooLarge", "FrameTooLarge", "AmbiguousRowKey",
     "AmbiguousRowInstance", "RowKeyMissing", "RowKeyType", "RowBindingDowngraded"}

-----------------------------------------------------------------------------
(* The table and who changes it *)

\* Config::validated refuses any other configuration.
Start(plans) ==
    /\ \E p \in plans :
           /\ \A i \in 1..Len(p) : validate(p[i])
           /\ plan = [i \in 1..Len(p) |-> ResolvedPolicy(p[i])]
    /\ stage = 1
    /\ retyped = FALSE
    /\ cells = [r \in Rows |-> [c \in Columns |-> None]]
    /\ written = {}
    /\ edited = FALSE
    /\ edits = 0

Init == Start(Plans)

Edit == edits < MaxEdits /\ edits' = edits + 1

HasKey(r) == cells[r]["id"] # None
Free(k) == \A r \in Rows : HasKey(r) => cells[r]["id"].text # k

\* What the write path stores: bound to the row when it knows it.
Stored(column, text, row) ==
    LET c == Column(column)
    IN  IF c = None THEN Ok(Plain(text))
        ELSE IF c.transform = "none" THEN Ok(Plain(text))
        ELSE Seal(c, text, row)

\* A client inserts a row, with its key only.
InsertRow(r, k) ==
    /\ Edit /\ ~HasKey(r) /\ Free(k)
    /\ Stored("id", k, None).ok
    /\ cells' = [cells EXCEPT ![r]["id"] = Stored("id", k, None).value]
    /\ UNCHANGED <<plan, stage, retyped, written, edited>>

\* The key a statement names the row by.
KeyOf(r) == Plain(cells[r]["id"].text)

\* A client writes a value; a write that cannot name its row is not bound.
WriteValue(r, column, text, named) ==
    /\ Edit /\ HasKey(r) /\ column # "id"
    /\ named \in (IF KeyColumn = None THEN {FALSE} ELSE BOOLEAN)
    /\ LET stored == Stored(column, text, IF named THEN KeyOf(r) ELSE None)
       IN  /\ stored.ok
           /\ cells' = [cells EXCEPT ![r][column] = stored.value]
    /\ written' = written \cup {<<KeyOf(r), column, text>>}
    /\ UNCHANGED <<plan, stage, retyped, edited>>

\* A stored value is copied to another cell, in the database.
Copy(r, column, s, target) ==
    /\ Edit /\ <<r, column>> # <<s, target>>
    /\ column # "id" /\ target # "id" /\ HasKey(s)
    /\ cells[r][column] # None
    /\ cells' = [cells EXCEPT ![s][target] = cells[r][column]]
    /\ edited' = TRUE
    /\ UNCHANGED <<plan, stage, retyped, written>>

\* A row gets another key: what is bound to the old one stays behind.
Rekey(r, k) ==
    /\ Edit /\ HasKey(r) /\ Free(k)
    /\ cells' = [cells EXCEPT ![r]["id"] = Plain(k)]
    /\ edited' = TRUE
    /\ UNCHANGED <<plan, stage, retyped, written>>

\* The type of the key column is altered.
Retype ==
    /\ Edit /\ KeyColumn # None
    /\ retyped' = TRUE
    /\ UNCHANGED <<plan, stage, cells, written, edited>>

\* The operator deploys the next configuration, which is resolved anew.
Migrate ==
    /\ stage < Len(plan)
    /\ stage' = stage + 1
    /\ retyped' = FALSE
    /\ UNCHANGED <<plan, cells, written, edited, edits>>

Next ==
    \/ \E r \in Rows, k \in Keys : InsertRow(r, k) \/ Rekey(r, k)
    \/ \E r \in Rows, c \in Columns, t \in Texts, n \in BOOLEAN : WriteValue(r, c, t, n)
    \/ \E r, s \in Rows, c, d \in Columns : Copy(r, c, s, d)
    \/ Retype \/ Migrate

Spec == Init /\ [][Next]_vars

-----------------------------------------------------------------------------
(* Queries: instance 1 is a row, and 2 a row or, in an outer join, none *)

Joins == [{1, 2} -> Rows \cup {None}]

Values(fields, join) ==
    [i \in 1..Len(fields) |->
        IF join[fields[i].from] = None THEN None
        ELSE cells[join[fields[i].from]][fields[i].column]]

Answer(fields, join) == decrypt_row(fields, Values(fields, join))

Encrypted(column) ==
    LET c == Column(column)
    IN  c # None /\ c.transform = "encrypt"

\* No query, whatever it joins and projects, gets a stored envelope: an
\* encrypted column is opened, or was never sealed, or the row is not sent.
NeverSealedForm ==
    \A fields \in Projections, join \in Joins :
        \A i \in 1..Len(fields) :
            Encrypted(fields[i].column) /\ Values(fields, join)[i] # None =>
                LET answer == Answer(fields, join)
                IN  answer.error = "none" => answer.row[i].form # "sealed"

\* A masked column is never sent unmasked.
NeverUnmasked ==
    \A fields \in Projections, join \in Joins :
        \A i \in 1..Len(fields) :
            Column(fields[i].column) # None /\ Column(fields[i].column).mask =>
                LET answer == Answer(fields, join)
                IN  answer.error = "none" /\ answer.row[i] # None
                        => answer.row[i].form = "masked"

\* A query selects a sealed value of a strict column, and the key of its row.
StrictlyRead(fields, join, i, k) ==
    LET values == Values(fields, join)
    IN  /\ Encrypted(fields[i].column) /\ Column(fields[i].column).strict
        /\ fields[k].column = KeyColumn /\ fields[k].from = fields[i].from
        /\ values[i] # None /\ values[i].form = "sealed"

\* Once the window is closed (strict_row_binding), an encrypted value that a
\* query reads with its row's key was written to that row and column by a
\* client, whatever was copied or rekeyed since.
ReadWhereWritten ==
    \A fields \in Projections, join \in Joins :
        \A i, k \in 1..Len(fields) :
            StrictlyRead(fields, join, i, k) /\ Answer(fields, join).error = "none" =>
                LET values == Values(fields, join)
                IN  <<values[k], fields[i].column, values[i].text>> \in written

\* Whether every sealed value is bound as the configuration in force demands.
Migrated ==
    \A r \in Rows, column \in Columns :
        LET c == Column(column)
            stored == cells[r][column]
        IN  c # None /\ stored # None /\ c.strict => stored.form # "sealed" \/ stored.version = "DBS3"

Fits(r) == \A c \in Columns : cells[r][c] = None \/ cells[r][c].text \notin Long

\* What a client should see of a stored value.
Expected(column, stored) ==
    LET c == Column(column)
    IN  IF c = None \/ stored = None THEN stored
        ELSE LET seen == IF c.readable THEN Plain(stored.text) ELSE stored
             IN  IF c.mask THEN Masked(seen) ELSE seen

\* A table nobody edited reads back through every stage of the migration: a
\* query of one row that selects the key once gets every value that was written.
ReadsBack ==
    ~edited /\ ~retyped /\ Migrated =>
        \A fields \in Projections, r \in Rows :
            /\ Fits(r)
            /\ HasKey(r)
            /\ \A i \in 1..Len(fields) : fields[i].from = 1
            /\ Cardinality({i \in 1..Len(fields) : fields[i].column = "id"}) = 1
            => Answer(fields, [n \in {1, 2} |-> r])
                 = [row |-> [i \in 1..Len(fields) |->
                                Expected(fields[i].column, cells[r][fields[i].column])],
                    error |-> "none"]

\* A failure that the client could avoid by rewriting its query is a refusal.
ClientFaultsRefused ==
    ~edited =>
        \A fields \in Projections, join \in Joins :
            Answer(fields, join).error \in Refusals \cup {"none"}

=============================================================================
