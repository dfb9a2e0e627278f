---------------------------- MODULE RowReadProofs ----------------------------
(***************************************************************************)
(* Proofs about module RowRead, for any table, any plan of configurations, *)
(* any queries and any limits.                                             *)
(***************************************************************************)
EXTENDS RowRead, FiniteSetTheorems, WellFoundedInduction, TLAPS

Words == Texts \cup Keys
NameOf(c) == <<"public.users", c>>

\* A configured column carries its own name, which is what it seals with.
PlanInv ==
    /\ stage \in 1..Len(plan) /\ Len(plan) \in Nat
    /\ \A i \in 1..Len(plan) :
           /\ plan[i].key \in {None, "id"}
           /\ \A c \in Columns : plan[i].columns[c] # None =>
                  /\ plan[i].columns[c].name = NameOf(c)
                  /\ plan[i].columns[c].transform \in {"encrypt", "fpe", "token", "none"}

\* A value bound to a row was written by a client: to that row and to the column
\* it names, wherever it is now.
WrittenAs(e, w) ==
    e.form = "sealed" /\ e.version = "DBS3" =>
        \E d \in Columns : e.column = NameOf(d) /\ <<e.row, d, e.text>> \in w

CellsInv ==
    /\ cells = [r \in Rows |-> [c \in Columns |-> cells[r][c]]]
    /\ \A r \in Rows, c \in Columns : cells[r][c] # None =>
           /\ cells[r][c].text \in Words
           /\ WrittenAs(cells[r][c], written)
           /\ HasKey(r)

\* The inductive invariant.
RowReadInv == PlanInv /\ CellsInv

\* The column that ProtectedColumn finds has the name it was asked for.
LEMMA ColumnFound ==
    ASSUME NEW p \in Plans, NEW i \in 1..Len(p), NEW c \in Columns,
           ProtectedColumn(p[i], Table, c) # None
    PROVE  /\ ProtectedColumn(p[i], Table, c).name = NameOf(c)
           /\ ProtectedColumn(p[i], Table, c).transform \in {"encrypt", "fpe", "token", "none"}
<1> DEFINE of == {j \in ColumnsOf(p[i], Table) : p[i].columns[j].column = c}
           at == CHOOSE j \in of : TRUE
<1>1. of # {} /\ ProtectedColumn(p[i], Table, c) = build(p[i], p[i].columns[at])
  BY DEF ProtectedColumn
<1>2. at \in of
  BY <1>1
<1>3. /\ at \in 1..Len(p[i].columns) /\ Qualified(p[i].columns[at].table) = Qualified(Table)
      /\ p[i].columns[at].column = c
  BY <1>2, ZenonT(30) DEF ColumnsOf
<1>4. p[i].columns[at].transform \in {"encrypt", "fpe", "token", "none"}
  BY <1>3, PlansAssumption, Zenon
<1> HIDE DEF at, of
<1>5. QualifiedName(p[i].columns[at]) = NameOf(c)
  BY <1>3 DEF QualifiedName, Qualified, Table, NameOf
<1>6. /\ build(p[i], p[i].columns[at]).name = QualifiedName(p[i].columns[at])
      /\ build(p[i], p[i].columns[at]).transform = p[i].columns[at].transform
  BY DEF build
<1> QED
  BY <1>1, <1>4, <1>5, <1>6

LEMMA InitRowRead == Init => RowReadInv
<1> SUFFICES ASSUME Init PROVE RowReadInv
  OBVIOUS
<1>1. PICK p \in Plans : plan = [i \in 1..Len(p) |-> ResolvedPolicy(p[i])]
  BY DEF Init, Start
<1>2. Len(p) \in Nat \ {0} /\ Len(plan) = Len(p)
  BY <1>1, PlansAssumption
<1>3. ASSUME NEW i \in 1..Len(plan)
      PROVE  /\ plan[i].key \in {None, "id"}
             /\ \A c \in Columns : plan[i].columns[c] # None =>
                    /\ plan[i].columns[c].name = NameOf(c)
                    /\ plan[i].columns[c].transform \in {"encrypt", "fpe", "token", "none"}
  <2>1. plan[i] = ResolvedPolicy(p[i]) /\ i \in 1..Len(p)
    BY <1>1, <1>2
  <2>2. plan[i].key \in {None, "id"}
    BY <2>1, PlansAssumption DEF ResolvedPolicy
  <2>3. \A c \in Columns : plan[i].columns[c] = ProtectedColumn(p[i], Table, c)
    BY <2>1 DEF ResolvedPolicy
  <2> QED
    BY <2>1, <2>2, <2>3, ColumnFound
<1>4. PlanInv
  <2>1. stage \in 1..Len(plan) /\ Len(plan) \in Nat
    BY <1>2 DEF Init, Start
  <2> QED
    BY <1>3, <2>1 DEF PlanInv
<1>5. CellsInv
  <2>1. cells = [r \in Rows |-> [c \in Columns |-> None]]
    BY DEF Init, Start
  <2>2. \A r \in Rows, c \in Columns : cells[r][c] = None
    BY <2>1
  <2> QED
    BY <2>1, <2>2 DEF CellsInv
<1> QED
  BY <1>4, <1>5 DEF RowReadInv

\* What the write path stores: the text, and in a bound value the column and the
\* row it was written for.
LEMMA StoredFacts ==
    ASSUME PlanInv, NEW column \in Columns, NEW text, NEW row, Stored(column, text, row).ok
    PROVE  /\ Stored(column, text, row).value.text = text
           /\ LET e == Stored(column, text, row).value
              IN  e.form = "sealed" /\ e.version = "DBS3" =>
                      row # None /\ e.column = NameOf(column) /\ e.row = row
<1> DEFINE c == Column(column)
<1>1. c # None => c.name = NameOf(column) /\ c.transform \in {"encrypt", "fpe", "token", "none"}
  BY DEF PlanInv, Column
<1> HIDE DEF c
<1>2. CASE c = None \/ c.transform = "none"
  BY <1>2 DEF Stored, Ok, Plain, c
<1>3. CASE c # None /\ c.transform = "encrypt"
  <2>1. Stored(column, text, row).value = [encrypt(c.name, row, text) EXCEPT
            !.index = IF c.searchable THEN Index(c.name, text) ELSE None]
    BY <1>3 DEF Stored, Seal, EncryptSeal, Ok, c
  <2> QED
    BY <1>1, <1>3, <2>1 DEF encrypt
<1>4. CASE c # None /\ c.transform = "fpe"
  BY <1>4 DEF Stored, Seal, FpeSeal, Ok, Err, c
<1>5. CASE c # None /\ c.transform = "token"
  BY <1>5 DEF Stored, Seal, TokenSeal, Ok, c
<1> QED
  BY <1>1, <1>2, <1>3, <1>4, <1>5

\* One cell is replaced: by a value that was written as it is bound, in a row
\* with a key.
LEMMA CellReplaced ==
    ASSUME CellsInv, NEW s \in Rows, NEW t \in Columns, NEW e,
           cells' = [cells EXCEPT ![s][t] = e], written \subseteq written',
           e # None => e.text \in Words /\ WrittenAs(e, written') /\ (t = "id" \/ HasKey(s)),
           t = "id" => (e # None \/ ~HasKey(s))
    PROVE  CellsInv'
<1>1. /\ cells' = [r \in Rows |-> [c \in Columns |-> cells'[r][c]]]
      /\ \A r \in Rows, c \in Columns :
             cells'[r][c] = IF r = s /\ c = t THEN e ELSE cells[r][c]
  BY Zenon DEF CellsInv
<1>2. ASSUME NEW r \in Rows, NEW c \in Columns, cells'[r][c] # None
      PROVE  cells'[r][c].text \in Words /\ WrittenAs(cells'[r][c], written') /\ HasKey(r)'
  <2>1. CASE r = s /\ c = t
    BY <1>1, <1>2, <2>1 DEF HasKey, Columns
  <2>2. CASE ~(r = s /\ c = t)
    <3>1. /\ cells'[r][c] = cells[r][c] /\ cells[r][c].text \in Words
          /\ WrittenAs(cells[r][c], written) /\ HasKey(r)
      BY <1>1, <1>2, <2>2 DEF CellsInv
    <3>2. WrittenAs(cells'[r][c], written')
      BY <3>1 DEF WrittenAs
    <3>3. HasKey(r)'
      BY <1>1, <3>1 DEF HasKey, Columns
    <3> QED
      BY <3>1, <3>2, <3>3
  <2> QED
    BY <2>1, <2>2
<1> QED
  BY <1>1, <1>2, Zenon DEF CellsInv

\* The steps that leave the configuration, or the table, alone.
LEMMA PlanKept == ASSUME PlanInv, UNCHANGED <<plan, stage>> PROVE PlanInv'
BY DEF PlanInv

LEMMA CellsKept == ASSUME CellsInv, UNCHANGED <<cells, written>> PROVE CellsInv'
BY DEF CellsInv, HasKey

\* Every step preserves the invariant: a value is stored with the column and the
\* row it is written for, and an edit only moves values about.
LEMMA NextRowRead == RowReadInv /\ [Next]_vars => RowReadInv'
<1> SUFFICES ASSUME RowReadInv, [Next]_vars PROVE RowReadInv'
  OBVIOUS
<1>1. ASSUME NEW r \in Rows, NEW k \in Keys, InsertRow(r, k) PROVE RowReadInv'
  <2>1. PICK e : e = Stored("id", k, None).value
    OBVIOUS
  <2>2. e.text = k /\ ~(e.form = "sealed" /\ e.version = "DBS3")
    BY <1>1, <2>1, StoredFacts DEF RowReadInv, InsertRow, Columns
  <2>3. /\ cells' = [cells EXCEPT ![r]["id"] = e] /\ written' = written /\ ~HasKey(r)
        /\ UNCHANGED <<plan, stage>>
    BY <1>1, <2>1 DEF InsertRow
  <2>4. CellsInv'
    BY <2>2, <2>3, CellReplaced, Zenon DEF RowReadInv, WrittenAs, Words, Columns
  <2> QED
    BY <2>3, <2>4, PlanKept DEF RowReadInv
<1>2. ASSUME NEW r \in Rows, NEW k \in Keys, Rekey(r, k) PROVE RowReadInv'
  <2>1. /\ cells' = [cells EXCEPT ![r]["id"] = Plain(k)] /\ written' = written
        /\ UNCHANGED <<plan, stage>>
    BY <1>2 DEF Rekey
  <2>2. /\ Plain(k) # None /\ Plain(k).text \in Words
        /\ WrittenAs(Plain(k), written')
    BY NoValueAssumption DEF Plain, Words, WrittenAs
  <2>3. CellsInv'
    BY <2>1, <2>2, CellReplaced, Zenon DEF RowReadInv, Columns
  <2> QED
    BY <2>1, <2>3, PlanKept DEF RowReadInv
<1>3. ASSUME NEW r \in Rows, NEW c \in Columns, NEW t \in Texts, NEW n \in BOOLEAN,
             WriteValue(r, c, t, n)
      PROVE  RowReadInv'
  <2>1. PICK row : row = IF n THEN KeyOf(r) ELSE None
    OBVIOUS
  <2>2. PICK e : e = Stored(c, t, row).value
    OBVIOUS
  <2>3. /\ Stored(c, t, row).ok /\ HasKey(r) /\ c # "id"
        /\ cells' = [cells EXCEPT ![r][c] = e]
        /\ written' = written \cup {<<KeyOf(r), c, t>>}
        /\ UNCHANGED <<plan, stage>>
    BY <1>3, <2>1, <2>2 DEF WriteValue
  <2>4. /\ e.text = t
        /\ e.form = "sealed" /\ e.version = "DBS3" =>
               row # None /\ e.column = NameOf(c) /\ e.row = row
    BY <2>2, <2>3, StoredFacts DEF RowReadInv
  <2>5. WrittenAs(e, written')
    <3>1. row # None => row = KeyOf(r)
      BY <2>1
    <3> QED
      BY <2>3, <2>4, <3>1 DEF WrittenAs
  <2>6. CellsInv'
    BY <2>3, <2>4, <2>5, CellReplaced, Zenon DEF RowReadInv, Words
  <2> QED
    BY <2>3, <2>6, PlanKept DEF RowReadInv
<1>4. ASSUME NEW r \in Rows, NEW s \in Rows, NEW c \in Columns, NEW d \in Columns,
             Copy(r, c, s, d)
      PROVE  RowReadInv'
  <2>1. PICK e : e = cells[r][c]
    OBVIOUS
  <2>2. /\ HasKey(s) /\ d # "id" /\ e # None /\ written' = written
        /\ cells' = [cells EXCEPT ![s][d] = e] /\ UNCHANGED <<plan, stage>>
    BY <1>4, <2>1 DEF Copy
  <2>3. e.text \in Words /\ WrittenAs(e, written')
    BY <2>1, <2>2 DEF RowReadInv, CellsInv
  <2>4. CellsInv'
    BY <2>2, <2>3, CellReplaced, Zenon DEF RowReadInv
  <2> QED
    BY <2>2, <2>4, PlanKept DEF RowReadInv
<1>5. CASE Retype \/ UNCHANGED vars
  <2>1. UNCHANGED <<plan, stage, cells, written>>
    BY <1>5 DEF Retype, vars
  <2> QED
    BY <2>1, PlanKept, CellsKept DEF RowReadInv
<1>6. CASE Migrate
  <2>1. UNCHANGED <<plan, cells, written>> /\ stage < Len(plan) /\ stage' = stage + 1
    BY <1>6 DEF Migrate
  <2>2. PlanInv'
    BY <2>1 DEF RowReadInv, PlanInv
  <2> QED
    BY <2>1, <2>2, CellsKept DEF RowReadInv
<1> QED
  BY <1>1, <1>2, <1>3, <1>4, <1>5, <1>6 DEF Next

-----------------------------------------------------------------------------
(* What decrypt_row sends *)

\* A set of positions has a first one.
LEMMA FirstExists ==
    ASSUME NEW S \in SUBSET Nat, S # {} PROVE \E i \in S : \A j \in S : i <= j
<1>1. IsWellFoundedOn(OpToRel(<, Nat), Nat)
  BY NatLessThanWellFounded, Zenon
<1>2. PICK i \in S : \A j \in S : ~(<<j, i>> \in OpToRel(<, Nat))
  BY <1>1, WFMin, Zenon
<1>3. \A j \in S : ~(j < i)
  BY <1>2, ZenonT(30) DEF OpToRel
<1> QED
  BY <1>3

\* A read value, or a failure that has a name.
Settled(read) == read.ok = TRUE \/ (read.ok = FALSE /\ read.error # "none")

\* A transform opens a value, passes it on or says why not.
LEMMA OpenSettled ==
    ASSUME NEW c, c.transform \in {"encrypt", "fpe", "token"}, NEW stored, NEW row
    PROVE  Settled(Open(c, stored, row))
<1>1. CASE c.transform = "encrypt"
  <2>1. Settled(decrypt(c.name, row, c.strict, stored))
    BY DEF Settled, decrypt, Ok, Err
  <2>2. Open(c, stored, row) = EncryptOpen(c, stored, row)
    BY <1>1 DEF Open
  <2> QED
    BY <2>1, <2>2 DEF Settled, EncryptOpen, Ok
<1>2. CASE c.transform = "fpe"
  BY <1>2 DEF Open, FpeOpen, Settled, Ok
<1>3. CASE c.transform = "token"
  BY <1>3 DEF Open, Settled, Ok
<1> QED
  BY <1>1, <1>2, <1>3

\* So does a round of the loop.
LEMMA ReadSettled ==
    ASSUME PlanInv, NEW fields, NEW key, NEW values, NEW i,
           fields[i].column \in Columns, Column(fields[i].column) # None
    PROVE  Settled(ReadAt(fields, key, values, i))
<1> DEFINE c == Column(fields[i].column)
           row == RowKeyOnce(key, values)
           opened == Open(c, values[i], IF row.ok THEN row.value ELSE None)
<1>1. c # None => c.transform \in {"encrypt", "fpe", "token", "none"}
  BY Zenon DEF PlanInv, Column
<1>2. c # None /\ c.transform # "none" => Settled(opened)
  BY <1>1, OpenSettled
<1>3. Settled(row)
  BY DEF RowKeyOnce, read_row_key, Settled, Ok, Err
<1>4. OpenAt(fields, key, values, i) =
          IF opened.ok THEN opened
          ELSE IF ~row.ok /\ opened.error = "RowKeyMissing" THEN row
          ELSE Err(attribute_open_failure(opened.error, row.ok /\ row.value # None,
                                          Repeated(fields, i)))
  BY DEF OpenAt
<1>5. \A why, keyed, repeated : why # "none" =>
          /\ attribute_open_failure(why, keyed, repeated) # "none"
          /\ Settled(Err(attribute_open_failure(why, keyed, repeated)))
  BY DEF attribute_open_failure, Settled, Err
<1> HIDE DEF c, row, opened
<1>6. c # None /\ c.transform # "none" => Settled(OpenAt(fields, key, values, i))
  BY <1>2, <1>3, <1>4, <1>5 DEF Settled
<1> QED
  BY <1>6 DEF ReadAt, Settled, Ok, Err, c

\* A row that is sent went through the loop to its end: the key was not in doubt,
\* and every protected value was read.
LEMMA SentIsRead ==
    ASSUME PlanInv, NEW fields, NEW values, Len(fields) \in Nat,
           DOMAIN values = 1..Len(fields),
           decrypt_row(fields, values).error = "none",
           NEW i \in 1..Len(fields), fields[i].column \in Columns,
           Column(fields[i].column) # None
    PROVE  LET key == row_key_ref(fields)
               read == ReadAt(fields, key, values, i)
           IN  /\ key.kind \notin {"Ambiguous", "TypeChanged"}
               /\ read.ok
               /\ decrypt_row(fields, values).row[i] = read.value
<1> DEFINE key == row_key_ref(fields)
           reads == [j \in protected(fields) |-> ReadAt(fields, key, values, j)]
           failed == {j \in DOMAIN reads : FailureAt(values, reads, j) # "none"}
           first == CHOOSE j \in failed : \A k \in failed : j <= k
           sent == [row |-> RowUpTo(values, reads, Len(fields)), error |-> "none"]
<1>1. i \in protected(fields)
  BY DEF protected
<1>2. failed # {} => first \in failed
  <2>1. failed \in SUBSET Nat
    BY DEF protected
  <2> HIDE DEF failed
  <2> QED
    BY <2>1, FirstExists, Zenon
<1>3. decrypt_row(fields, values) =
          IF key.kind = "Ambiguous" THEN Refused("AmbiguousRowKey")
          ELSE IF key.kind = "TypeChanged" THEN Refused("RowKeyType")
          ELSE IF failed # {} THEN Refused(FailureAt(values, reads, first))
          ELSE sent
  BY <1>1, Zenon DEF decrypt_row
<1>4. failed # {} => FailureAt(values, reads, first) # "none"
  <2> HIDE DEF reads, first
  <2> QED
    BY <1>2
<1>5. reads[i] = ReadAt(fields, key, values, i) /\ i \in DOMAIN reads
  BY <1>1
<1> HIDE DEF key, reads, failed, first, sent
<1>6. /\ key.kind \notin {"Ambiguous", "TypeChanged"} /\ failed = {}
      /\ decrypt_row(fields, values) = sent
  BY <1>3, <1>4 DEF Refused
<1>7. FailureAt(values, reads, i) = "none"
  BY <1>5, <1>6 DEF failed
<1>8. reads[i].ok
  BY <1>5, <1>7, ReadSettled, Zenon DEF FailureAt, Settled
<1>9. sent.row[i] = reads[i].value
  BY <1>5, <1>8 DEF sent, RowUpTo
<1> QED
  BY <1>5, <1>6, <1>8, <1>9 DEF key

\* So a row that is sent shows what the loop read, at every protected position.
LEMMA AnswerIsRead ==
    ASSUME PlanInv, NEW fields \in Projections, NEW join \in Joins,
           Answer(fields, join).error = "none",
           NEW i \in 1..Len(fields), Column(fields[i].column) # None
    PROVE  LET key == row_key_ref(fields)
               read == ReadAt(fields, key, Values(fields, join), i)
           IN  /\ key.kind \notin {"Ambiguous", "TypeChanged"}
               /\ read.ok = TRUE
               /\ Answer(fields, join).row[i] = read.value
<1> DEFINE values == Values(fields, join)
<1>1. fields[i].column \in Columns /\ Len(fields) \in Nat
  BY ProjectionsAssumption
<1>2. DOMAIN values = 1..Len(fields)
  BY DEF Values
<1>3. decrypt_row(fields, values).error = "none"
  BY DEF Answer
<1> HIDE DEF values
<1>4. LET key == row_key_ref(fields)
          read == ReadAt(fields, key, values, i)
      IN  /\ key.kind \notin {"Ambiguous", "TypeChanged"}
          /\ read.ok
          /\ decrypt_row(fields, values).row[i] = read.value
  BY <1>1, <1>2, <1>3, SentIsRead
<1>5. Settled(ReadAt(fields, row_key_ref(fields), values, i))
  BY <1>1, ReadSettled
<1> QED
  BY <1>4, <1>5 DEF Settled, Answer, values

\* A value of a result is a cell of the row its instance stands for.
LEMMA ValueFacts ==
    ASSUME NEW fields \in Projections, NEW join \in Joins, NEW i \in 1..Len(fields),
           Values(fields, join)[i] # None
    PROVE  /\ fields[i].column \in Columns /\ join[fields[i].from] \in Rows
           /\ Values(fields, join)[i] = cells[join[fields[i].from]][fields[i].column]
<1>1. fields[i].column \in Columns /\ fields[i].from \in {1, 2}
  BY ProjectionsAssumption
<1>2. Values(fields, join)[i] = IF join[fields[i].from] = None THEN None
                                ELSE cells[join[fields[i].from]][fields[i].column]
  BY DEF Values
<1>3. join[fields[i].from] \in Rows \cup {None}
  BY <1>1 DEF Joins
<1> QED
  BY <1>1, <1>2, <1>3

\* How an encrypted value was read: it was never sealed, or its tag was verified
\* against the column and the key of the row, where one was read.
KeyRead(fields, values) ==
    LET row == RowKeyOnce(row_key_ref(fields), values)
    IN  IF row.ok THEN row.value ELSE None

LEMMA EncryptedIsOpened ==
    ASSUME NEW fields, NEW values, NEW i, Encrypted(fields[i].column), values[i] # None,
           ReadAt(fields, row_key_ref(fields), values, i).ok = TRUE
    PROVE  LET c == Column(fields[i].column)
               read == ReadAt(fields, row_key_ref(fields), values, i)
               opened == decrypt(c.name, KeyRead(fields, values), c.strict, values[i])
           IN  \/ values[i].form # "sealed" /\ read.value = Shown(c, values[i], None)
               \/ /\ values[i].form = "sealed" /\ opened.ok = TRUE
                  /\ read.value = Shown(c, values[i], Plain(opened.value))
<1> DEFINE c == Column(fields[i].column)
           key == row_key_ref(fields)
           row == RowKeyOnce(key, values)
           tag == decrypt(c.name, KeyRead(fields, values), c.strict, values[i])
           opened == Open(c, values[i], KeyRead(fields, values))
           at == OpenAt(fields, key, values, i)
<1>1. c # None /\ c.transform = "encrypt"
  BY DEF Encrypted
<1>2. at = IF opened.ok THEN opened
           ELSE IF ~row.ok /\ opened.error = "RowKeyMissing" THEN row
           ELSE Err(attribute_open_failure(opened.error, row.ok /\ row.value # None,
                                           Repeated(fields, i)))
  BY ZenonT(30) DEF OpenAt, KeyRead
<1>3. ReadAt(fields, key, values, i) =
          IF Size(values[i]) > MaxValue THEN Err("ProtectedValueTooLarge")
          ELSE IF at.ok THEN Ok(Shown(c, values[i], at.value)) ELSE at
  BY <1>1 DEF ReadAt
<1>4. opened = IF values[i].form # "sealed" THEN Ok(None)
               ELSE IF tag.ok THEN Ok(Plain(tag.value)) ELSE tag
  BY <1>1 DEF Open, EncryptOpen
<1>5. Settled(tag) /\ Settled(opened) /\ Settled(row)
  <2>1. Settled(tag)
    BY DEF Settled, decrypt, Ok, Err
  <2>2. Settled(opened)
    BY <1>1, OpenSettled
  <2>3. Settled(row)
    BY DEF Settled, Ok, Err, RowKeyOnce, read_row_key
  <2> QED
    BY <2>1, <2>2, <2>3
<1>6. /\ \A v : Ok(v).ok = TRUE /\ Ok(v).value = v
      /\ \A why : Err(why).ok = FALSE
  BY DEF Ok, Err
<1> HIDE DEF c, key, row, tag, opened, at
<1>7. at.ok /\ ReadAt(fields, key, values, i).value = Shown(c, values[i], at.value)
  BY <1>3, <1>6 DEF key
<1>8. opened.ok /\ at = opened
  BY <1>2, <1>5, <1>6, <1>7 DEF Settled
<1>9. CASE values[i].form # "sealed"
  BY <1>4, <1>6, <1>7, <1>8, <1>9 DEF c, key
<1>10. CASE values[i].form = "sealed"
  <2>1. tag.ok = TRUE /\ at.value = Plain(tag.value)
    BY <1>4, <1>5, <1>6, <1>8, <1>10 DEF Settled
  <2> QED
    BY <1>7, <1>10, <2>1, ZenonT(30) DEF c, key, tag
<1> QED
  BY <1>9, <1>10, Zenon

\* No query gets a stored envelope of an encrypted column, whatever it joins and
\* projects (decrypt_row).
LEMMA OpenedNotSealed == RowReadInv => NeverSealedForm
<1> SUFFICES ASSUME RowReadInv,
                    NEW fields \in Projections, NEW join \in Joins,
                    NEW i \in 1..Len(fields), Encrypted(fields[i].column),
                    Values(fields, join)[i] # None,
                    Answer(fields, join).error = "none"
             PROVE  Answer(fields, join).row[i].form # "sealed"
  BY DEF NeverSealedForm
<1> DEFINE values == Values(fields, join)
           c == Column(fields[i].column)
           read == ReadAt(fields, row_key_ref(fields), values, i)
           opened == decrypt(c.name, KeyRead(fields, values), c.strict, values[i])
<1>1. fields[i].column \in Columns /\ Len(fields) \in Nat /\ c # None
  BY ProjectionsAssumption DEF Encrypted
<1>2. read.ok = TRUE /\ Answer(fields, join).row[i] = read.value
  BY <1>1, AnswerIsRead, Zenon DEF RowReadInv
<1>3. values[i] # None
  OBVIOUS
<1>4. values[i].text \in Words
  <2>1. PICK r \in Rows : values[i] = cells[r][fields[i].column]
    BY <1>3, ValueFacts
  <2> QED
    BY <1>1, <1>3, <2>1 DEF RowReadInv, CellsInv
<1> HIDE DEF values
<1>5. \/ values[i].form # "sealed" /\ read.value = Shown(c, values[i], None)
      \/ /\ values[i].form = "sealed" /\ opened.ok = TRUE
         /\ read.value = Shown(c, values[i], Plain(opened.value))
  BY <1>2, <1>3, EncryptedIsOpened, ZenonT(30)
<1>6. opened.ok = TRUE => opened.value = values[i].text
  BY ZenonT(30) DEF decrypt, Ok, Err
<1>7. opened.ok = TRUE => Plain(opened.value) # None /\ Plain(opened.value).form = "plain"
  BY <1>4, <1>6, NoValueAssumption, Zenon DEF Words, Plain
<1>8. \A v : Masked(v).form = "masked"
  BY DEF Masked
<1> HIDE DEF c, read, opened
<1> QED
  BY <1>2, <1>5, <1>7, <1>8 DEF Shown

\* A masked column is never sent unmasked.
LEMMA ShownIsMasked == RowReadInv => NeverUnmasked
<1> SUFFICES ASSUME RowReadInv,
                    NEW fields \in Projections, NEW join \in Joins,
                    NEW i \in 1..Len(fields), Column(fields[i].column) # None,
                    Column(fields[i].column).mask,
                    Answer(fields, join).error = "none", Answer(fields, join).row[i] # None
             PROVE  Answer(fields, join).row[i].form = "masked"
  BY DEF NeverUnmasked
<1> DEFINE values == Values(fields, join)
           c == Column(fields[i].column)
           read == ReadAt(fields, row_key_ref(fields), values, i)
<1>1. fields[i].column \in Columns /\ Len(fields) \in Nat
  BY ProjectionsAssumption
<1>2. read.ok = TRUE /\ Answer(fields, join).row[i] = read.value
  BY <1>1, AnswerIsRead, Zenon DEF RowReadInv
<1>3. PICK o : read.value = Shown(c, values[i], o)
  BY <1>2, Zenon DEF ReadAt, Ok, Err
<1>4. c.mask
  OBVIOUS
<1> HIDE DEF values, c, read
<1>5. Shown(c, values[i], o) = Masked(IF o = None THEN values[i] ELSE o)
  BY <1>4 DEF Shown
<1>6. \A v : Masked(v).form = "masked"
  BY DEF Masked
<1> QED
  BY <1>2, <1>3, <1>5, <1>6

\* The one field that has the key of the table.
LEMMA SlotIsKey ==
    ASSUME NEW fields, Len(fields) \in Nat, NEW k \in 1..Len(fields),
           fields[k].column = KeyColumn,
           row_key_ref(fields).kind \notin {"Ambiguous", "TypeChanged"}
    PROVE  row_key_ref(fields) = [kind |-> "Slot", at |-> k]
<1> DEFINE matches == {i \in 1..Len(fields) : fields[i].column = KeyColumn}
<1>1. k \in matches /\ IsFiniteSet(matches)
  <2>1. IsFiniteSet(1..Len(fields))
    BY FS_Interval
  <2> QED
    BY <2>1, FS_Subset
<1>2. row_key_ref(fields) =
          IF matches = {} THEN [kind |-> "Absent", at |-> 0]
          ELSE IF Cardinality(matches) > 1 THEN [kind |-> "Ambiguous", at |-> 0]
          ELSE IF retyped THEN [kind |-> "TypeChanged", at |-> 0]
          ELSE [kind |-> "Slot", at |-> CHOOSE i \in matches : TRUE]
  BY DEF row_key_ref
<1> HIDE DEF matches
<1>3. ~(Cardinality(matches) > 1) /\ ~retyped
  BY <1>1, <1>2
<1>4. Cardinality(matches) = 1
  <2>1. Cardinality(matches) \in Nat /\ Cardinality(matches) # 0
    BY <1>1, FS_CardinalityType, FS_EmptySet
  <2> QED
    BY <1>3, <2>1
<1>5. matches = {k}
  BY <1>1, <1>4, FS_Singleton
<1> QED
  BY <1>2, <1>3, <1>5, FS_Singleton

\* Under strict row binding a value opens only where it was written: the tag names
\* its row and its column, and the invariant says that a client wrote it there.
LEMMA OpenedWhereWritten == RowReadInv => ReadWhereWritten
<1> SUFFICES ASSUME RowReadInv,
                    NEW fields \in Projections, NEW join \in Joins,
                    NEW i \in 1..Len(fields), NEW k \in 1..Len(fields),
                    StrictlyRead(fields, join, i, k), Answer(fields, join).error = "none"
             PROVE  <<Values(fields, join)[k], fields[i].column, Values(fields, join)[i].text>>
                        \in written
  BY DEF ReadWhereWritten
<1> DEFINE values == Values(fields, join)
           c == Column(fields[i].column)
           key == row_key_ref(fields)
           read == ReadAt(fields, key, values, i)
           opened == decrypt(c.name, KeyRead(fields, values), c.strict, values[i])
<1> /\ Encrypted(fields[i].column) /\ Column(fields[i].column).strict
    /\ fields[k].column = KeyColumn /\ fields[k].from = fields[i].from
    /\ Values(fields, join)[i] # None /\ Values(fields, join)[i].form = "sealed"
  BY DEF StrictlyRead
<1>1. /\ fields[i].column \in Columns /\ fields[k].column \in Columns
      /\ Len(fields) \in Nat /\ c # None
  BY ProjectionsAssumption DEF Encrypted
<1>2. PICK r \in Rows : values[i] = cells[r][fields[i].column] /\ r = join[fields[i].from]
  BY ValueFacts, ZenonT(30)
<1>3. KeyColumn = "id"
  BY <1>1, NoValueAssumption DEF RowReadInv, PlanInv, KeyColumn
<1>4. values[k] = cells[r]["id"] /\ values[k] # None
  <2>1. HasKey(r)
    BY <1>1, <1>2, ZenonT(30) DEF RowReadInv, CellsInv
  <2>2. r # None
    BY <1>2, ZenonT(30) DEF Values
  <2>3. values[k] = cells[r]["id"]
    BY <1>2, <1>3, <2>2, ZenonT(30) DEF Values
  <2> QED
    BY <2>1, <2>3, ZenonT(30) DEF HasKey
<1>5. read.ok = TRUE /\ key.kind \notin {"Ambiguous", "TypeChanged"}
  BY <1>1, AnswerIsRead, ZenonT(30) DEF RowReadInv
<1>6. KeyRead(fields, values) = values[k]
  <2>1. key = [kind |-> "Slot", at |-> k]
    BY <1>1, <1>5, SlotIsKey, ZenonT(30)
  <2>2. RowKeyOnce(key, values) = Ok(values[k])
    <3> HIDE DEF key, values
    <3> QED
      BY <1>4, <2>1, ZenonT(30) DEF RowKeyOnce, read_row_key
  <2> QED
    BY <2>2, SMTT(30) DEF KeyRead, Ok
<1>7. opened.ok = TRUE
  BY <1>5, EncryptedIsOpened, ZenonT(30)
<1>8. /\ values[i].version = "DBS3"
      /\ <<c.name, values[k]>> = <<values[i].column, values[i].row>>
  BY <1>4, <1>6, <1>7 DEF decrypt, Presented, Err, Ok
<1>9. c.name = NameOf(fields[i].column)
  BY <1>1, ZenonT(30) DEF RowReadInv, PlanInv, Column
<1>10. WrittenAs(values[i], written) /\ values[i].form = "sealed"
  BY <1>1, <1>2, ZenonT(30) DEF RowReadInv, CellsInv
<1> HIDE DEF values, c, key, read, opened
<1>11. PICK d \in Columns : /\ values[i].column = NameOf(d)
                            /\ <<values[i].row, d, values[i].text>> \in written
  BY <1>8, <1>10, ZenonT(30) DEF WrittenAs
<1>12. values[i].row = values[k] /\ d = fields[i].column
  <2>1. values[i].column = c.name /\ values[i].row = values[k]
    BY <1>8, ZenonT(30)
  <2>2. NameOf(d) = NameOf(fields[i].column)
    BY <1>9, <1>11, <2>1, ZenonT(30)
  <2>3. \A a, b : NameOf(a) = NameOf(b) => a = b
    BY DEF NameOf
  <2> QED
    BY <2>1, <2>2, <2>3
<1> QED
  BY <1>11, <1>12 DEF values

\* The invariant, in every reachable state.
THEOREM RowsInvariant == Spec => []RowReadInv
BY InitRowRead, NextRowRead, PTL DEF Spec

\* No query, whatever it joins and projects, gets a stored envelope of an
\* encrypted column, under any configuration and whatever was edited
\* (RowDecryptor::decrypt_row).
THEOREM NeverSealedTheorem == Spec => []NeverSealedForm
BY RowsInvariant, OpenedNotSealed, PTL

\* A masked column is never sent unmasked (RowDecryptor::decrypt_row).
THEOREM MaskTheorem == Spec => []NeverUnmasked
BY RowsInvariant, ShownIsMasked, PTL

\* Under strict_row_binding an encrypted value read with the key of its row was
\* written there, whatever was copied, rekeyed or reconfigured since
\* (Cipher::decrypt, decrypt_row).
THEOREM WrittenTheorem == Spec => []ReadWhereWritten
BY RowsInvariant, OpenedWhereWritten, PTL

=============================================================================
