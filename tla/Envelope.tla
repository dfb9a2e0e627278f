------------------------------ MODULE Envelope ------------------------------
(***************************************************************************)
(* The field transforms of crates/core: the envelope and what it binds     *)
(* (envelope.rs, blind_index.rs), the three transforms (transform.rs),     *)
(* masks (mask.rs), the policy that configures columns (policy.rs) and the *)
(* library front end over it (protector.rs).                               *)
(*                                                                         *)
(* Cryptography is symbolic: a stored value is a record of what it was     *)
(* made from, and opening compares what it was bound to with what the      *)
(* reader presents.  A plaintext is a name; Numeric are those with enough  *)
(* digits for format-preserving encryption.                                *)
(***************************************************************************)
EXTENDS Naturals, Sequences, FiniteSets

CONSTANTS
    Numeric,        \* the plaintexts with MIN_FPE_DIGITS digits or more
    None            \* NULL, an absent row key, or a value that is not opened

Ok(value) == [ok |-> TRUE, value |-> value]
Err(why) == [ok |-> FALSE, error |-> why]

Plain(text) == [form |-> "plain", text |-> text]

-----------------------------------------------------------------------------
(* envelope.rs, blind_index.rs *)

\* Cipher::encrypt: the version is the shape of the binding.
encrypt(context, row, text) ==
    [form |-> "sealed", version |-> IF row = None THEN "DBS2" ELSE "DBS3",
     column |-> context, row |-> row, text |-> text, index |-> None]

\* What the tag of a stored value is verified against (CellContext::aad,
\* aad_with_row; a DBS1 value is bound to its key alone).
Presented(version, context, row) ==
    CASE version = "DBS1" -> <<None, None>>
      [] version = "DBS2" -> <<context, None>>
      [] version = "DBS3" -> <<context, row>>

\* Mutant of decrypt: strictness is not asked about.
decryptLenient(context, row, strict, e) ==
    IF e.version = "DBS3" /\ row = None THEN Err("RowKeyMissing")
    ELSE IF Presented(e.version, context, row) = <<e.column, e.row>> THEN Ok(e.text)
    ELSE Err("Decrypt")

\* Cipher::decrypt.
decrypt(context, row, strict, e) ==
    IF e.version # "DBS3" /\ row # None /\ strict THEN Err("RowBindingDowngraded")
    ELSE IF e.version = "DBS3" /\ row = None THEN Err("RowKeyMissing")
    ELSE IF Presented(e.version, context, row) = <<e.column, e.row>> THEN Ok(e.text)
    ELSE Err("Decrypt")

\* blind_index::compute, under the key of the column's name.
Index(name, text) == [name |-> name, text |-> text]

-----------------------------------------------------------------------------
(* transform.rs: a column is what Policy::build makes of its entry *)

FpeSeal(c, text) ==
    IF text \in Numeric THEN Ok([form |-> "fpe", name |-> c.name, text |-> text])
    ELSE Err("FpeDomain")

\* EncryptTransform: bound to its column and, when there is one, to the row.
EncryptSeal(c, text, row) ==
    Ok([encrypt(c.name, row, text) EXCEPT
           !.index = IF c.searchable THEN Index(c.name, text) ELSE None])

\* TokenTransform: the same token in every row.
TokenSeal(c, text) == Ok([form |-> "token", name |-> c.name, text |-> text])

\* FieldTransform::seal, of the transform Policy::build picked.
Seal(c, text, row) ==
    CASE c.transform = "encrypt" -> EncryptSeal(c, text, row)
      [] c.transform = "fpe" -> FpeSeal(c, text)
      [] c.transform = "token" -> TokenSeal(c, text)

\* FpeTransform::open: what is not long enough was never sealed; any other
\* digits are taken for a ciphertext.
FpeOpen(c, stored) ==
    IF ~c.detokenize THEN Ok(None)
    ELSE IF stored.form = "fpe" /\ stored.name = c.name THEN Ok(Plain(stored.text))
    ELSE IF stored.form = "plain" /\ stored.text \notin Numeric THEN Ok(None)
    ELSE Ok([form |-> "garbled", text |-> stored.text])

EncryptOpen(c, stored, row) ==
    LET opened == decrypt(c.name, row, c.strict, stored)
    IN  IF stored.form # "sealed" THEN Ok(None)
        ELSE IF opened.ok THEN Ok(Plain(opened.value)) ELSE opened

\* FieldTransform::open: None for what this transform did not seal.
Open(c, stored, row) ==
    CASE c.transform = "encrypt" -> EncryptOpen(c, stored, row)
      [] c.transform = "fpe" -> FpeOpen(c, stored)
      [] c.transform = "token" -> Ok(None)

\* FieldTransform::search_index.
SearchIndex(c, text) ==
    IF c.transform = "encrypt" /\ c.searchable THEN Index(c.name, text) ELSE None

\* MaskSpec::apply.
Masked(value) == [form |-> "masked", text |-> value.text]

-----------------------------------------------------------------------------
(* policy.rs: a policy is sequences of column and of table entries *)

\* ColumnPolicy::new and TablePolicy::new, before their builder methods.
ColumnPolicy(table, column) ==
    [table |-> table, column |-> column, transform |-> "encrypt",
     searchable |-> FALSE, detokenize |-> TRUE, mask |-> FALSE]
TablePolicy(table, row_key) == [table |-> table, row_key |-> row_key, strict |-> FALSE]

\* split_table: a bare name is in the default schema.
Qualified(table) == IF table = "users" THEN "public.users" ELSE table

\* Column names longer than PostgreSQL keeps.
TooLong == {"overlong"}

QualifiedName(entry) == <<Qualified(entry.table), entry.column>>

ColumnsOf(policy, table) ==
    {i \in 1..Len(policy.columns) : Qualified(policy.columns[i].table) = Qualified(table)}

ColumnValid(entry) ==
    /\ entry.searchable => entry.transform = "encrypt"
    /\ ~entry.detokenize => entry.transform = "fpe"
    /\ entry.transform = "none" => entry.mask
    /\ entry.column \notin TooLong

\* Mutant of RowKeyValid: the key column may be transformed.
RowKeyValidLoose(policy, entry) ==
    /\ entry.row_key \notin TooLong
    /\ \E i \in ColumnsOf(policy, entry.table) : policy.columns[i].transform = "encrypt"

\* validate_row_keys: there is something to bind, and the key can be read back.
RowKeyValid(policy, entry) ==
    /\ entry.row_key \notin TooLong
    /\ \E i \in ColumnsOf(policy, entry.table) : policy.columns[i].transform = "encrypt"
    /\ \A i \in ColumnsOf(policy, entry.table) :
           policy.columns[i].column = entry.row_key => policy.columns[i].transform = "none"

\* Policy::validate, validate_row_keys.
validate(policy) ==
    /\ \A i, j \in 1..Len(policy.columns) :
           i # j => QualifiedName(policy.columns[i]) # QualifiedName(policy.columns[j])
    /\ \A i \in 1..Len(policy.columns) : ColumnValid(policy.columns[i])
    /\ \A i, j \in 1..Len(policy.tables) :
           i # j => Qualified(policy.tables[i].table) # Qualified(policy.tables[j].table)
    /\ \A i \in 1..Len(policy.tables) : RowKeyValid(policy, policy.tables[i])

\* The entry a table has, or None (Policy::row_keys, strict_row_binding).
TableEntry(policy, table) ==
    LET of == {i \in 1..Len(policy.tables) : Qualified(policy.tables[i].table) = Qualified(table)}
    IN  IF of = {} THEN None ELSE policy.tables[CHOOSE i \in of : \A j \in of : i <= j]

\* Policy::build, for one entry; a name stands for the index key, and for the
\* context of the envelope.
build(policy, entry) ==
    LET table == TableEntry(policy, entry.table)
    IN  [name |-> QualifiedName(entry),
         transform |-> entry.transform,
         searchable |-> entry.searchable,
         detokenize |-> entry.detokenize,
         strict |-> table # None /\ table.strict,
         readable |-> \/ entry.transform = "encrypt"
                      \/ entry.transform = "fpe" /\ entry.detokenize,
         mask |-> entry.mask]

\* The protected column a name stands for, or None.
ProtectedColumn(policy, table, column) ==
    LET of == {i \in ColumnsOf(policy, table) : policy.columns[i].column = column}
    IN  IF of = {} THEN None ELSE build(policy, policy.columns[CHOOSE i \in of : TRUE])

-----------------------------------------------------------------------------
(* protector.rs *)

\* Column::check_row.
check_row(policy, table, row) ==
    IF TableEntry(policy, table) # None /\ row = None THEN "RowKeyRequired"
    ELSE IF TableEntry(policy, table) = None /\ row # None THEN "RowKeyNotDeclared"
    ELSE "ok"

\* Protector::seal.
ProtectorSeal(policy, table, column, text, row) ==
    LET c == ProtectedColumn(policy, table, column)
    IN  IF c = None THEN Err("UnknownColumn")
        ELSE IF check_row(policy, table, row) # "ok" THEN Err(check_row(policy, table, row))
        ELSE IF c.transform = "none" THEN Ok(Plain(text))
        ELSE Seal(c, text, row)

\* Opened: a Value, or what was never protected; only lenient readers take
\* the bytes of either.
Opened(value, of) == [value |-> value, of |-> of]
into_value(opened) == IF opened.value THEN Ok(opened.of) ELSE Err("Unprotected")
into_bytes(opened) == Ok(opened.of)

\* Protector::open.
ProtectorOpen(policy, table, column, stored, row) ==
    LET c == ProtectedColumn(policy, table, column)
    IN  IF c = None THEN Err("UnknownColumn")
        ELSE IF check_row(policy, table, row) # "ok" THEN Err(check_row(policy, table, row))
        ELSE IF c.transform = "none" THEN Ok(Opened(FALSE, stored))
        ELSE IF ~c.readable THEN Err("NotReadable")
        ELSE LET opened == Open(c, stored, row)
             IN  IF ~opened.ok THEN opened
                 ELSE IF opened.value = None THEN Ok(Opened(FALSE, stored))
                 ELSE Ok(Opened(TRUE, opened.value))

\* Protector::search_term.
SearchTerm(policy, table, column, text) ==
    LET c == ProtectedColumn(policy, table, column)
    IN  IF c = None THEN Err("UnknownColumn") ELSE Ok(SearchIndex(c, text))

\* Protector::mask.
ProtectorMask(policy, table, column, value) ==
    LET c == ProtectedColumn(policy, table, column)
    IN  IF c = None THEN Err("UnknownColumn")
        ELSE IF c.mask THEN Ok(Masked(value)) ELSE Ok(value)

=============================================================================
