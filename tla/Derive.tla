------------------------------- MODULE Derive -------------------------------
(***************************************************************************)
(* #[derive(Protect)] (crates/derive/src/lib.rs): what a declaration       *)
(* expands to, and a table of such records, saved, opened and searched by  *)
(* the generated code under the policy that is deployed, which need not be *)
(* the one the declaration describes.                                      *)
(*                                                                         *)
(* A declaration is an item with a #[dbsec(table, row_key)] and fields; a  *)
(* field has a type, the last segments of its path, and either no #[dbsec] *)
(* attribute or a sequence of metas.                                       *)
(***************************************************************************)
EXTENDS Envelope, SequencesExt

CONSTANTS
    Declarations,   \* the declarations the macro is applied to
    Deployments,    \* policies that may be deployed beside the declaration's own
    RecordKeys,     \* the values of the row_key field
    RecordTexts,    \* the values of the others
    Binary,         \* those of them that are not UTF-8
    MaxSteps        \* how many changes are made to the table

VARIABLES
    derived,        \* what the macro makes of the declaration
    deployed,       \* the policy of the protector
    kept,           \* the table: a key to its sealed record
    meant,          \* the record last saved under a key
    intact,         \* saved under the deployed policy and untouched since
    steps

deriveVars == <<derived, deployed, kept, meant, intact, steps>>

-----------------------------------------------------------------------------
(* The attributes *)

\* String, Vec<u8>, or an Option of one of them.
shape_of(type) ==
    LET optional == type[1] = "Option"
        inner == IF optional /\ Len(type) > 1 THEN type[2] ELSE type[1]
    IN  IF inner \notin {"String", "Vec"} THEN None
        ELSE [optional |-> optional, repr |-> IF inner = "String" THEN "text" ELSE "bytes"]

\* One meta of a field; what is not expected, or not the literal it should be,
\* is refused.
Attribute(spec, meta) ==
    IF spec = None THEN None
    ELSE CASE meta[1] = "kind" -> [spec EXCEPT !.kind = meta[2]]
           [] meta[1] = "searchable" -> [spec EXCEPT !.searchable = meta[2]]
           [] meta[1] = "detokenize" -> [spec EXCEPT !.detokenize = meta[2]]
           [] meta[1] = "column" -> [spec EXCEPT !.column = meta[2]]
           [] meta[1] = "mask" -> [spec EXCEPT !.mask = TRUE]
           [] OTHER -> None

\* A bare attribute encrypts.
field_attrs(field) ==
    LET start == [ident |-> field.ident, column |-> field.ident, kind |-> "encrypt",
                  searchable |-> FALSE, detokenize |-> TRUE, mask |-> FALSE,
                  shape |-> shape_of(field.type)]
    IN  IF start.shape = None THEN None ELSE FoldLeft(Attribute, start, field.metas)

\* The table is required, and in the default schema unless it names one.
struct_attrs(declaration) ==
    IF declaration.table = None THEN None
    ELSE [table |-> Qualified(declaration.table), row_key |-> declaration.row_key]

\* expand: named fields, one of them protected, and a row_key that is not.
expand(declaration) ==
    LET attrs == struct_attrs(declaration)
        annotated == SelectSeq(declaration.fields, LAMBDA f : f.metas # None)
        plain == {f.ident : f \in ToSet(declaration.fields) \ ToSet(annotated)}
        protected == [i \in 1..Len(annotated) |-> field_attrs(annotated[i])]
    IN  IF \/ declaration.item # "struct" \/ attrs = None
           \/ annotated = << >>
           \/ \E i \in 1..Len(annotated) : protected[i] = None
           \/ attrs.row_key # None /\ attrs.row_key \notin plain
        THEN None
        ELSE [table |-> attrs.table, row_key |-> attrs.row_key,
              protected |-> protected, plain |-> plain]

-----------------------------------------------------------------------------
(* The generated code *)

policy_expr(spec, table) ==
    [ColumnPolicy(table, spec.column) EXCEPT
        !.transform = spec.kind, !.searchable = spec.searchable,
        !.detokenize = spec.detokenize, !.mask = spec.mask]

\* Record::policy.
policy(d) ==
    [columns |-> [i \in 1..Len(d.protected) |-> policy_expr(d.protected[i], d.table)],
     tables |-> IF d.row_key = None THEN << >>
                ELSE <<TablePolicy(d.table, d.row_key)>>]

RowOf(d, record) == IF d.row_key = None THEN None ELSE record[d.row_key]

\* The stored form of a transform (Protector::wire).
WireOf(transform) ==
    CASE transform = "encrypt" -> "bytea" [] transform \in {"fpe", "token"} -> "text"
      [] transform = "none" -> None

wire(d, spec) ==
    LET c == ProtectedColumn(deployed, d.table, spec.column)
    IN  IF c = None THEN Err("UnknownColumn") ELSE Ok(WireOf(c.transform))

from_utf8(value, repr) ==
    IF repr = "text" /\ (value.form = "sealed" \/ value.text \in Binary) THEN Err("Malformed")
    ELSE Ok(value)

\* Mutant of seal_expr: the stored forms are not compared.
seal_expr_unchecked(d, spec, record) ==
    IF record[spec.ident] = None THEN Ok(None)
    ELSE ProtectorSeal(deployed, d.table, spec.column, record[spec.ident], RowOf(d, record))

\* One field: the struct and the policy have to agree on the stored form.
seal_expr(d, spec, record) ==
    IF record[spec.ident] = None THEN Ok(None)
    ELSE LET form == wire(d, spec)
         IN  IF ~form.ok THEN form
             ELSE IF form.value # WireOf(spec.kind) THEN Err("Policy")
             ELSE ProtectorSeal(deployed, d.table, spec.column, record[spec.ident],
                                RowOf(d, record))

\* One field: a mask-only one is as stored; a value that was never sealed is
\* refused, unless the reader is lenient.
open_expr(d, spec, lenient, sealed) ==
    LET stored == sealed[spec.ident]
        opened == ProtectorOpen(deployed, d.table, spec.column, stored, RowOf(d, sealed))
    IN  IF stored = None THEN Ok(None)
        ELSE IF spec.kind = "none" THEN Ok(stored)
        ELSE IF ~opened.ok THEN opened
        ELSE LET bytes == IF lenient THEN into_bytes(opened.value) ELSE into_value(opened.value)
             IN  IF bytes.ok THEN from_utf8(bytes.value, spec.shape.repr) ELSE bytes

\* The protected fields in order, the plain ones as they are; the first error.
Fieldwise(d, record, done) ==
    LET errors == {i \in DOMAIN done : ~done[i].ok}
        Of(f) == CHOOSE i \in DOMAIN done : d.protected[i].ident = f
    IN  IF errors # {} THEN done[CHOOSE i \in errors : \A j \in errors : i <= j]
        ELSE Ok([f \in DOMAIN record |-> IF f \in d.plain THEN record[f] ELSE done[Of(f)].value])

seal(d, record) ==
    Fieldwise(d, record, [i \in 1..Len(d.protected) |-> seal_expr(d, d.protected[i], record)])

Opening(d, sealed, lenient) ==
    Fieldwise(d, sealed,
        [i \in 1..Len(d.protected) |-> open_expr(d, d.protected[i], lenient, sealed)])

open(d, sealed) == Opening(d, sealed, FALSE)
open_lenient(d, sealed) == Opening(d, sealed, TRUE)

\* The term function of a searchable field.
term(d, spec, text) ==
    LET found == SearchTerm(deployed, d.table, spec.column, text)
    IN  IF found.ok /\ found.value = None THEN Err("Policy") ELSE found

\* masked, for one field of an opened record: with the mask of the policy.
mask_expr(d, spec, value) ==
    IF value = None THEN Ok(None) ELSE ProtectorMask(deployed, d.table, spec.column, value)

-----------------------------------------------------------------------------
(* The table *)

Specs == {derived.protected[i] : i \in 1..Len(derived.protected)}

\* The values a field of this type can have.
ValuesOf(spec) ==
    (IF spec.shape.repr = "text" THEN RecordTexts \ Binary ELSE RecordTexts)
    \cup (IF spec.shape.optional THEN {None} ELSE {})

Records(key) ==
    {r \in [derived.plain \cup {s.ident : s \in Specs} -> {key, None} \cup RecordTexts] :
        /\ \A f \in derived.plain : r[f] = key
        /\ \A s \in Specs : r[s.ident] \in ValuesOf(s)}

Policies == {p \in Deployments \cup {policy(derived)} : validate(p)}

DeriveStart(declarations) ==
    /\ \E d \in declarations : expand(d) # None /\ derived = expand(d)
    /\ deployed \in Policies
    /\ kept = [k \in RecordKeys |-> None]
    /\ meant = [k \in RecordKeys |-> None]
    /\ intact = [k \in RecordKeys |-> FALSE]
    /\ steps = 0

DeriveInit == DeriveStart(Declarations)

Counted == steps < MaxSteps /\ steps' = steps + 1

Kept(k, sealed, record, by) ==
    /\ kept' = [kept EXCEPT ![k] = sealed]
    /\ meant' = [meant EXCEPT ![k] = record]
    /\ intact' = [intact EXCEPT ![k] = by]
    /\ UNCHANGED <<derived, deployed>>

Save(k) ==
    /\ Counted
    /\ \E record \in Records(k) :
           LET sealed == seal(derived, record)
           IN  sealed.ok /\ Kept(k, sealed.value, record, TRUE)

\* A row of before the protection.
Legacy(k) ==
    /\ Counted
    /\ kept[k] = None
    /\ \E record \in Records(k) :
           Kept(k, [f \in DOMAIN record |->
                       IF f \in derived.plain \/ record[f] = None THEN record[f]
                       ELSE Plain(record[f])], record, FALSE)

\* A stored value is copied from another row.
Misplace(k, l) ==
    /\ Counted
    /\ k # l /\ kept[k] # None /\ kept[l] # None
    /\ \E s \in Specs : Kept(k, [kept[k] EXCEPT ![s.ident] = kept[l][s.ident]], meant[k], FALSE)

Redeploy ==
    /\ Counted
    /\ \E p \in Policies \ {deployed} : deployed' = p
    /\ intact' = [k \in RecordKeys |-> FALSE]
    /\ UNCHANGED <<derived, kept, meant>>

DeriveNext ==
    \/ \E k \in RecordKeys : Save(k) \/ Legacy(k)
    \/ \E k, l \in RecordKeys : Misplace(k, l)
    \/ Redeploy

-----------------------------------------------------------------------------
Present == {k \in RecordKeys : kept[k] # None}
TextIn(value) == IF value = None THEN None ELSE value.text
Unreadable(spec) == ~ProtectedColumn(deployed, derived.table, spec.column).readable

\* What was saved is opened, masked where the declaration asks for it under its
\* own policy, and found by its term; only a value the policy does not read back
\* is refused.
SavedReadsBack(k, opened) ==
    /\ IF opened.ok THEN \A s \in Specs : TextIn(opened.value[s.ident]) = meant[k][s.ident]
       ELSE \E s \in Specs : s.kind # "none" /\ meant[k][s.ident] # None /\ Unreadable(s)
    /\ \A s \in Specs : meant[k][s.ident] # None =>
           /\ opened.ok /\ deployed = policy(derived) /\ s.mask
                => mask_expr(derived, s, opened.value[s.ident]).value.form = "masked"
           /\ s.searchable =>
                  \/ term(derived, s, meant[k][s.ident]) = Err("Policy")
                  \/ /\ kept[k][s.ident].form = "sealed"
                     /\ term(derived, s, meant[k][s.ident]) = Ok(kept[k][s.ident].index)

Agreed == \A s \in Specs : wire(derived, s) = Ok(WireOf(s.kind))
StoredAs(k, form) ==
    {s \in Specs : s.kind = "encrypt" /\ kept[k][s.ident] # None /\ kept[k][s.ident].form = form}

\* Nothing else is taken for it: open refuses what was never sealed, a bound row
\* has its own values, and lenient adds only plaintext.
NothingElseRead(k, opened, lenient) ==
    LET entry == TableEntry(deployed, derived.table)
    IN  /\ opened.ok => StoredAs(k, "plain") = {}
        /\ opened.ok /\ entry # None /\ entry.strict =>
               \A s \in StoredAs(k, "sealed") : TextIn(opened.value[s.ident]) = meant[k][s.ident]
        /\ lenient.ok /\ ~opened.ok =>
               \E s \in Specs : kept[k][s.ident] # None /\ kept[k][s.ident].form = "plain"

(***************************************************************************)
(* What generated seal code saved, generated open code reads back and the  *)
(* term function finds, under any policy that agrees with the struct on    *)
(* the stored form; a row it did not save, a value of another row and a    *)
(* value under another policy are refused, never passed off as the         *)
(* record's (seal_expr's comparison, open_expr's into_value).              *)
(***************************************************************************)
RecordsReadBack ==
    \A k \in Present :
        LET opened == open(derived, kept[k])
        IN  /\ intact[k] => SavedReadsBack(k, opened)
            /\ Agreed => NothingElseRead(k, opened, open_lenient(derived, kept[k]))

=============================================================================
