-------------------------------- MODULE Codec --------------------------------
(***************************************************************************)
(* The conversions of the write path, each next to what it has to agree    *)
(* with: the wire format of crates/pgwire, the bound arrays of             *)
(* encrypt/array.rs, the row keys of crates/core/src/rowkey.rs and the     *)
(* statement ranges of encrypt/lexer.rs.                                   *)
(*                                                                         *)
(* A message body is a sequence of cells.  A cell is a byte or a whole     *)
(* integer field, so a body that ends inside a field is one that lacks it. *)
(* A text is a sequence of characters.  A behaviour writes one text or     *)
(* damages one body, a character or a cell at a time.                      *)
(***************************************************************************)
EXTENDS Integers, Sequences, FiniteSets, SequencesExt, TLC

CONSTANTS
    None,           \* NULL, and what a decoder returns when it gives up
    Half,           \* integer fields run from -Half to Half - 1
    Messages,       \* the Bind messages clients send
    MaxElements,    \* MAX_ARRAY_ELEMENTS
    MaxText,        \* longest array text and row key text, in characters
    SqlPieces,      \* what SQL texts are put together from
    MaxPieces       \* how many pieces a SQL text has

VARIABLES
    subject,        \* the conversion this behaviour is about
    sent,           \* the message behind the body, for subject "bind"
    input           \* the body or text it is given

codecVars == <<subject, sent, input>>

-----------------------------------------------------------------------------
(* pgwire: taking fields off the front of a body *)

Malformed == [ok |-> FALSE]
Taken(value, rest) == [ok |-> TRUE, value |-> value, rest |-> rest]

\* Integer fields are two's complement.
Signed(cell) == IF cell >= Half THEN cell - 2 * Half ELSE cell
Unsigned(n) == IF n < 0 THEN n + 2 * Half ELSE n

take(body, n) ==
    IF Len(body) < n THEN Malformed
    ELSE Taken(SubSeq(body, 1, n), SubSeq(body, n + 1, Len(body)))

take_i16(body) == IF body = <<>> THEN Malformed ELSE Taken(Signed(body[1]), Tail(body))

take_cstr(body) ==
    LET ends == {i \in 1..Len(body) : body[i] = 0}
        end == CHOOSE i \in ends : \A j \in ends : i <= j
    IN  IF ends = {} THEN Malformed
        ELSE Taken(SubSeq(body, 1, end - 1), SubSeq(body, end + 1, Len(body)))

\* A length and that many bytes; -1 is SQL NULL.
take_nullable(body) ==
    LET len == take_i16(body)
    IN  IF ~len.ok \/ len.value < -1 THEN Malformed
        ELSE IF len.value = -1 THEN Taken(None, len.rest)
        ELSE take(len.rest, len.value)

\* `for _ in 0..count`: a negative count takes nothing.
Many(takes(_), body, count) ==
    LET step(read, i) ==
            IF ~read.ok THEN Malformed
            ELSE LET next == takes(read.rest)
                 IN  IF next.ok THEN Taken(Append(read.value, next.value), next.rest)
                     ELSE Malformed
    IN  FoldLeft(step, Taken(<<>>, body), [i \in 1..count |-> i])

\* A count and that many items, as every list of the protocol is written.
Counted(takes(_), body) ==
    LET count == take_i16(body)
    IN  IF count.ok THEN Many(takes, count.rest, count.value) ELSE Malformed

-----------------------------------------------------------------------------
(* pgwire: the messages *)

\* What must be used up (DataRow, RowDescription).
UsedUp(read) == IF read.ok /\ read.rest # <<>> THEN Malformed ELSE read

parse_data_row(body) == UsedUp(Counted(take_nullable, body))

\* One field: its name, five numbers and, last, its format; of the numbers the
\* type's length and modifier are skipped.
take_field(body) ==
    LET name == take_cstr(body)
        numbers == IF name.ok THEN Many(take_i16, name.rest, 6) ELSE Malformed
    IN  IF ~numbers.ok THEN Malformed
        ELSE Taken([name |-> name.value, table_oid |-> numbers.value[1],
                    attnum |-> numbers.value[2], type_oid |-> numbers.value[3],
                    format |-> numbers.value[6]], numbers.rest)
parse_row_description(body) == UsedUp(Counted(take_field, body))

parse_bind(body) ==
    LET portal == take_cstr(body)
        statement == IF portal.ok THEN take_cstr(portal.rest) ELSE Malformed
        formats == IF statement.ok THEN Counted(take_i16, statement.rest) ELSE Malformed
        params == IF formats.ok THEN Counted(take_nullable, formats.rest) ELSE Malformed
    IN  IF ~params.ok THEN Malformed
        ELSE [ok |-> TRUE, portal |-> portal.value, statement |-> statement.value,
              formats |-> formats.value, params |-> params.value, results |-> params.rest]

\* parse_parse: the parameter types stay raw.
parse_parse(body) ==
    LET statement == take_cstr(body)
        query == IF statement.ok THEN take_cstr(statement.rest) ELSE Malformed
    IN  IF ~query.ok THEN Malformed
        ELSE [ok |-> TRUE, statement |-> statement.value, query |-> query.value,
              types |-> query.rest]

result_format_codes(bind) == Counted(take_i16, bind.results)

\* format_code, param_format: none is text, one is for all.
format_code(codes, index) ==
    CASE codes = <<>> -> 0
      [] Len(codes) = 1 -> codes[1]
      [] OTHER -> IF index \in DOMAIN codes THEN codes[index] ELSE 0

\* wire_count, push_nullable: a length that does not fit its field is refused.
Fits(n) == n < Half
push_nullable(value) == IF value = None THEN <<Unsigned(-1)>> ELSE <<Len(value)>> \o value
Pushed(values) == <<Len(values)>> \o FlattenSeq([i \in DOMAIN values |-> push_nullable(values[i])])
Encodable(values) ==
    Fits(Len(values)) /\ \A i \in DOMAIN values : values[i] = None \/ Fits(Len(values[i]))

encode_data_row(values) == IF Encodable(values) THEN Pushed(values) ELSE None

encode_parse(statement, query, types) == statement \o <<0>> \o query \o <<0>> \o types

encode_bind(portal, statement, formats, params, results) ==
    IF ~Fits(Len(formats)) \/ ~Encodable(params) THEN None
    ELSE portal \o <<0>> \o statement \o <<0>> \o <<Len(formats)>>
         \o [i \in DOMAIN formats |-> Unsigned(formats[i])] \o Pushed(params) \o results

\* QueryRewriter::encode_param for a bytea: raw, or the \x spelling of its hex.
HexMark == Half
encode_param(value, binary) == IF binary THEN value ELSE <<HexMark>> \o value

-----------------------------------------------------------------------------
(* QueryRewriter::bind around the codec: parameter index is sealed *)

Sealing == <<1>>

\* Mutant of rewritten_bind: the first format code is taken for every one.
rewritten_first_format(body, index) ==
    LET b == parse_bind(body)
        binary == b.formats # <<>> /\ b.formats[1] = 1
        values == IF index \in DOMAIN b.params /\ b.params[index] # None
                  THEN [b.params EXCEPT ![index] = encode_param(Sealing, binary)]
                  ELSE b.params
    IN  encode_bind(b.portal, b.statement, b.formats, values, b.results)

rewritten_bind(body, index) ==
    LET b == parse_bind(body)
        binary == format_code(b.formats, index) = 1
        values == IF index \in DOMAIN b.params /\ b.params[index] # None
                  THEN [b.params EXCEPT ![index] = encode_param(Sealing, binary)]
                  ELSE b.params
    IN  encode_bind(b.portal, b.statement, b.formats, values, b.results)

\* How a client writes a Bind (external: the protocol).
OnTheWire(m) ==
    m.portal \o <<0>> \o m.statement \o <<0>> \o <<Len(m.formats)>> \o m.formats
    \o <<Len(m.params)>>
    \o FlattenSeq([i \in DOMAIN m.params |->
            IF m.params[i] = None THEN <<2 * Half - 1>> ELSE <<Len(m.params[i])>> \o m.params[i]])
    \o <<Len(m.results)>> \o m.results

\* How a server describes columns (external: the protocol).
Described(fields) ==
    <<Len(fields)>> \o FlattenSeq([i \in DOMAIN fields |->
        fields[i].name \o <<0, fields[i].table_oid, fields[i].attnum, fields[i].type_oid, 3, 3,
                            fields[i].format>>])
FieldsOf(m) ==
    [i \in DOMAIN m.formats |->
        [name |-> m.statement, table_oid |-> i, attnum |-> 2, type_oid |-> 1,
         format |-> m.formats[i]]]

\* The bytes of a value that a server takes for the sealed parameter
\* (external: bytea_in and bytea_recv, after the protocol's shorthand).
Received(m, index) ==
    LET code == IF Len(m.formats) = 0 THEN 0
                ELSE IF Len(m.formats) = 1 THEN m.formats[1] ELSE m.formats[index]
    IN  IF code = 1 THEN Sealing ELSE <<HexMark>> \o Sealing

-----------------------------------------------------------------------------
(* array.rs: the text format of a bound array *)

Quote == "dquote"
Slash == "backslash"
Blank(c) == c = " "

RECURSIVE skip_whitespace(_, _)
skip_whitespace(s, at) ==
    IF at <= Len(s) /\ Blank(s[at]) THEN skip_whitespace(s, at + 1) ELSE at

\* An element and where the scan goes on, or None.
RECURSIVE quoted_element(_, _, _)
quoted_element(s, at, value) ==
    CASE at > Len(s) -> None
      [] at <= Len(s) /\ s[at] = Slash ->
             IF at = Len(s) THEN None ELSE quoted_element(s, at + 2, Append(value, s[at + 1]))
      [] at <= Len(s) /\ s[at] = Quote -> <<at + 1, value>>
      [] OTHER -> quoted_element(s, at + 1, Append(value, s[at]))

\* Only unescaped blanks after `kept` characters are cut off.
RECURSIVE Trimmed(_, _)
Trimmed(value, kept) ==
    IF Len(value) > kept /\ Blank(Last(value)) THEN Trimmed(Front(value), kept) ELSE value

\* NULL is the null element unless a character of it was escaped.
Element(value, kept) ==
    LET text == Trimmed(value, kept) IN IF kept = 0 /\ text = <<"NULL">> THEN None ELSE text

\* Mutant of unquoted_element: a comma ends the element, escaped or not.
RECURSIVE split_at_commas(_, _, _, _)
split_at_commas(s, at, value, kept) ==
    CASE at > Len(s) \/ s[at] = "," -> <<at, Element(value, kept)>>
      [] at <= Len(s) /\ s[at] = Slash ->
             IF at = Len(s) THEN None
             ELSE IF s[at + 1] = "," THEN <<at + 1, Element(value, kept)>>
             ELSE split_at_commas(s, at + 2, Append(value, s[at + 1]), Len(value) + 1)
      [] at <= Len(s) /\ s[at] \in {"{", "}"} -> None
      [] OTHER -> split_at_commas(s, at + 1, Append(value, s[at]), kept)

RECURSIVE unquoted_element(_, _, _, _)
unquoted_element(s, at, value, kept) ==
    CASE at > Len(s) \/ s[at] = "," -> <<at, Element(value, kept)>>
      [] at <= Len(s) /\ s[at] = Slash ->
             IF at = Len(s) THEN None
             ELSE unquoted_element(s, at + 2, Append(value, s[at + 1]), Len(value) + 1)
      [] at <= Len(s) /\ s[at] \in {"{", "}"} -> None
      [] OTHER -> unquoted_element(s, at + 1, Append(value, s[at]), kept)

\* The loop of decode_text_array over the body between the braces.
RECURSIVE ElementsFrom(_, _, _)
ElementsFrom(s, at, elements) ==
    LET from == skip_whitespace(s, at)
        read == IF from <= Len(s) /\ s[from] = Quote THEN quoted_element(s, from + 1, <<>>)
                ELSE unquoted_element(s, from, <<>>, 0)
        to == skip_whitespace(s, read[1])
    IN  IF read = None \/ Len(elements) = MaxElements THEN None
        ELSE IF to > Len(s) THEN Append(elements, read[2])
        ELSE IF s[to] = "," THEN ElementsFrom(s, to + 1, Append(elements, read[2]))
        ELSE None

Stripped(s) ==
    LET in == {i \in DOMAIN s : ~Blank(s[i])}
    IN  IF in = {} THEN <<>>
        ELSE SubSeq(s, CHOOSE i \in in : \A j \in in : i <= j,
                       CHOOSE i \in in : \A j \in in : j <= i)

decode_text_array(s) ==
    LET text == Stripped(s)
        body == SubSeq(text, 2, Len(text) - 1)
    IN  IF Len(text) < 2 \/ text[1] # "{" \/ Last(text) # "}" THEN None
        ELSE IF Stripped(body) = <<>> THEN <<>>
        ELSE ElementsFrom(body, 1, <<>>)

\* The blind index of an element, and its text as the codec writes it.
Token(element) == ToString(<<"index">> \o element)
encode_text_array(tokens) ==
    LET one(t) == IF t = None THEN <<"NULL">> ELSE <<Quote, Slash, Slash, "x", t[1], Quote>>
    IN  <<"{">> \o FlattenSeq([i \in DOMAIN tokens |->
                        (IF i > 1 THEN <<",">> ELSE <<>>) \o one(tokens[i])]) \o <<"}">>

\* index_array, over what a decoder returned.
Indexed(elements) ==
    [i \in DOMAIN elements |-> IF elements[i] = None THEN None ELSE <<Token(elements[i])>>]
index_text_array(s) ==
    LET elements == decode_text_array(s)
    IN  IF elements = None THEN None ELSE encode_text_array(Indexed(elements))

\* What the server reads (external: array_in).  Each character is literal, or
\* stands for the array's structure: outside quotes and not after a backslash.
Marked(s) ==
    LET step(m, c) ==
            IF m.escaped THEN [m EXCEPT !.escaped = FALSE, !.out = Append(@, <<"literal", c>>)]
            ELSE IF c = Slash
            THEN [m EXCEPT !.escaped = TRUE, !.out = Append(@, <<"escape", c>>)]
            ELSE IF c = Quote
            THEN [m EXCEPT !.quoted = ~@, !.out = Append(@, <<"quote", c>>)]
            ELSE [m EXCEPT !.out = Append(@, <<IF m.quoted THEN "literal" ELSE "bare", c>>)]
    IN  FoldLeft(step, [escaped |-> FALSE, quoted |-> FALSE, out |-> <<>>], s)

Positions(marks, k, c) == {i \in DOMAIN marks : marks[i] = <<k, c>>}
Bared(run) == SelectSeq(run, LAMBDA m : m[1] = "literal" \/ m[1] = "bare")
StripMarks(run) ==
    LET in == {i \in DOMAIN run : run[i] # <<"bare", " ">>}
    IN  IF in = {} THEN <<>>
        ELSE SubSeq(run, CHOOSE i \in in : \A j \in in : i <= j,
                         CHOOSE i \in in : \A j \in in : j <= i)
\* An element is one quoted string, or bare and not empty.
RunValid(run) ==
    LET quotes == {i \in DOMAIN run : run[i][1] = "quote"}
    IN  /\ run # <<>>
        /\ quotes # {} => /\ quotes = {1, Len(run)}
                          /\ \A i \in DOMAIN run : run[i][1] # "bare"
RunValue(run) ==
    LET value == [i \in DOMAIN Bared(run) |-> Bared(run)[i][2]]
    IN  IF run = <<<<"bare", "NULL">>>> THEN None ELSE value

array_in(s) ==
    LET all == Marked(Stripped(s))
        marks == SubSeq(all.out, 2, Len(all.out) - 1)
        commas == {0, Len(marks) + 1} \cup Positions(marks, "bare", ",")
        order == SetToSortSeq(commas, <)
        run(i) == StripMarks(SubSeq(marks, order[i] + 1, order[i + 1] - 1))
        runs == [i \in 1..(Len(order) - 1) |-> run(i)]
    IN  IF \/ Len(all.out) < 2 \/ all.escaped \/ all.quoted
           \/ all.out[1] # <<"bare", "{">> \/ Last(all.out) # <<"bare", "}">>
           \/ Positions(marks, "bare", "{") \cup Positions(marks, "bare", "}") # {}
        THEN None
        ELSE IF runs = <<<<>>>> THEN <<>>
        ELSE IF \A i \in DOMAIN runs : RunValid(runs[i])
        THEN [i \in DOMAIN runs |-> RunValue(runs[i])]
        ELSE None

\* bytea_in of an element in \x form (external).
bytea_in(element) ==
    IF element = None THEN None
    ELSE IF Len(element) = 3 /\ element[1] = Slash /\ element[2] = "x" THEN <<element[3]>>
    ELSE <<"not bytea">>

-----------------------------------------------------------------------------
(* array.rs: the binary format, in the cells of a message *)

ByteaOid == 1
IndexableOids == {1, 2}

take_i32(body) == take_i16(body)

decode_binary_array(body) ==
    LET header == Many(take_i32, body, 3)
        sizes == IF header.ok THEN Many(take_i32, header.rest, 2) ELSE Malformed
        elements == IF sizes.ok /\ sizes.value[1] \in 0..MaxElements
                    THEN UsedUp(Many(take_nullable, sizes.rest, sizes.value[1])) ELSE Malformed
    IN  IF ~header.ok \/ header.value[3] \notin IndexableOids THEN None
        ELSE IF header.value[1] = 0
        THEN IF header.rest = <<>> THEN [elements |-> <<>>, lower |-> 1] ELSE None
        ELSE IF header.value[1] # 1 \/ ~elements.ok THEN None
        ELSE [elements |-> elements.value, lower |-> sizes.value[2]]

encode_binary_array(elements, lower) ==
    LET nulls == IF \E i \in DOMAIN elements : elements[i] = None THEN 1 ELSE 0
    IN  IF elements = <<>> THEN <<0, nulls, ByteaOid>>
        ELSE <<1, nulls, ByteaOid, Len(elements), Unsigned(lower)>>
             \o Tail(Pushed(elements))

\* index_array on the binary format; an index is a mark and the plaintext.
IndexMark == Half
IndexedCells(elements) ==
    [i \in DOMAIN elements |->
        IF elements[i] = None THEN None ELSE <<IndexMark>> \o elements[i]]
index_binary_array(body) ==
    LET array == decode_binary_array(body)
    IN  IF array = None THEN None
        ELSE encode_binary_array(IndexedCells(array.elements), array.lower)

\* A one-dimensional array on the wire (external: array_send).
ArrayOnTheWire(oid, elements, lower) ==
    IF elements = <<>> THEN <<0, 0, oid>>
    ELSE <<1, IF None \in Range(elements) THEN 1 ELSE 0, oid, Len(elements), Unsigned(lower)>>
         \o FlattenSeq([i \in DOMAIN elements |->
                IF elements[i] = None THEN <<2 * Half - 1>>
                ELSE <<Len(elements[i])>> \o elements[i]])

-----------------------------------------------------------------------------
(* rowkey.rs: one text for every spelling of a key *)

Digits == <<"0", "1">>
RECURSIVE InDigits(_)
InDigits(n) == IF n < 2 THEN <<Digits[n + 1]>> ELSE Append(InDigits(n \div 2), Digits[(n % 2) + 1])
\* to_string of an integer.
Rendered(n) == IF n < 0 THEN <<"-">> \o InDigits(-n) ELSE InDigits(n)

Valued(digits) == FoldLeft(LAMBDA n, d : 2 * n + (IF d = "1" THEN 1 ELSE 0), 0, digits)

\* Mutant of integer_text: the text is its own canonical form.
integer_text_verbatim(s) ==
    LET text == Stripped(s) IN IF text # <<>> /\ Range(text) \subseteq {"0", "1"} THEN text ELSE None

\* integer_text: trim, parse in the type's range, render.
integer_text(s) ==
    LET text == Stripped(s)
        digits == IF text # <<>> /\ text[1] \in {"+", "-"} THEN Tail(text) ELSE text
        n == IF text[1] = "-" THEN -Valued(digits) ELSE Valued(digits)
    IN  IF digits = <<>> \/ ~(Range(digits) \subseteq {"0", "1"}) \/ n \notin -Half..(Half - 1)
        THEN None ELSE Rendered(n)

\* A character of a uuid stands for four hexadecimal digits.
LowerCase(c) == IF c = "A" THEN "a" ELSE c
hyphenated(hex) == <<hex[1], "-", hex[2]>>

uuid_from_text(s) ==
    LET text == Stripped(s)
        inner == IF text = <<>> \/ text[1] # "{" THEN text
                 ELSE IF Last(text) = "}" THEN SubSeq(text, 2, Len(text) - 1) ELSE <<>>
        hex == SelectSeq(inner, LAMBDA c : c # "-")
    IN  IF Len(hex) # 2 \/ ~(Range(hex) \subseteq {"a", "A", "b"}) THEN None
        ELSE hyphenated([i \in 1..2 |-> LowerCase(hex[i])])

\* canonical, for the binary format of the two types.
fixed(body, width) == Len(body) = width
canonical_integer(body) == IF fixed(body, 1) THEN Rendered(Signed(body[1])) ELSE None
canonical_uuid(body) == IF fixed(body, 2) THEN hyphenated(body) ELSE None

\* The integers a text is read as (external: int4in), by what spells one.
Repeat(c, n) == [i \in 1..n |-> c]
int_in(s) ==
    {n \in -Half..(Half - 1) :
       \E before, after, zeros \in 0..Len(s) :
       \E sign \in IF n > 0 THEN {<<>>, <<"+">>} ELSE IF n < 0 THEN {<<"-">>}
                   ELSE {<<>>, <<"+">>, <<"-">>} :
          /\ before + after + zeros < Len(s)
          /\ s = Repeat(" ", before) \o sign \o Repeat("0", zeros)
                 \o InDigits(IF n < 0 THEN -n ELSE n) \o Repeat(" ", after)}

\* The uuids a text is read as (external: uuid_in): braces in pairs, hyphens
\* between groups.
uuid_in(s) ==
    {u \in {"a", "b"} \X {"a", "b"} :
       \E one, two \in {"a", "A", "b"}, hyphen \in {<<>>, <<"-">>}, braced \in BOOLEAN :
          /\ u = <<LowerCase(one), LowerCase(two)>>
          /\ s = (IF braced THEN <<"{">> ELSE <<>>) \o <<one>> \o hyphen \o <<two>>
                 \o (IF braced THEN <<"}">> ELSE <<>>)}

-----------------------------------------------------------------------------
(* lexer.rs: the ranges of the statements of a text *)

is_ident_byte(c) == c \in {"a", "e", "1"}
CharAt(s, i) == IF i \in DOMAIN s THEN s[i] ELSE "end"

\* Past the end of what starts before `at`, or None.
RECURSIVE QuoteEnd(_, _, _)
QuoteEnd(s, at, escapes) ==
    CASE at > Len(s) -> None
      [] at <= Len(s) /\ s[at] = Slash /\ escapes -> QuoteEnd(s, at + 2, escapes)
      [] at <= Len(s) /\ s[at] = "'" ->
             IF CharAt(s, at + 1) = "'" THEN QuoteEnd(s, at + 2, escapes) ELSE at + 1
      [] OTHER -> QuoteEnd(s, at + 1, escapes)

skip_quoted(s, at) ==
    QuoteEnd(s, at + 1, CharAt(s, at - 1) = "e" /\ ~is_ident_byte(CharAt(s, at - 2)))

is_dollar_tag(tag) == tag = <<>> \/ (tag[1] # "1" /\ \A i \in DOMAIN tag : is_ident_byte(tag[i]))

\* The end of the tag that a dollar sign opens, or None.
TagEnd(s, at) ==
    LET dollars == {i \in (at + 1)..Len(s) : s[i] = "$"}
        end == CHOOSE i \in dollars : \A j \in dollars : i <= j
    IN  IF dollars = {} THEN None
        ELSE IF is_dollar_tag(SubSeq(s, at + 1, end - 1)) THEN end ELSE None

BodyEnd(s, at, end) ==
    LET tag == SubSeq(s, at, end)
        closes == {i \in (end + 1)..(Len(s) - Len(tag) + 1) :
                     SubSeq(s, i, i + Len(tag) - 1) = tag}
    IN  IF closes = {} THEN None
        ELSE (CHOOSE i \in closes : \A j \in closes : i <= j) + Len(tag)

skip_dollar_quoted(s, at) ==
    LET end == TagEnd(s, at) IN IF end = None THEN at + 1 ELSE BodyEnd(s, at, end)

LineEnd(s, at) ==
    LET ends == {i \in at..Len(s) : s[i] = "newline"}
    IN  IF ends = {} THEN Len(s) + 1 ELSE CHOOSE i \in ends : \A j \in ends : i <= j

RECURSIVE skip_block_comment(_, _, _)
skip_block_comment(s, at, depth) ==
    LET two == <<CharAt(s, at), CharAt(s, at + 1)>>
    IN  CASE at >= Len(s) -> None
          [] at < Len(s) /\ two = <<"/", "*">> -> skip_block_comment(s, at + 2, depth + 1)
          [] at < Len(s) /\ two = <<"*", "/">> ->
                 IF depth = 1 THEN at + 2 ELSE skip_block_comment(s, at + 2, depth - 1)
          [] OTHER -> skip_block_comment(s, at + 1, depth)

\* push_statement: a range, trimmed, unless there is nothing in it.
White == {" ", "newline"}
Pushing(ranges, s, start, end) ==
    LET in == {i \in start..end : s[i] \notin White}
    IN  IF in = {} THEN ranges
        ELSE Append(ranges, <<CHOOSE i \in in : \A j \in in : i <= j,
                              CHOOSE i \in in : \A j \in in : j <= i>>)

RECURSIVE Ranges(_, _, _, _)
Ranges(s, at, start, ranges) ==
    LET jump == CASE CharAt(s, at) = "'" -> skip_quoted(s, at)
                  [] CharAt(s, at) = "$" -> skip_dollar_quoted(s, at)
                  [] CharAt(s, at) = "-" /\ CharAt(s, at + 1) = "-" -> LineEnd(s, at)
                  [] CharAt(s, at) = "/" /\ CharAt(s, at + 1) = "*" -> skip_block_comment(s, at, 0)
                  [] OTHER -> at + 1
    IN  IF at > Len(s) THEN Pushing(ranges, s, start, Len(s))
        ELSE IF CharAt(s, at) = ";" THEN Ranges(s, at + 1, at + 1, Pushing(ranges, s, start, at - 1))
        ELSE IF jump = None THEN None
        ELSE Ranges(s, jump, start, ranges)
statement_ranges(s) == Ranges(s, 1, 1, <<>>)

\* reassemble: the text that is relayed, with Rendering(i) for what is
\* rendered anew (render_validated, whose failure ends the session).
Rendering(i) == <<"R", "S", "T">>[i]
Renderings(n) == FlattenSeq([i \in 1..n |->
    (IF i > 1 THEN <<";", " ">> ELSE <<>>) \o <<Rendering(i)>>])
\* Mutant of reassemble: ranges left over are not counted.
reassemble_zipped(s, n, changed) ==
    LET ranges == statement_ranges(s)
        between(i) == SubSeq(s, IF i = 1 THEN 1 ELSE ranges[i - 1][2] + 1, ranges[i][1] - 1)
        statement(i) == IF i \in changed THEN <<Rendering(i)>>
                        ELSE SubSeq(s, ranges[i][1], ranges[i][2])
    IN  IF ranges = None THEN Renderings(n)
        ELSE IF Len(ranges) < n THEN Renderings(n)
        ELSE FlattenSeq([i \in 1..n |-> between(i) \o statement(i)])
             \o (IF n = 0 THEN s ELSE SubSeq(s, ranges[n][2] + 1, Len(s)))

reassemble(s, n, changed) ==
    LET ranges == statement_ranges(s)
        between(i) == SubSeq(s, IF i = 1 THEN 1 ELSE ranges[i - 1][2] + 1, ranges[i][1] - 1)
        statement(i) == IF i \in changed THEN <<Rendering(i)>>
                        ELSE SubSeq(s, ranges[i][1], ranges[i][2])
    IN  IF ranges = None THEN Renderings(n)
        ELSE IF Len(ranges) # n THEN Renderings(n)
        ELSE FlattenSeq([i \in 1..n |-> between(i) \o statement(i)])
             \o (IF n = 0 THEN s ELSE SubSeq(s, ranges[n][2] + 1, Len(s)))

\* The server's lexical rules (external), one token at a time: its kind and
\* where the next one starts, or None.  A dollar sign continues a name.
Continues(c) == c \in {"a", "e", "1", "$"}
RECURSIVE NameEnd(_, _)
NameEnd(s, at) == IF Continues(CharAt(s, at)) THEN NameEnd(s, at + 1) ELSE at
RECURSIVE NumberEnd(_, _)
NumberEnd(s, at) == IF CharAt(s, at) = "1" THEN NumberEnd(s, at + 1) ELSE at
Lexeme(s, at) ==
    LET c == CharAt(s, at)
        next == CharAt(s, at + 1)
        tag == TagEnd(s, at)
    IN  CASE c = "e" /\ next = "'" -> <<"token", QuoteEnd(s, at + 2, TRUE)>>
          [] c \in {"a", "e"} /\ ~(c = "e" /\ next = "'") -> <<"token", NameEnd(s, at)>>
          [] c = "1" -> <<"token", NumberEnd(s, at)>>
          [] c = "'" -> <<"token", QuoteEnd(s, at + 1, FALSE)>>
          [] c = "$" /\ tag # None -> <<"token", BodyEnd(s, at, tag)>>
          [] c = "-" /\ next = "-" -> <<"blank", LineEnd(s, at)>>
          [] c = "/" /\ next = "*" -> <<"blank", skip_block_comment(s, at, 0)>>
          [] c \in White -> <<"blank", at + 1>>
          [] c = ";" -> <<"semicolon", at + 1>>
          [] OTHER -> <<"token", at + 1>>
\* The tokens of each statement; a statement without any is none.
RECURSIVE Lexed(_, _, _, _)
Lexed(s, at, statements, tokens) ==
    LET lexeme == Lexeme(s, at)
        closed == IF tokens = <<>> THEN statements ELSE Append(statements, tokens)
    IN  IF at > Len(s) THEN closed
        ELSE IF lexeme[2] = None THEN None
        ELSE CASE lexeme[1] = "blank" -> Lexed(s, lexeme[2], statements, tokens)
               [] lexeme[1] = "semicolon" -> Lexed(s, lexeme[2], closed, <<>>)
               [] lexeme[1] = "token" ->
                      Lexed(s, lexeme[2], statements,
                            Append(tokens, SubSeq(s, at, lexeme[2] - 1)))
Statements(s) == Lexed(s, 1, <<>>, <<>>)

-----------------------------------------------------------------------------
(* Behaviours *)

CodecInit ==
    \/ /\ subject = "bind" /\ sent \in Messages /\ input = OnTheWire(sent)
    \/ /\ subject = "array" /\ sent \in Messages
       /\ sent.portal \o sent.statement \o sent.formats \o sent.results = <<>>
       /\ input = ArrayOnTheWire(2, sent.params, 1)
    \/ /\ subject \in {"text array", "integer", "uuid", "sql"}
       /\ sent = None
       /\ input = IF subject = "text array" THEN <<"{">> ELSE <<>>

WireBodies == {"bind", "array"}
Alphabet ==
    CASE subject = "text array" ->
             {<<c>> : c \in {"{", "}", ",", Quote, Slash, " ", "a", "NULL"}}
      [] subject = "integer" -> {<<c>> : c \in {" ", "+", "-", "0", "1"}}
      [] subject = "uuid" -> {<<c>> : c \in {"{", "}", "-", "a", "A", "b", " "}}
      [] subject = "sql" -> SqlPieces

\* The next piece of a text; `sent` counts the pieces of a SQL text.
Write(piece) ==
    /\ subject \notin WireBodies
    /\ IF sent = None THEN sent' = 1 ELSE sent' = sent + 1
    /\ sent' <= IF subject = "sql" THEN MaxPieces ELSE MaxText
    /\ input' = input \o piece
    /\ UNCHANGED subject

\* A body cut short, or with one cell changed.
Intact == subject = "bind" /\ input = OnTheWire(sent)
Damage ==
    /\ Intact \/ (subject = "array" /\ input = ArrayOnTheWire(2, sent.params, 1))
    /\ \/ \E n \in 0..(Len(input) - 1) : input' = SubSeq(input, 1, n)
       \/ \E i \in DOMAIN input, c \in 0..(2 * Half - 1) : input' = [input EXCEPT ![i] = c]
    /\ UNCHANGED <<subject, sent>>

CodecNext == (subject \notin WireBodies /\ \E piece \in Alphabet : Write(piece)) \/ Damage

-----------------------------------------------------------------------------
(* What the conversions promise *)

Reencoded(b) == encode_bind(b.portal, b.statement, b.formats, b.params, b.results)
\* A count the wire shows as negative.
CountsShown(b) ==
    LET formats == Len(b.portal) + Len(b.statement) + 3
    IN  Fits(input[formats]) /\ Fits(input[formats + Len(b.formats) + 1])

(***************************************************************************)
(* Rewriting one parameter of a Bind changes that parameter only, and the  *)
(* server reads it as the sealed bytes whichever of the protocol's format  *)
(* shorthands the client used.  A damaged body is refused or taken apart   *)
(* and put together again as it was: Bind, Parse and DataRow bodies alike  *)
(* (parse_bind, encode_bind, parse_data_row, encode_data_row), and a row   *)
(* description cut short or run over is refused.                           *)
(***************************************************************************)
MessagesFaithful ==
    LET b == parse_bind(input)
        row == parse_data_row(input)
        parse == parse_parse(input)
    IN  subject = "bind" =>
        /\ Intact => LET described == Described(FieldsOf(sent))
                     IN  /\ parse_row_description(described).value = FieldsOf(sent)
                         /\ \A n \in 0..(Len(described) - 1) :
                                ~parse_row_description(SubSeq(described, 1, n)).ok
                         /\ ~parse_row_description(Append(described, 0)).ok
        /\ Intact => \A i \in DOMAIN sent.params :
              /\ result_format_codes(b).value = sent.results
              /\ sent.params[i] # None =>
                    rewritten_bind(input, i)
                      = OnTheWire([sent EXCEPT !.params[i] = Received(sent, i)])
        /\ b.ok => (~CountsShown(b) \/ Reencoded(b) = input)
        /\ row.ok => (~Fits(input[1]) \/ encode_data_row(row.value) = input)
        /\ parse.ok => encode_parse(parse.statement, parse.query, parse.types) = input

(***************************************************************************)
(* A bound array reaches the server as the blind indexes of the elements   *)
(* the server would have read in what the client sent, NULL for NULL and   *)
(* in order, or it is not touched at all (index_array): never an index of  *)
(* a value nobody stored.                                                  *)
(***************************************************************************)
ArraysFaithful ==
    /\ subject = "text array" =>
          LET server == array_in(input)
              indexed == array_in(index_text_array(input))
          IN  server = None \/ index_text_array(input) = None
              \/ [i \in DOMAIN indexed |-> bytea_in(indexed[i])] = Indexed(server)
    /\ subject = "array" =>
          LET array == decode_binary_array(input)
          IN  IF array = None
              THEN input # ArrayOnTheWire(2, sent.params, 1) \/ Len(sent.params) > MaxElements
              ELSE /\ ArrayOnTheWire(input[3], array.elements, array.lower)
                        = [input EXCEPT ![2] = IF None \in Range(array.elements) THEN 1 ELSE 0]
                      \/ array.elements = <<>>
                   /\ index_binary_array(input)
                        = ArrayOnTheWire(ByteaOid, IndexedCells(array.elements), array.lower)

(***************************************************************************)
(* A row key has one canonical text: whatever spelling of it the server    *)
(* accepts on input gives the text its binary form gives, and a text the   *)
(* server refuses gives none (integer_text, uuid_from_text, canonical).    *)
(***************************************************************************)
KeysAgree ==
    /\ subject = "integer" =>
          /\ \A n \in int_in(input) : integer_text(input) = canonical_integer(<<Unsigned(n)>>)
          /\ integer_text(input) # None => int_in(input) # {}
    /\ subject = "uuid" =>
          \A u \in uuid_in(input) : uuid_from_text(input) = canonical_uuid(u)

\* Relaying text with some statements rendered anew leaves the server the
\* same statements, each as the client wrote it or in its own rendering.
SameStatements(s) ==
    LET statements == Statements(s)
        relayed(changed) == Statements(reassemble(s, Len(statements), changed))
    IN  statements # None =>
        \A changed \in SUBSET (DOMAIN statements) \ {{}} :
            /\ relayed(changed) # None
            /\ Len(relayed(changed)) = Len(statements)
            /\ \A i \in DOMAIN statements :
                  \/ relayed(changed)[i] = <<<<Rendering(i)>>>>
                  \/ i \notin changed /\ relayed(changed)[i] = statements[i]

\* A dollar sign inside a name.
DollarInName(s) ==
    \E i \in DOMAIN Statements(s) : \E j \in DOMAIN Statements(s)[i] :
        LET token == Statements(s)[i][j]
        IN  token[1] \in {"a", "e"} /\ Len(token) > 1 /\ token[2] # "'" /\ "$" \in Range(token)

(***************************************************************************)
(* Wherever strings, dollar-quoted bodies, comments and separators stand,  *)
(* reassemble replaces the statements that changed and no other, or gives  *)
(* up and renders all of them.  Names with a dollar sign are left out: see *)
(* RangesFollowStatements.                                                 *)
(***************************************************************************)
StatementsKept ==
    subject = "sql" =>
        Statements(input) = None \/ DollarInName(input) \/ SameStatements(input)

(***************************************************************************)
(* The same of every text: is_dollar_tag's comment says that taking a      *)
(* dollar sign for a tag the server does not see "costs only the caller's  *)
(* text-preservation fast path".                                           *)
(***************************************************************************)
RangesFollowStatements == subject = "sql" => SameStatements(input)

=============================================================================
