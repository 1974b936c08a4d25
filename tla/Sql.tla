---------------------------------- MODULE Sql ----------------------------------
(***************************************************************************)
(* What one statement does: Parser (src/query/parser.cpp), the layout of a *)
(* tuple (Schema, Column, Value, Tuple, ValueFactory) and the answers of   *)
(* Executor (src/query/executor.cpp), as operators.                        *)
(*                                                                         *)
(* A text is a sequence of words, the pieces `>>` reads; a word is a       *)
(* sequence of atoms, which are names, keywords, numerals and single       *)
(* punctuation characters.  A text is one line, as the clients send it.    *)
(*                                                                         *)
(* A table is its columns and the bag of its tuples: where a tuple lies,   *)
(* and so the order a scan finds it in, is RecordManager's.  An integer    *)
(* has four bytes of ByteValues values each.                               *)
(***************************************************************************)
EXTENDS Integers, Sequences, FiniteSets
LOCAL INSTANCE Bags
LOCAL INSTANCE BagsExt
LOCAL INSTANCE SequencesExt
LOCAL INSTANCE FiniteSetsExt

CONSTANTS
    Upper,      \* toupper of every atom
    NumberOf,   \* the number std::stoi reads at the start of an atom
    Numeral,    \* std::to_string
    ByteValues  \* how many values a byte has: 256

ASSUME SqlAssumption ==
    /\ ByteValues \in Nat \ {0} /\ ByteValues % 2 = 0
    /\ DOMAIN NumberOf \subseteq DOMAIN Upper
    /\ \A a \in DOMAIN NumberOf : NumberOf[a] \in Int

-------------------------------------------------------------------------------
(* Parser.                                                                    *)

Unsupported == [type |-> "none"]

WordAt(text, k) == IF k <= Len(text) THEN text[k] ELSE <<>>
ToUpper(word) == [i \in 1 .. Len(word) |-> Upper[word[i]]]
Keyword(text, k) == ToUpper(WordAt(text, k))

\* Mutant: the semicolon stays.
WithoutSemicolonKept(word) == word

WithoutSemicolon(word) ==
    IF word # <<>> /\ word[Len(word)] = ";" THEN SubSeq(word, 1, Len(word) - 1) ELSE word

\* The words left of `word` when "(", ")", "," and ";" become blanks.
Split(word) ==
    LET blank(i) == i = 0 \/ i > Len(word) \/ word[i] \in {"(", ")", ",", ";"}
        starts == SelectSeq([i \in 1 .. Len(word) |-> i], LAMBDA i : ~blank(i) /\ blank(i - 1))
        stop(i) == CHOOSE j \in i .. Len(word) :
                       blank(j + 1) /\ \A k \in i .. j : ~blank(k)
    IN  [n \in 1 .. Len(starts) |-> SubSeq(word, starts[n], stop(starts[n]))]

\* What `>>` reads of the rest of the line, from word k on.
Rest(text, k) ==
    FlattenSeq([i \in 1 .. Len(text) - k + 1 |-> Split(text[k + i - 1])])

ParseCreate(text) ==
    LET rest == Rest(text, 4)
        typeOf(word) == IF ToUpper(word) = <<"BOOLEAN">> THEN "BOOLEAN" ELSE "INTEGER"
    IN  IF Keyword(text, 2) # <<"TABLE">> THEN Unsupported
        ELSE [type |-> "CREATE_TABLE", table_name |-> WordAt(text, 3),
              columns |-> [i \in 1 .. Len(rest) \div 2 |->
                              [name |-> rest[2 * i - 1], type_id |-> typeOf(rest[2 * i])]]]

ParseInsert(text) ==
    IF Keyword(text, 2) # <<"INTO">> \/ Keyword(text, 4) # <<"VALUES">> THEN Unsupported
    ELSE [type |-> "INSERT", table_name |-> WordAt(text, 3), raw_values |-> Rest(text, 5)]

ParseSelect(text) ==
    IF WordAt(text, 2) # <<"*">> \/ Keyword(text, 3) # <<"FROM">> THEN Unsupported
    ELSE [type |-> "SELECT", table_name |-> WithoutSemicolon(WordAt(text, 4))]

\* A WHERE with fewer than three words after it counts for nothing; the word
\* between column and value is not looked at.
ParseDelete(text) ==
    LET where == Keyword(text, 4) = <<"WHERE">> /\ Len(text) >= 7
    IN  IF Keyword(text, 2) # <<"FROM">> THEN Unsupported
        ELSE [type |-> "DELETE", table_name |-> WithoutSemicolon(WordAt(text, 3)),
              where_column |-> IF where THEN text[5] ELSE <<>>,
              where_value |-> IF where THEN WithoutSemicolon(text[7]) ELSE <<>>]

Parse(text) ==
    LET keyword == Keyword(text, 1)
    IN  CASE keyword = <<"CREATE">> -> ParseCreate(text)
          [] keyword = <<"INSERT">> -> ParseInsert(text)
          [] keyword = <<"SELECT">> -> ParseSelect(text)
          [] keyword = <<"COMMIT">> -> [type |-> "COMMIT"]
          [] keyword = <<"DELETE">> -> ParseDelete(text)
          [] OTHER -> Unsupported

-------------------------------------------------------------------------------
(* Values and tuples.                                                         *)

Length(type_id) == IF type_id = "INTEGER" THEN 4 ELSE 1

\* GetColOffset of column i, and for the one after the last the schema's length.
GetColOffset(columns, i) == MapThenSumSet(LAMBDA j : Length(columns[j].type_id), 1 .. i - 1)

IntValues == ByteValues * ByteValues * ByteValues * ByteValues
Int32 == -(IntValues \div 2) .. (IntValues \div 2) - 1
Digit(k) == IF k = 1 THEN 1 ELSE IF k = 2 THEN ByteValues
            ELSE IF k = 3 THEN ByteValues * ByteValues ELSE IntValues \div ByteValues

SerializeToChar(val, type_id) ==
    [k \in 1 .. Length(type_id) |-> (val \div Digit(k)) % ByteValues]

DeserializeFromChar(data, type_id) ==
    LET n == data[1] + data[2] * Digit(2) + data[3] * Digit(3) + data[4] * Digit(4)
    IN  IF type_id = "INTEGER" THEN (IF n \in Int32 THEN n ELSE n - IntValues)
        ELSE data[1]

\* ValueFactory::FromString, and whether it returns, throws what the executor
\* catches, or throws what nothing catches (std::stoi's exceptions).
FromString(raw, type_id) ==
    IF type_id = "BOOLEAN" THEN (IF ToUpper(raw) = <<"TRUE">> THEN 1 ELSE 0)
    ELSE NumberOf[raw[1]]

Conversion(raw, type_id) ==
    IF type_id = "BOOLEAN"
    THEN (IF ToUpper(raw) \in {<<"TRUE">>, <<"FALSE">>} THEN "value" ELSE "caught")
    ELSE (IF raw[1] \in DOMAIN NumberOf /\ NumberOf[raw[1]] \in Int32
          THEN "value" ELSE "uncaught")

\* ValueFactory::ToString.
Printed(val, type_id) ==
    IF type_id = "BOOLEAN" THEN (IF val # 0 THEN <<"true">> ELSE <<"false">>)
    ELSE <<Numeral[val]>>

\* The values copied to their columns' offsets, which leave no gap; the columns
\* that have no value keep zero bytes.
Tuple(values, columns) ==
    FlattenSeq([i \in 1 .. Len(columns) |->
        IF i <= Len(values) THEN SerializeToChar(values[i], columns[i].type_id)
        ELSE [k \in 1 .. Length(columns[i].type_id) |-> 0]])

GetValue(tuple, columns, i) ==
    DeserializeFromChar(SubSeq(tuple, GetColOffset(columns, i) + 1, Len(tuple)),
                        columns[i].type_id)

\* A tuple as SELECT shows it.
PrintedRow(tuple, columns) ==
    [i \in 1 .. Len(columns) |-> Printed(GetValue(tuple, columns, i), columns[i].type_id)]

PrintedRows(table) ==
    BagOfAll(LAMBDA tuple : PrintedRow(tuple, table.columns), table.rows)

-------------------------------------------------------------------------------
(* Executor: the set of outcomes of a statement, each the tables after it,    *)
(* the answer, and whether an exception nothing catches ends the process.     *)

Failure == [success |-> FALSE, rows |-> EmptyBag, count |-> 0]
Success(rows, count) == [success |-> TRUE, rows |-> rows, count |-> count]

Outcome(tables, result) == [tables |-> tables, result |-> result, throws |-> FALSE]
Throws(tables) == [tables |-> tables, result |-> Failure, throws |-> TRUE]

WithTable(tables, name, table) ==
    [n \in DOMAIN tables \cup {name} |-> IF n = name THEN table ELSE tables[n]]

ExecuteCreate(tables, stmt) ==
    IF stmt.table_name \in DOMAIN tables THEN {Outcome(tables, Failure)}
    ELSE {Outcome(WithTable(tables, stmt.table_name,
                            [columns |-> stmt.columns, rows |-> EmptyBag]),
                  Success(EmptyBag, 1))}

\* A tuple of length 0 is refused by RecordManager::Insert, and "1 row inserted."
\* is answered all the same.
WithTuple(tables, name, tuple) ==
    IF tuple = <<>> THEN tables ELSE [tables EXCEPT ![name].rows = BagAdd(@, tuple)]

\* The first value that cannot be converted decides.  For one more value than
\* there are columns GetColumn reads past the end of columns_: an exception of
\* either kind, or a copy to an offset nobody set, which is not followed.
ExecuteInsert(tables, stmt) ==
    LET columns == tables[stmt.table_name].columns
        raw == stmt.raw_values
        conversion(i) == IF i > Len(columns) THEN "undefined"
                         ELSE Conversion(raw[i], columns[i].type_id)
        bad == {i \in 1 .. Len(raw) : conversion(i) # "value"}
        first == conversion(CHOOSE i \in bad : \A j \in bad : i <= j)
        tuple == Tuple([i \in 1 .. Len(raw) |-> FromString(raw[i], columns[i].type_id)],
                       columns)
    IN  IF stmt.table_name \notin DOMAIN tables THEN {Outcome(tables, Failure)}
        ELSE IF bad # {}
        THEN (IF first \in {"caught", "undefined"} THEN {Outcome(tables, Failure)} ELSE {})
             \cup (IF first \in {"uncaught", "undefined"} THEN {Throws(tables)} ELSE {})
        ELSE {Outcome(WithTuple(tables, stmt.table_name, tuple), Success(EmptyBag, 1))}

ExecuteSelect(tables, stmt) ==
    IF stmt.table_name \notin DOMAIN tables THEN {Outcome(tables, Failure)}
    ELSE LET rows == PrintedRows(tables[stmt.table_name])
         IN  {Outcome(tables, Success(rows, BagCardinality(rows)))}

\* Whether DELETE takes the tuple: the first column of that name, printed.
Matches(tuple, columns, stmt) ==
    \/ stmt.where_column = <<>>
    \/ \E i \in 1 .. Len(columns) :
          /\ columns[i].name = stmt.where_column
          /\ \A j \in 1 .. i - 1 : columns[j].name # stmt.where_column
          /\ PrintedRow(tuple, columns)[i] = stmt.where_value

ExecuteDelete(tables, stmt) ==
    LET table == tables[stmt.table_name]
        known == \/ stmt.where_column = <<>>
                 \/ \E i \in 1 .. Len(table.columns) :
                       table.columns[i].name = stmt.where_column
        kept == {t \in DOMAIN table.rows : ~Matches(t, table.columns, stmt)}
        rest == [t \in kept |-> table.rows[t]]
    IN  IF stmt.table_name \notin DOMAIN tables THEN {Outcome(tables, Failure)}
        ELSE IF ~known THEN {Outcome(tables, Failure)}
        ELSE {Outcome([tables EXCEPT ![stmt.table_name].rows = rest],
                      Success(EmptyBag, BagCardinality(table.rows) - BagCardinality(rest)))}

ExecuteCommit(tables) == {Outcome(tables, Success(EmptyBag, Cardinality(DOMAIN tables)))}

\* TcpServer's call of Execute, or its own answer when Parse returned nullptr.
Execute(tables, stmt) ==
    CASE stmt.type = "CREATE_TABLE" -> ExecuteCreate(tables, stmt)
      [] stmt.type = "INSERT" -> ExecuteInsert(tables, stmt)
      [] stmt.type = "SELECT" -> ExecuteSelect(tables, stmt)
      [] stmt.type = "COMMIT" -> ExecuteCommit(tables)
      [] stmt.type = "DELETE" -> ExecuteDelete(tables, stmt)
      [] OTHER -> {Outcome(tables, Failure)}
===============================================================================
