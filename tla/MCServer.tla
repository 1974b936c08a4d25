------------------------------- MODULE MCServer --------------------------------
(* Server for TLC: two tables, bytes of two values and so integers from -8 to *)
(* 7, and statement forms of docs/sql-reference.md.                           *)
EXTENDS Server, TLC

CONSTANT Forms  \* the groups of statement forms the clients use: see MCCorpus

LowerToUpper ==
    "create" :> "CREATE" @@ "insert" :> "INSERT" @@ "into" :> "INTO" @@
    "Select" :> "SELECT" @@ "from" :> "FROM" @@ "true" :> "TRUE" @@
    "True" :> "TRUE" @@ "false" :> "FALSE" @@ "Boolean" :> "BOOLEAN"
MCNumberOf == "7" :> 7 @@ "-3" :> -3 @@ "007" :> 7 @@ "8" :> 8
MCUpper ==
    LET atoms == DOMAIN LowerToUpper \cup DOMAIN MCNumberOf \cup
                 {"CREATE", "TABLE", "INSERT", "INTO", "VALUES", "SELECT", "FROM",
                  "DELETE", "WHERE", "COMMIT", "UPDATE", "INTEGER", "BOOLEAN", "exit",
                  "AND", "TRUE", "FALSE",
                  "t", "u", "id", "ok", "x", "*", "=", ">", "(", ")", ",", ";"}
    IN  [a \in atoms |-> IF a \in DOMAIN LowerToUpper THEN LowerToUpper[a] ELSE a]
MCNumeral == [n \in Int32 |-> ToString(n)]
MCLiteral ==
    [type_id \in {"INTEGER", "BOOLEAN"} |->
        IF type_id = "BOOLEAN" THEN {<<"true">>, <<"false">>}
        ELSE {<<MCNumeral[n]>> : n \in Int32}]
MCDefault == "INTEGER" :> <<"0">> @@ "BOOLEAN" :> <<"false">>

t == <<"t">>
u == <<"u">>
Columns == <<[name |-> <<"id">>, type_id |-> "INTEGER"],
             [name |-> <<"ok">>, type_id |-> "BOOLEAN"]>>
Flipped == <<Columns[2], Columns[1]>>

\* CREATE TABLE u (ok Boolean, id INTEGER);   create TABLE t (x INTEGER)
Creates ==
    {[text |-> <<<<"CREATE">>, <<"TABLE">>, u, <<"(", "ok">>, <<"Boolean", ",">>,
                 <<"id">>, <<"INTEGER", ")", ";">>>>,
      means |-> [op |-> "create", table |-> u, columns |-> Flipped]],
     [text |-> <<<<"create">>, <<"TABLE">>, t, <<"(", "x">>, <<"INTEGER", ")">>>>,
      means |-> [op |-> "create", table |-> t,
                 columns |-> <<[name |-> <<"x">>, type_id |-> "INTEGER"]>>]]}

\* INSERT into t VALUES (-3, True);   and so on.  The last three do not fit the
\* columns: no boolean, a number out of range, a value too many.  The fourth is
\* short of a value, a form the documentation does not have.
Values(name, words, row) ==
    [text |-> <<<<"INSERT">>, <<"into">>, name, <<"VALUES">>>> \o words,
     means |-> [op |-> "insert", table |-> name, row |-> row]]
Inserts ==
    {Values(t, <<<<"(", "-3", ",">>, <<"True", ")", ";">>>>, <<<<"-3">>, <<"true">>>>),
     Values(t, <<<<"(", "007", ",", "false", ")", ";">>>>, <<<<"7">>, <<"false">>>>),
     Values(u, <<<<"(", "true", ",">>, <<"7", ")", ";">>>>, <<<<"true">>, <<"7">>>>),
     Values(t, <<<<"7">>>>, <<<<"7">>>>),
     Values(t, <<<<"(", "7", ",">>, <<"x", ")", ";">>>>, <<<<"7">>, <<"x">>>>),
     Values(t, <<<<"(", "8", ",">>, <<"true", ")", ";">>>>, <<<<"8">>, <<"true">>>>),
     Values(t, <<<<"7">>, <<"true">>, <<"7">>>>, <<<<"7">>, <<"true">>, <<"7">>>>)}

\* DELETE from t WHERE id = -3;   and so on.  There is no column x.
Where(name, column, words, value) ==
    [text |-> <<<<"DELETE">>, <<"from">>, name, <<"WHERE">>, column, <<"=">>>> \o words,
     means |-> [op |-> "delete where", table |-> name, column |-> column, value |-> value]]
Deletes ==
    {Where(t, <<"id">>, <<<<"-3", ";">>>>, <<"-3">>),
     Where(u, <<"id">>, <<<<"7">>>>, <<"7">>),
     Where(t, <<"ok">>, <<<<"true", ";">>>>, <<"true">>),
     Where(t, <<"x">>, <<<<"7">>, <<";">>>>, <<"7">>),
     [text |-> <<<<"DELETE">>, <<"FROM">>, <<"t", ";">>>>,
      means |-> [op |-> "delete", table |-> t]]}

Selects ==
    {[text |-> <<<<"Select">>, <<"*">>, <<"FROM">>, <<"t", ";">>>>,
      means |-> [op |-> "select", table |-> t]],
     [text |-> <<<<"SELECT">>, <<"*">>, <<"from">>, u>>,
      means |-> [op |-> "select", table |-> u]]}

Others ==
    {[text |-> <<>>, means |-> [op |-> "nothing"]],
     [text |-> <<<<"COMMIT">>>>, means |-> [op |-> "commit"]],
     [text |-> <<<<"SELECT">>, <<"id">>, <<"FROM">>, <<"t", ";">>>>,
      means |-> [op |-> "unsupported"]],
     [text |-> <<<<"INSERT">>, <<"INTO">>, t, <<"(", "id", ")">>, <<"VALUES">>, <<"7">>>>,
      means |-> [op |-> "unsupported"]],
     [text |-> <<<<"UPDATE">>, t>>, means |-> [op |-> "unsupported"]]}

\* DELETE from t WHERE ok = TRUE;
BooleanDeletes == {Where(t, <<"ok">>, <<<<"TRUE", ";">>>>, <<"true">>)}

\* DELETE FROM t WHERE id > 7;   DELETE FROM t WHERE id = 7 AND ok = true;
NotImplemented ==
    LET delete == <<<<"DELETE">>, <<"FROM">>, t, <<"WHERE">>, <<"id">>>>
    IN  {[text |-> text, means |-> [op |-> "unsupported"]] : text \in
            {delete \o <<<<">">>, <<"7", ";">>>>,
             delete \o <<<<"=">>, <<"7">>, <<"AND">>, <<"ok">>, <<"=">>, <<"true", ";">>>>}}

\* COMMIT;
SemicolonCommits == {[text |-> <<<<"COMMIT", ";">>>>, means |-> [op |-> "commit"]]}

\* The forms the server has right are "core"; the other groups are documented forms
\* that it has wrong, each in its own way.
MCCorpus ==
    (IF "core" \in Forms
     THEN Creates \cup Inserts \cup Deletes \cup Selects \cup Others ELSE {})
    \cup (IF "commit" \in Forms THEN SemicolonCommits ELSE {})
    \cup (IF "boolean" \in Forms THEN BooleanDeletes ELSE {})
    \cup (IF "not implemented" \in Forms THEN NotImplemented ELSE {})

\* No table, or t with the rows (-3, true) and twice (7, false), and u with the
\* row (true, 7).
MCSessions ==
    {[n \in {} |-> 0],
     t :> [columns |-> Columns, rows |-> Tuple(<<-3, 1>>, Columns) :> 1 @@
                                         Tuple(<<7, 0>>, Columns) :> 2] @@
     u :> [columns |-> Flipped, rows |-> Tuple(<<1, 7>>, Flipped) :> 1]}
===============================================================================
