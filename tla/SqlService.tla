------------------------------ MODULE SqlService -------------------------------
(***************************************************************************)
(* What the server promises its clients: every statement a client sends    *)
(* takes effect once, whole and one at a time, and the client receives the *)
(* answer to it.  A statement is what docs/sql-reference.md says it means, *)
(* but for an INSERT with too few values, of which it says nothing.        *)
(* A row is the sequence of its values as SELECT shows them.               *)
(***************************************************************************)
EXTENDS Naturals, Sequences, FiniteSets
LOCAL INSTANCE Bags
LOCAL INSTANCE BagsExt

CONSTANTS
    Clients,
    Statement,  \* what the clients ask for
    Literal,    \* the values of each column type
    Default,    \* the value of each column type that stands for a missing one
    Earlier,    \* the tables an earlier session may have left
    NoAnswer    \* what a client has that was not answered

VARIABLES
    up,     \* whether the service is
    db,     \* the tables: columns and bag of rows
    call,   \* each client's statement, from sending it to receiving the answer
    got     \* the last answer each client received

vars == <<up, db, call, got>>

Idle == [at |-> "idle"]
Asked(s) == [at |-> "asked", stmt |-> s]
Answered(s, result) == [at |-> "answered", stmt |-> s, result |-> result]

Done(rows, n) == [success |-> TRUE, rows |-> rows, count |-> n]
Rejected == [success |-> FALSE, rows |-> EmptyBag, count |-> 0]

-------------------------------------------------------------------------------
(* What a statement means: the tables after it and the answer.                *)

WellTyped(s, tables) ==
    LET columns == tables[s.table].columns
    IN  /\ Len(s.row) <= Len(columns)
        /\ \A i \in 1 .. Len(s.row) : s.row[i] \in Literal[columns[i].type_id]

Legal(s, tables) ==
    CASE s.op = "create" -> s.table \notin DOMAIN tables
      [] s.op = "insert" -> s.table \in DOMAIN tables /\ WellTyped(s, tables)
      [] s.op = "select" -> s.table \in DOMAIN tables
      [] s.op = "delete" -> s.table \in DOMAIN tables
      [] s.op = "delete where" ->
             /\ s.table \in DOMAIN tables
             /\ \E i \in 1 .. Len(tables[s.table].columns) :
                   tables[s.table].columns[i].name = s.column
      [] s.op = "commit" -> TRUE
      [] OTHER -> FALSE

\* The row an INSERT leaves in a table.  The documentation has INSERTs of full rows
\* only; that a missing value is one of zero bytes is what the code does
\* (src/type/tuple.cpp).
FullRow(s, columns) ==
    [i \in 1 .. Len(columns) |->
        IF i <= Len(s.row) THEN s.row[i] ELSE Default[columns[i].type_id]]

\* The rows a DELETE takes.
Taken(s, table) ==
    IF s.op = "delete" THEN DOMAIN table.rows
    ELSE {r \in DOMAIN table.rows :
             \E i \in 1 .. Len(r) : table.columns[i].name = s.column /\ r[i] = s.value}

Restricted(bag, S) == [r \in S |-> bag[r]]

TablesAfter(s, tables) ==
    CASE s.op = "create" ->
             [n \in DOMAIN tables \cup {s.table} |->
                 IF n = s.table THEN [columns |-> s.columns, rows |-> EmptyBag]
                 ELSE tables[n]]
      [] s.op = "insert" ->
             [tables EXCEPT ![s.table].rows =
                 BagAdd(@, FullRow(s, tables[s.table].columns))]
      [] s.op \in {"delete", "delete where"} ->
             [tables EXCEPT ![s.table].rows =
                 Restricted(@, DOMAIN @ \ Taken(s, tables[s.table]))]
      [] OTHER -> tables

Answer(s, tables) ==
    CASE s.op \in {"create", "insert"} -> Done(EmptyBag, 1)
      [] s.op = "select" -> Done(tables[s.table].rows, BagCardinality(tables[s.table].rows))
      [] s.op \in {"delete", "delete where"} ->
             Done(EmptyBag, BagCardinality(Restricted(tables[s.table].rows,
                                                      Taken(s, tables[s.table]))))
      [] s.op = "commit" -> Done(EmptyBag, Cardinality(DOMAIN tables))

-------------------------------------------------------------------------------

Ask(c, s) ==
    /\ call[c] = Idle
    /\ call' = [call EXCEPT ![c] = Asked(s)]
    /\ UNCHANGED <<up, db, got>>

Do(c) ==
    /\ up /\ call[c].at = "asked"
    /\ LET s == call[c].stmt
       IN  \/ /\ s.op = "nothing"
              /\ call' = [call EXCEPT ![c] = Answered(s, NoAnswer)]
              /\ UNCHANGED db
           \/ /\ s.op # "nothing" /\ ~Legal(s, db)
              /\ call' = [call EXCEPT ![c] = Answered(s, Rejected)]
              /\ UNCHANGED db
           \/ /\ s.op # "nothing" /\ Legal(s, db)
              /\ call' = [call EXCEPT ![c] = Answered(s, Answer(s, db))]
              /\ db' = TablesAfter(s, db)
    /\ UNCHANGED <<up, got>>

Take(c) ==
    /\ call[c].at = "answered"
    /\ got' = [got EXCEPT ![c] = call[c].result]
    /\ call' = [call EXCEPT ![c] = Idle]
    /\ UNCHANGED <<up, db>>

\* A client that leaves early gives up nothing: its statement still takes effect.
GiveUp(c) ==
    /\ ~up
    /\ call' = [call EXCEPT ![c] = Idle]
    /\ got' = [got EXCEPT ![c] = NoAnswer]
    /\ UNCHANGED <<up, db>>

Stop ==
    /\ up
    /\ up' = FALSE
    /\ UNCHANGED <<db, call, got>>

Init ==
    /\ up = TRUE
    /\ db \in Earlier
    /\ call = [c \in Clients |-> Idle]
    /\ got = [c \in Clients |-> NoAnswer]

Next ==
    \/ \E c \in Clients :
          \/ \E s \in Statement : Ask(c, s)
          \/ Do(c)
          \/ Take(c)
          \/ GiveUp(c)
    \/ Stop

Spec == Init /\ [][Next]_vars
===============================================================================
