--------------------------------- MODULE Server --------------------------------
(***************************************************************************)
(* TcpServer (src/network/tcp_server.cpp) and its clients, which are as    *)
(* DBClient of tools/bench.cpp: connect, read up to the prompt, send a     *)
(* line and read up to the prompt again, send "exit" and close.  A client  *)
(* in Rude may also break off at any point.                                *)
(*                                                                         *)
(* The server is one thread: it serves the connection it accepted until    *)
(* that ends, while others wait in the listen queue.  A statement runs in  *)
(* one step; Database has its steps.                                       *)
(*                                                                         *)
(* A line is sent by one send, is shorter than HandleClient's buffer and   *)
(* arrives whole.  Of the network only this is modelled: a send on a       *)
(* connection the client has closed makes its host answer with a reset,    *)
(* some time later, and a send on a connection that was reset fails or     *)
(* raises SIGPIPE, which ends the process.                                 *)
(***************************************************************************)
EXTENDS Sql

CONSTANTS
    Clients,
    Rude,       \* the clients that may break off
    Corpus,     \* what the clients send: texts, each with what it means
    Sessions,   \* the tables LoadCatalog may find
    Literal,    \* the values of each column type, as printed
    Default,    \* the printed value of zero bytes
    Backlog,    \* listen's argument
    MaxQueries, \* bound: statements sent in all
    NoAnswer    \* got: no answer was received

ASSUME ServerAssumption ==
    /\ Rude \subseteq Clients
    /\ Backlog \in Nat \ {0} /\ MaxQueries \in Nat

VARIABLES
    running,    \* whether the process is
    pc,         \* where Start and HandleClient are
    cur,        \* client_socket
    response,   \* response
    tables,     \* the catalog's tables
    backlog,    \* connections not yet accepted
    link,       \* the server's end of each connection
    inbox,      \* lines on their way to the server
    outbox,     \* messages on their way to the client
    phase,      \* where each client is
    buf,        \* drain's buf
    queries,    \* statements sent so far
    call,       \* history: each client's statement and the answer computed for it
    got         \* the answer each client read last

server == <<pc, cur, response, tables>>
network == <<backlog, link, inbox, outbox>>
clients == <<phase, buf, queries, got>>
vars == <<running, server, network, clients, call>>

Welcome == [kind |-> "welcome"]
Prompt == [kind |-> "prompt"]
Bye == [kind |-> "bye"]
Response(result) == [kind |-> "response", result |-> result]
ExitLine == <<<<"exit">>>>

\* The types ParseCreate gives a column.
TypeIds == {"INTEGER", "BOOLEAN"}
IsSchema(columns) ==
    columns \in Seq([name : {columns[i].name : i \in DOMAIN columns}, type_id : TypeIds])

\* A text means what Corpus says it does: an INSERT has the values of its row, and
\* one that cannot be converted to a type is no value of the type.
ASSUME CorpusAssumption ==
    /\ \A db \in Sessions : \A n \in DOMAIN db :
          DOMAIN db[n] = {"columns", "rows"} /\ IsSchema(db[n].columns)
    /\ \A e \in Corpus : Parse(e.text).type = "CREATE_TABLE" => IsSchema(Parse(e.text).columns)
    /\ \A e \in Corpus : Parse(e.text).type = "INSERT" =>
          /\ e.means.op = "insert" /\ e.means.table = Parse(e.text).table_name
          /\ Len(e.means.row) = Len(Parse(e.text).raw_values)
          /\ \A i \in 1 .. Len(e.means.row), type_id \in TypeIds :
                e.means.row[i] \in Literal[type_id] =>
                    Conversion(Parse(e.text).raw_values[i], type_id) = "value"

\* The tables with their rows as SELECT shows them.
Shown(t) == [n \in DOMAIN t |-> [columns |-> t[n].columns, rows |-> PrintedRows(t[n])]]

Service == INSTANCE SqlService WITH
    Statement <- {e.means : e \in Corpus}, up <- running,
    Earlier <- {Shown(t) : t \in Sessions}, db <- Shown(tables)

Idle == [at |-> "idle"]

-------------------------------------------------------------------------------
(* The server.                                                                *)

\* send(client_socket, ...), whose result HandleClient ignores; then on to `next`.
Send(msg, next) ==
    /\ \/ /\ link[cur] = "open"
          /\ outbox' = [outbox EXCEPT ![cur] = Append(@, msg)]
          /\ pc' = next
          /\ UNCHANGED <<running, link>>
       \/ /\ link[cur] \in {"closed", "poked"}
          /\ link' = [link EXCEPT ![cur] = "poked"]
          /\ pc' = next
          /\ UNCHANGED <<running, outbox>>
       \/ /\ link[cur] = "reset"
          /\ pc' = next
          /\ UNCHANGED <<running, link, outbox>>
       \/ /\ link[cur] = "reset"        \* SIGPIPE
          /\ running' = FALSE
          /\ UNCHANGED <<pc, link, outbox>>
    /\ UNCHANGED <<cur, response, tables, backlog, inbox, clients, call>>

\* Mutant: the accepted connection stays in the queue.
QueueAfterAcceptKept == backlog

QueueAfterAccept == Tail(backlog)

Accept ==
    /\ pc = "accept" /\ backlog # <<>>
    /\ cur' = Head(backlog)
    /\ backlog' = QueueAfterAccept
    /\ pc' = "greet"
    /\ UNCHANGED <<running, response, tables, link, inbox, outbox, clients, call>>

Greet == pc = "greet" /\ Send(Welcome, "read")

\* Mutant: only an error ends the session.
ClosedByClientError == link[cur] = "reset"

\* valread <= 0: there is nothing left to read.
ClosedByClient == link[cur] \in {"closed", "poked", "reset"}

ReadEnd ==
    /\ pc = "read" /\ inbox[cur] = <<>>
    /\ ClosedByClient
    /\ pc' = "close"
    /\ UNCHANGED <<running, cur, response, tables, network, clients, call>>

\* The answer to a client's statement is known.
Computed(c, result) ==
    call' = IF call[c].at = "asked"
            THEN [call EXCEPT ![c] = [at |-> "answered", stmt |-> @.stmt, result |-> result]]
            ELSE call

ReadLine(line) ==
    /\ pc = "read" /\ inbox[cur] # <<>>
    /\ line = Head(inbox[cur])
    /\ inbox' = [inbox EXCEPT ![cur] = Tail(@)]
    /\ UNCHANGED <<cur, backlog, link, clients>>

\* Mutant: the loop goes on without `continue`, and the empty line is parsed.
ReadEmptyFallsThrough(line) ==
    /\ ReadLine(line) /\ line = <<>>
    /\ Computed(cur, NoAnswer)
    /\ response' = Failure
    /\ outbox' = [outbox EXCEPT ![cur] = Append(@, Prompt)]
    /\ pc' = "respond"
    /\ UNCHANGED <<running, tables>>

\* An empty line: only the prompt is sent.
ReadEmpty(line) ==
    /\ ReadLine(line) /\ line = <<>>
    /\ Computed(cur, NoAnswer)
    /\ pc' = "prompt"
    /\ UNCHANGED <<running, response, tables, outbox>>

ReadExit(line) ==
    /\ ReadLine(line) /\ line \in {ExitLine, <<<<"quit">>>>}
    /\ pc' = "bye"
    /\ UNCHANGED <<running, response, tables, outbox, call>>

\* Parse and Execute; an exception that HandleClient does not catch ends the
\* process.
ReadStatement(line) ==
    /\ ReadLine(line) /\ line \notin {<<>>, ExitLine, <<<<"quit">>>>}
    /\ \E stmt \in {Parse(line)} :
          \E o \in Execute(tables, stmt) :
             \/ /\ o.throws
                /\ running' = FALSE
                /\ UNCHANGED <<pc, response, tables, call>>
             \/ /\ ~o.throws
                /\ tables' = o.tables
                /\ response' = o.result
                /\ Computed(cur, o.result)
                /\ pc' = "respond"
                /\ UNCHANGED running
    /\ UNCHANGED outbox

SendResponse == pc = "respond" /\ Send(Response(response), "prompt")
SendPrompt == pc = "prompt" /\ Send(Prompt, "read")

\* Mutant: the session goes on after "Bye!".
AfterByePrompt == "prompt"

AfterBye == "close"
SendBye == pc = "bye" /\ Send(Bye, AfterBye)

\* close(client_socket).
CloseClient ==
    /\ pc = "close"
    /\ link' = [link EXCEPT ![cur] = "ended"]
    /\ pc' = "accept"
    /\ UNCHANGED <<running, cur, response, tables, backlog, inbox, outbox, clients, call>>

ServerStep ==
    /\ running
    /\ \/ Accept
       \/ Greet
       \/ ReadEnd
       \/ \E line \in {e.text : e \in Corpus} \cup {ExitLine} :
             ReadEmpty(line) \/ ReadExit(line) \/ ReadStatement(line)
       \/ SendResponse
       \/ SendPrompt
       \/ SendBye
       \/ CloseClient

-------------------------------------------------------------------------------
(* The clients.                                                               *)

\* DBClient's constructor; drain waits for the welcome.
Connect(c) ==
    /\ running /\ phase[c] = "away"
    /\ Len(backlog) < Backlog
    /\ backlog' = Append(backlog, c)
    /\ link' = [link EXCEPT ![c] = "open"]
    /\ phase' = [phase EXCEPT ![c] = "draining"]
    /\ UNCHANGED <<running, server, inbox, outbox, buf, queries, call, got>>

\* Whether drain returns with the text s: it ends in "> ".
Drained(s) == s[Len(s)] \in {Welcome, Prompt}

\* What query returns, read by its caller.
AnswerIn(s) ==
    LET answers == SelectSeq(s, LAMBDA msg : msg.kind = "response")
    IN  IF Len(answers) = 1 THEN answers[1].result ELSE NoAnswer

\* recv in drain, of some of the messages there are.
Recv(c) ==
    /\ phase[c] = "draining"
    /\ \E n \in 1 .. Len(outbox[c]) :
          LET all == buf[c] \o SubSeq(outbox[c], 1, n)
          IN  /\ outbox' = [outbox EXCEPT ![c] = SubSeq(@, n + 1, Len(@))]
              /\ \/ /\ ~Drained(all)
                    /\ buf' = [buf EXCEPT ![c] = all]
                    /\ UNCHANGED <<phase, call, got>>
                 \/ /\ Drained(all)
                    /\ buf' = [buf EXCEPT ![c] = <<>>]
                    /\ phase' = [phase EXCEPT ![c] = "ready"]
                    /\ got' = [got EXCEPT ![c] = AnswerIn(all)]
                    /\ call' = [call EXCEPT ![c] = Idle]
    /\ UNCHANGED <<running, server, backlog, link, inbox, queries>>

\* send_line in query.
Ask(c, e) ==
    /\ phase[c] = "ready"
    /\ queries < MaxQueries     \* bound
    /\ queries' = queries + 1
    /\ inbox' = [inbox EXCEPT ![c] = Append(@, e.text)]
    /\ call' = [call EXCEPT ![c] = [at |-> "asked", stmt |-> e.means]]
    /\ phase' = [phase EXCEPT ![c] = "draining"]
    /\ UNCHANGED <<running, server, backlog, link, outbox, buf, got>>

\* DBClient's destructor: send_line("exit"), then close.
Leave(c) ==
    /\ phase[c] = "ready"
    /\ inbox' = [inbox EXCEPT ![c] = Append(@, ExitLine)]
    /\ phase' = [phase EXCEPT ![c] = "leaving"]
    /\ UNCHANGED <<running, server, backlog, link, outbox, buf, queries, call, got>>

\* The client's socket is closed: with unread bytes that is a reset.
Gone(c) ==
    /\ phase' = [phase EXCEPT ![c] = "gone"]
    /\ link' = [link EXCEPT ![c] =
                   IF @ # "open" THEN @ ELSE IF outbox[c] = <<>> THEN "closed" ELSE "reset"]
    /\ outbox' = [outbox EXCEPT ![c] = <<>>]
    /\ buf' = [buf EXCEPT ![c] = <<>>]
    /\ UNCHANGED <<running, server, backlog, inbox, queries>>

Close(c) ==
    /\ phase[c] = "leaving"
    /\ Gone(c)
    /\ UNCHANGED <<call, got>>

\* recv in drain returns 0: the server closed the connection, or is no more.
RecvEnd(c) ==
    /\ phase[c] = "draining" /\ outbox[c] = <<>>
    /\ ~running \/ link[c] = "ended"
    /\ Gone(c)
    /\ call' = [call EXCEPT ![c] = Idle]
    /\ got' = [got EXCEPT ![c] = NoAnswer]

\* A client program that is stopped, or does not wait; the line it sent is still
\* there for the server to read.
BreakOff(c) ==
    /\ c \in Rude /\ phase[c] \in {"draining", "ready"}
    /\ Gone(c)
    /\ UNCHANGED <<call, got>>

ClientStep(c) ==
    \/ Recv(c)
    \/ \E e \in Corpus : Ask(c, e)
    \/ Leave(c)
    \/ Close(c)
    \/ RecvEnd(c)

\* The reset that answers a send to a closed connection arrives.
Reset(c) ==
    /\ link[c] = "poked"
    /\ link' = [link EXCEPT ![c] = "reset"]
    /\ UNCHANGED <<running, server, backlog, inbox, outbox, clients, call>>

-------------------------------------------------------------------------------

Init ==
    /\ running = TRUE /\ pc = "accept" /\ cur \in Clients
    /\ response = Failure
    /\ tables \in Sessions
    /\ backlog = <<>>
    /\ link = [c \in Clients |-> "away"]
    /\ inbox = [c \in Clients |-> <<>>]
    /\ outbox = [c \in Clients |-> <<>>]
    /\ phase = [c \in Clients |-> "away"]
    /\ buf = [c \in Clients |-> <<>>]
    /\ queries = 0
    /\ call = [c \in Clients |-> Idle]
    /\ got = [c \in Clients |-> NoAnswer]

Next ==
    \/ ServerStep
    \/ \E c \in Clients : Connect(c) \/ ClientStep(c) \/ BreakOff(c) \/ Reset(c)

\* The server runs on, and so does a client that has connected.
Spec ==
    /\ Init /\ [][Next]_vars
    /\ WF_vars(ServerStep)
    /\ \A c \in Clients : WF_vars(ClientStep(c))

-------------------------------------------------------------------------------
(* Properties.                                                                *)

\* Every variable keeps its type, and a connection is in one place only: in the
\* listen queue, being served, or over.
ServerTypeOK ==
    /\ running \in BOOLEAN
    /\ pc \in {"accept", "greet", "read", "respond", "prompt", "bye", "close"}
    /\ link \in [Clients -> {"away", "open", "closed", "poked", "reset", "ended"}]
    /\ phase \in [Clients -> {"away", "draining", "ready", "leaving", "gone"}]
    /\ \A i \in 1 .. Len(backlog) : link[backlog[i]] \in {"open", "closed"}
    /\ \A i, j \in 1 .. Len(backlog) : backlog[i] = backlog[j] => i = j
    /\ pc # "accept" => \A i \in 1 .. Len(backlog) : backlog[i] # cur
    /\ \A c \in Clients : link[c] = "away" <=> phase[c] = "away"
    /\ queries \in 0 .. MaxQueries

\* HandleClient takes what one read returns for one statement, which is right
\* only while no second line can be there: every line is answered by one prompt,
\* so a client that waits for the prompt never has two lines under way.
OneLineInFlight ==
    \A c \in Clients :
        /\ Len(inbox[c]) <= 1
        /\ phase[c] = "ready" => inbox[c] = <<>> /\ outbox[c] = <<>>

\* Each statement of Corpus takes effect once and in whole, as Corpus says it
\* means, on the tuples' bytes as on the values, and each client reads the answer
\* to its own statement, whatever other clients do.  FormsAsDocumented is about the
\* documented forms of which this is not so.
ServiceKept == Service!Spec

\* The process ends only by an INSERT whose values do not fit the columns or by a
\* client that broke off; "exit" never ends it ("The server keeps running for new
\* clients", docs/sql-reference.md).
StopsForCause ==
    [][running /\ ~running' =>
          \/ cur \in Rude /\ link[cur] = "reset"
          \/ /\ call[cur].at = "asked" /\ call[cur].stmt.op = "insert"
             /\ ~Service!WellTyped(call[cur].stmt, Shown(tables))]_vars

\* A client that waits for the welcome or for an answer stops waiting, whoever is
\* served before it and however that session ended.
EveryClientServed ==
    \A c \in Clients : phase[c] = "draining" ~> phase[c] # "draining" \/ ~running

\* docs/sql-reference.md marks each form of a statement: "`COMMIT;` ✅ Implemented",
\* "`DELETE FROM t WHERE col = val;` ✅ Implemented" with boolean values of which
\* "`TRUE`, `False`, `FALSE` all work", "`DELETE FROM t WHERE col > val;` ❌ Not
\* implemented".  A statement of an implemented form succeeds and does what it
\* means; one of a form that is not implemented changes no table.
FormsAsDocumented ==
    [][\A c \in Clients :
          call[c].at = "asked" /\ call'[c].at = "answered" =>
              LET s == call[c].stmt
              IN  /\ Service!Legal(s, Shown(tables)) =>
                        /\ call'[c].result.success
                        /\ Shown(tables') = Service!TablesAfter(s, Shown(tables))
                  /\ s.op = "unsupported" => tables' = tables]_vars
===============================================================================
