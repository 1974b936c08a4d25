----------------------------- MODULE ServerProofs ------------------------------
(***************************************************************************)
(* Proofs about Server, for any clients, listen queue and statements: a    *)
(* connection is in one place, no client has two lines under way, and the  *)
(* process ends only for the causes StopsForCause names.                   *)
(***************************************************************************)
EXTENDS Server, SequenceTheorems, TLAPS

-------------------------------------------------------------------------------
(* The inductive invariant.                                                   *)

Lines == {e.text : e \in Corpus} \cup {ExitLine}
Quit == <<<<"quit">>>>

Serving(c) == pc # "accept" /\ cur = c
Queued(c) == \E i \in 1 .. Len(backlog) : backlog[i] = c

Types ==
    /\ running \in BOOLEAN
    /\ pc \in {"accept", "greet", "read", "respond", "prompt", "bye", "close"}
    /\ cur \in Clients
    /\ backlog \in Seq(Clients)
    /\ link \in [Clients -> {"away", "open", "closed", "poked", "reset", "ended"}]
    /\ inbox \in [Clients -> Seq(Lines)]
    /\ phase \in [Clients -> {"away", "draining", "ready", "leaving", "gone"}]
    /\ queries \in 0 .. MaxQueries
    /\ DOMAIN call = Clients

\* The messages have no fixed type: an answer holds what a SELECT found.
Messages == \E S : outbox \in [Clients -> Seq(S)] /\ buf \in [Clients -> Seq(S)]

\* No message of s ends what a client waits for; only the last one does.
Unfinished(s) == \A i \in 1 .. Len(s) : s[i] \notin {Welcome, Prompt}
Finished(s) ==
    /\ Len(s) > 0 /\ s[Len(s)] \in {Welcome, Prompt}
    /\ \A i \in 1 .. Len(s) - 1 : s[i] \notin {Welcome, Prompt}

\* A connection that is neither new nor over is in the queue or being served.
PlaceOK(c) ==
    /\ Serving(c) => ~Queued(c)
    /\ link[c] \notin {"away", "ended"} <=> Queued(c) \/ Serving(c)
    /\ Queued(c) => link[c] \in {"open", "closed"} /\ outbox[c] = <<>>
    /\ link[c] = "away" <=> phase[c] = "away"
    /\ phase[c] \in {"draining", "leaving"} => link[c] \in {"open", "ended"}

\* A client that waits has either a line at the server, which then still owes it
\* the prompt, or the prompt; a client that does not wait has neither.
DrainingOK(c) ==
    IF Serving(c) /\ pc = "read"
    THEN \/ Len(inbox[c]) = 1 /\ Unfinished(outbox[c])
         \/ inbox[c] = <<>> /\ (Finished(outbox[c]) \/ (~running /\ Unfinished(outbox[c])))
    ELSE inbox[c] = <<>> /\ Unfinished(outbox[c])

TalkOK(c) ==
    /\ phase[c] = "away" => inbox[c] = <<>> /\ outbox[c] = <<>>
    /\ phase[c] = "draining" => DrainingOK(c)
    /\ phase[c] = "ready" => /\ Serving(c) /\ pc = "read" /\ link[c] = "open"
                             /\ inbox[c] = <<>> /\ outbox[c] = <<>>
    /\ phase[c] \in {"leaving", "gone"} => Len(inbox[c]) <= 1

\* A line that waits to be read is "exit", or its client's statement.
CallOK(c) ==
    inbox[c] # <<>> =>
        \/ inbox[c][1] = ExitLine
        \/ \E e \in Corpus : /\ e.text = inbox[c][1]
                             /\ call[c] = [at |-> "asked", stmt |-> e.means]

\* The session of a client that left as it should ends with "Bye!".
PoliteOK(c) ==
    phase[c] \in {"leaving", "gone"} =>
        /\ ~Queued(c)
        /\ Serving(c) => \/ /\ pc = "read" /\ inbox[c] = <<ExitLine>>
                            /\ outbox[c] = <<>> /\ link[c] \in {"open", "closed"}
                         \/ /\ pc = "bye" /\ outbox[c] = <<>>
                            /\ link[c] \in {"open", "closed"}
                         \/ pc = "close"

ClientOK(c) ==
    /\ PlaceOK(c)
    /\ TalkOK(c)
    /\ running => CallOK(c)
    /\ running /\ c \notin Rude => PoliteOK(c)

NoDup(s) == \A i, j \in 1 .. Len(s) : s[i] = s[j] => i = j

IInv ==
    /\ Types
    /\ Messages
    /\ NoDup(backlog)
    /\ \A c \in Clients : ClientOK(c)

-------------------------------------------------------------------------------
(* The messages a client waits for.                                           *)

LEMMA AppendMessage ==
    ASSUME NEW S, NEW s \in Seq(S), NEW msg, Unfinished(s)
    PROVE  /\ msg \in {Welcome, Prompt} => Finished(Append(s, msg))
           /\ msg \notin {Welcome, Prompt} => Unfinished(Append(s, msg))
<1> DEFINE T == S \cup {msg}
<1>0. s \in Seq(T) /\ msg \in T
  BY SeqMonotonic
<1> HIDE DEF T
<1>1. /\ Len(Append(s, msg)) = Len(s) + 1 /\ Append(s, msg)[Len(s) + 1] = msg
      /\ \A i \in 1 .. Len(s) : Append(s, msg)[i] = s[i]
      /\ Len(s) \in Nat
  BY <1>0
<1> QED BY <1>1 DEF Unfinished, Finished

\* What is left once n messages were received.
After(s, n) == SubSeq(s, n + 1, Len(s))

LEMMA RestOfMessages ==
    ASSUME NEW S, NEW s \in Seq(S), NEW n \in 1 .. Len(s), NEW r, r = After(s, n)
    PROVE  /\ r \in Seq(S)
           /\ Unfinished(s) => Unfinished(r) /\ s[n] \notin {Welcome, Prompt}
           /\ Finished(s) /\ s[n] \in {Welcome, Prompt} => r = <<>>
           /\ Finished(s) /\ s[n] \notin {Welcome, Prompt} => Finished(r)
<1>1. /\ r \in Seq(S) /\ Len(s) \in Nat /\ n \in Nat /\ n >= 1 /\ n <= Len(s)
      /\ Len(r) = Len(s) - n
      /\ \A i \in 1 .. Len(s) - n : r[i] = s[n + i]
  BY DEF After
<1>2. Unfinished(s) => Unfinished(r) /\ s[n] \notin {Welcome, Prompt}
  BY <1>1 DEF Unfinished
<1>3. ASSUME Finished(s), s[n] \in {Welcome, Prompt} PROVE r = <<>>
  <2>1. n = Len(s)
    BY <1>1, <1>3 DEF Finished
  <2> QED BY <1>1, <2>1
<1>4. ASSUME Finished(s), s[n] \notin {Welcome, Prompt} PROVE Finished(r)
  <2>1. n < Len(s)
    BY <1>1, <1>4 DEF Finished
  <2>2. Len(r) > 0 /\ r[Len(r)] = s[Len(s)]
    <3>1. PICK k \in Nat : k = Len(r)
      BY <1>1
    <3>2. k \in 1 .. Len(s) - n /\ n + k = Len(s)
      BY <1>1, <2>1, <3>1
    <3>3. r[k] = s[n + k]
      BY <1>1, <3>2
    <3>4. k > 0
      BY <3>2
    <3> QED BY <3>1, <3>2, <3>3, <3>4
  <2>3. \A i \in 1 .. Len(r) - 1 : r[i] = s[n + i] /\ n + i \in 1 .. Len(s) - 1
    BY <1>1
  <2> QED BY <1>4, <2>2, <2>3 DEF Finished
<1> QED BY <1>1, <1>2, <1>3, <1>4

-------------------------------------------------------------------------------
(* A step of the server or of a client leaves the other clients alone.        *)

LEMMA Unaffected ==
    ASSUME NEW c \in Clients, ClientOK(c), running' => running,
           Serving(c)' <=> Serving(c), Queued(c)' <=> Queued(c), Serving(c) => pc' = pc,
           link'[c] = link[c], inbox'[c] = inbox[c], outbox'[c] = outbox[c],
           phase'[c] = phase[c], call'[c] = call[c]
    PROVE  ClientOK(c)'
<1>1. PlaceOK(c)'
  BY DEF ClientOK, PlaceOK
<1>2. TalkOK(c)'
  <2>1. DrainingOK(c) => DrainingOK(c)'
    BY DEF DrainingOK
  <2> QED BY <2>1 DEF ClientOK, TalkOK
<1>3. (running => CallOK(c))'
  BY DEF ClientOK, CallOK
<1>4. (running /\ c \notin Rude => PoliteOK(c))'
  BY DEF ClientOK, PoliteOK
<1> QED BY <1>1, <1>2, <1>3, <1>4 DEF ClientOK

\* A step of client a, or of the network on its connection.
LEMMA OthersKept ==
    ASSUME IInv, NEW a \in Clients, UNCHANGED <<running, pc, cur, backlog>>,
           \A c \in Clients \ {a} : /\ link'[c] = link[c] /\ inbox'[c] = inbox[c]
                                    /\ outbox'[c] = outbox[c] /\ phase'[c] = phase[c]
                                    /\ call'[c] = call[c],
           Types', Messages', ClientOK(a)'
    PROVE  IInv'
<1>1. ASSUME NEW c \in Clients PROVE ClientOK(c)'
  <2>1. CASE c = a
    BY <2>1
  <2>2. CASE c # a
    <3>1. (Serving(c)' <=> Serving(c)) /\ (Queued(c)' <=> Queued(c))
      BY DEF Serving, Queued
    <3>2. ClientOK(c)
      BY DEF IInv
    <3> QED BY <2>2, <3>1, <3>2, Unaffected
  <2> QED BY <2>1, <2>2
<1>2. NoDup(backlog)'
  BY DEF IInv, NoDup
<1> QED BY <1>1, <1>2 DEF IInv

\* The place and the talk of a client that waits.
LEMMA Waiting ==
    ASSUME NEW c \in Clients, ClientOK(c), phase[c] = "draining"
    PROVE  /\ DrainingOK(c) /\ link[c] \in {"open", "ended"}
           /\ Serving(c) => link[c] = "open"
           /\ \/ Serving(c) /\ pc = "read" /\ Finished(outbox[c]) /\ inbox[c] = <<>>
              \/ Unfinished(outbox[c])
  BY DEF ClientOK, PlaceOK, TalkOK, DrainingOK

LEMMA RecvOK ==
    ASSUME IInv, NEW c \in Clients, Recv(c)
    PROVE  IInv'
<1>1. Types /\ ClientOK(c) /\ phase[c] = "draining"
  BY DEF IInv, Recv
<1>2. PICK S : outbox \in [Clients -> Seq(S)] /\ buf \in [Clients -> Seq(S)]
  BY DEF IInv, Messages
<1>3. PICK s \in Seq(S) : s = outbox[c]
  BY <1>2
<1>4. PICK b \in Seq(S) : b = buf[c]
  BY <1>2
<1>5. PICK n \in 1 .. Len(s) :
         LET all == b \o SubSeq(s, 1, n)
         IN  /\ outbox' = [outbox EXCEPT ![c] = SubSeq(s, n + 1, Len(s))]
             /\ \/ /\ ~Drained(all)
                   /\ buf' = [buf EXCEPT ![c] = all]
                   /\ UNCHANGED <<phase, call, got>>
                \/ /\ Drained(all)
                   /\ buf' = [buf EXCEPT ![c] = <<>>]
                   /\ phase' = [phase EXCEPT ![c] = "ready"]
                   /\ got' = [got EXCEPT ![c] = AnswerIn(all)]
                   /\ call' = [call EXCEPT ![c] = Idle]
  BY <1>3, <1>4 DEF Recv
<1>6. PICK all : all = b \o SubSeq(s, 1, n)
  OBVIOUS
<1>7. PICK r : r = After(s, n)
  OBVIOUS
<1>8. all \in Seq(S) /\ (Drained(all) <=> s[n] \in {Welcome, Prompt})
  <2>1. all \in Seq(S) /\ Len(all) = Len(b) + n /\ all[Len(b) + n] = s[n]
    BY <1>6
  <2> QED BY <2>1 DEF Drained
<1>9. /\ r \in Seq(S)
      /\ Unfinished(s) => Unfinished(r) /\ s[n] \notin {Welcome, Prompt}
      /\ Finished(s) /\ s[n] \in {Welcome, Prompt} => r = <<>>
      /\ Finished(s) /\ s[n] \notin {Welcome, Prompt} => Finished(r)
  BY <1>7, RestOfMessages
<1>10. /\ UNCHANGED <<running, pc, cur, backlog, link, inbox, queries>>
       /\ outbox' = [outbox EXCEPT ![c] = r]
  BY <1>5, <1>7 DEF Recv, server, After
<1>11. (Serving(c)' <=> Serving(c)) /\ (Queued(c)' <=> Queued(c))
  BY <1>10 DEF Serving, Queued
<1>12. outbox'[c] = r /\ outbox' \in [Clients -> Seq(S)] /\ ~Queued(c)
  <2>1. s # <<>>
    BY <1>5
  <2> QED BY <1>1, <1>2, <1>3, <1>9, <1>10, <2>1 DEF ClientOK, PlaceOK
<1>13. CASE ~Drained(all)
  <2>1. buf' = [buf EXCEPT ![c] = all] /\ UNCHANGED <<phase, call>>
    BY <1>5, <1>6, <1>13
  <2>2. buf' \in [Clients -> Seq(S)]
    BY <1>2, <1>8, <2>1
  <2>3. DrainingOK(c)'
    BY <1>1, <1>3, <1>8, <1>9, <1>10, <1>11, <1>12, <1>13, Waiting DEF DrainingOK
  <2>4. ClientOK(c)'
    BY <1>1, <1>10, <1>11, <1>12, <2>1, <2>3 DEF ClientOK, PlaceOK, TalkOK, CallOK, PoliteOK
  <2>5. Types' /\ Messages'
    BY <1>1, <1>10, <1>12, <2>1, <2>2 DEF Types, Messages
  <2>6. \A d \in Clients \ {c} : outbox'[d] = outbox[d]
    BY <1>2, <1>10
  <2> QED BY <1>10, <2>1, <2>4, <2>5, <2>6, OthersKept
<1>14. CASE Drained(all)
  <2>1. /\ buf' = [buf EXCEPT ![c] = <<>>] /\ phase' = [phase EXCEPT ![c] = "ready"]
        /\ call' = [call EXCEPT ![c] = Idle]
    BY <1>5, <1>6, <1>14
  <2>2. Serving(c) /\ pc = "read" /\ Finished(s) /\ inbox[c] = <<>> /\ link[c] = "open"
    BY <1>1, <1>3, <1>8, <1>9, <1>14, Waiting
  <2>3. r = <<>>
    BY <1>8, <1>9, <1>14, <2>2
  <2>4. phase'[c] = "ready" /\ \A d \in Clients \ {c} : phase'[d] = phase[d] /\ call'[d] = call[d]
    BY <1>1, <2>1 DEF Types
  <2>5. ClientOK(c)'
    BY <1>1, <1>10, <1>11, <1>12, <2>2, <2>3, <2>4
       DEF ClientOK, PlaceOK, TalkOK, CallOK, PoliteOK
  <2>6. buf' \in [Clients -> Seq(S)]
    BY <1>2, <2>1
  <2>7. Types' /\ Messages'
    BY <1>1, <1>10, <1>12, <2>1, <2>6 DEF Types, Messages
  <2>8. \A d \in Clients \ {c} : outbox'[d] = outbox[d]
    BY <1>2, <1>10
  <2> QED BY <1>10, <2>4, <2>5, <2>7, <2>8, OthersKept
<1> QED BY <1>13, <1>14

LEMMA OneLine ==
    ASSUME Types, NEW c \in Clients, ClientOK(c)
    PROVE  Len(inbox[c]) \in Nat /\ Len(inbox[c]) <= 1
<1>1. PICK s \in Seq(Lines) : s = inbox[c]
  BY DEF Types
<1>2. PICK n \in Nat : n = Len(s)
  OBVIOUS
<1>3. phase[c] \in {"away", "draining", "ready", "leaving", "gone"}
  BY DEF Types
<1>4. s = <<>> \/ Len(s) = 1 \/ Len(s) <= 1
  BY <1>1, <1>3 DEF ClientOK, TalkOK, DrainingOK
<1>5. s = <<>> => n = 0
  BY <1>2
<1>6. n <= 1
  BY <1>2, <1>4, <1>5
<1> QED BY <1>1, <1>2, <1>6

\* The client's socket is closed, by a client that left, that found the connection
\* over, or that is in Rude.
LEMMA GoneOK ==
    ASSUME IInv, NEW c \in Clients, phase[c] \in {"draining", "ready", "leaving"}, Gone(c),
           DOMAIN call' = Clients, \A d \in Clients \ {c} : call'[d] = call[d],
           running => CallOK(c)',
           running /\ c \notin Rude => phase[c] = "leaving" \/ link[c] = "ended"
    PROVE  IInv'
<1>1. Types /\ ClientOK(c)
  BY DEF IInv
<1>2. PICK S : outbox \in [Clients -> Seq(S)] /\ buf \in [Clients -> Seq(S)]
  BY DEF IInv, Messages
<1>3. PICK l : l = IF link[c] # "open" THEN link[c]
                   ELSE IF outbox[c] = <<>> THEN "closed" ELSE "reset"
  OBVIOUS
<1>4. /\ UNCHANGED <<running, pc, cur, backlog, inbox, queries>>
      /\ phase' = [phase EXCEPT ![c] = "gone"] /\ link' = [link EXCEPT ![c] = l]
      /\ outbox' = [outbox EXCEPT ![c] = <<>>] /\ buf' = [buf EXCEPT ![c] = <<>>]
  BY <1>3 DEF Gone, server
<1>5. /\ phase'[c] = "gone" /\ link'[c] = l /\ outbox'[c] = <<>>
      /\ \A d \in Clients \ {c} : /\ link'[d] = link[d] /\ outbox'[d] = outbox[d]
                                  /\ phase'[d] = phase[d]
  BY <1>1, <1>2, <1>4 DEF Types
<1>6. (Serving(c)' <=> Serving(c)) /\ (Queued(c)' <=> Queued(c))
  BY <1>4 DEF Serving, Queued
<1>7. link[c] \in {"open", "ended"} /\ Len(inbox[c]) <= 1
  BY <1>1, OneLine DEF ClientOK, PlaceOK, TalkOK
<1>8. PlaceOK(c)'
  BY <1>1, <1>3, <1>5, <1>6, <1>7 DEF ClientOK, PlaceOK
<1>9. (running /\ c \notin Rude => PoliteOK(c))'
  <2>1. CASE link[c] = "ended"
    <3>1. ~Queued(c) /\ ~Serving(c)
      BY <1>1, <2>1 DEF ClientOK, PlaceOK
    <3> QED BY <1>6, <3>1 DEF PoliteOK
  <2>2. CASE link[c] = "open" /\ running /\ c \notin Rude
    <3>1. PoliteOK(c) /\ phase[c] = "leaving"
      BY <1>1, <2>2 DEF ClientOK
    <3> QED BY <1>3, <1>4, <1>5, <1>6, <2>2, <3>1 DEF PoliteOK
  <2> QED BY <1>4, <1>7, <2>1, <2>2
<1>10. ClientOK(c)'
  BY <1>4, <1>5, <1>7, <1>8, <1>9 DEF ClientOK, TalkOK
<1>11. Types'
  <2>1. l \in {"away", "open", "closed", "poked", "reset", "ended"}
    BY <1>3, <1>7
  <2> QED BY <1>1, <1>4, <2>1 DEF Types
<1>12. Messages'
  <2>1. outbox' \in [Clients -> Seq(S)] /\ buf' \in [Clients -> Seq(S)]
    BY <1>2, <1>4
  <2> QED BY <2>1 DEF Messages
<1> QED BY <1>4, <1>5, <1>10, <1>11, <1>12, OthersKept

LEMMA CloseOK ==
    ASSUME IInv, NEW c \in Clients, Close(c) \/ BreakOff(c)
    PROVE  IInv'
<1>1. /\ Gone(c) /\ UNCHANGED <<call, inbox, running>> /\ ClientOK(c) /\ DOMAIN call = Clients
      /\ phase[c] \in {"draining", "ready", "leaving"}
      /\ c \notin Rude => phase[c] = "leaving"
  BY DEF Close, BreakOff, Gone, IInv, Types
<1>2. running => CallOK(c)'
  BY <1>1 DEF ClientOK, CallOK
<1> QED BY <1>1, <1>2, GoneOK

LEMMA RecvEndOK ==
    ASSUME IInv, NEW c \in Clients, RecvEnd(c)
    PROVE  IInv'
<1>1. /\ Gone(c) /\ phase[c] = "draining" /\ ClientOK(c) /\ UNCHANGED <<inbox, running>>
      /\ running => link[c] = "ended"
      /\ DOMAIN call = Clients /\ call' = [call EXCEPT ![c] = Idle]
  BY DEF RecvEnd, Gone, IInv, Types
<1>2. running => inbox[c] = <<>>
  BY <1>1 DEF ClientOK, PlaceOK, TalkOK, DrainingOK
<1>3. running => CallOK(c)'
  BY <1>1, <1>2 DEF CallOK
<1>4. DOMAIN call' = Clients /\ \A d \in Clients \ {c} : call'[d] = call[d]
  BY <1>1
<1> QED BY <1>1, <1>3, <1>4, GoneOK

\* A client that has read the prompt sends a line.
LEMMA LineSent ==
    ASSUME IInv, NEW c \in Clients, phase[c] = "ready", NEW line \in Lines,
           inbox' = [inbox EXCEPT ![c] = Append(@, line)]
    PROVE  /\ inbox' \in [Clients -> Seq(Lines)] /\ inbox'[c] = <<line>>
           /\ Len(inbox'[c]) = 1 /\ inbox'[c][1] = line
           /\ \A d \in Clients \ {c} : inbox'[d] = inbox[d]
           /\ Serving(c) /\ pc = "read" /\ link[c] = "open" /\ outbox[c] = <<>>
           /\ Unfinished(outbox[c]) /\ ~Queued(c)
<1>1. inbox \in [Clients -> Seq(Lines)] /\ ClientOK(c)
  BY DEF IInv, Types
<1>2. /\ Serving(c) /\ pc = "read" /\ link[c] = "open" /\ inbox[c] = <<>> /\ outbox[c] = <<>>
      /\ ~Queued(c)
  BY <1>1 DEF ClientOK, TalkOK, PlaceOK
<1>3. Append(<<>>, line) = <<line>> /\ <<line>> \in Seq(Lines)
  OBVIOUS
<1>4. inbox' = [inbox EXCEPT ![c] = <<line>>]
  BY <1>1, <1>2, <1>3
<1>5. Unfinished(<<>>)
  BY DEF Unfinished
<1> QED BY <1>1, <1>2, <1>3, <1>4, <1>5

LEMMA AskOK ==
    ASSUME IInv, NEW c \in Clients, NEW e \in Corpus, Ask(c, e)
    PROVE  IInv'
<1>1. /\ Types /\ ClientOK(c) /\ phase[c] = "ready" /\ e.text \in Lines
      /\ queries < MaxQueries /\ queries' = queries + 1
      /\ inbox' = [inbox EXCEPT ![c] = Append(@, e.text)]
      /\ call' = [call EXCEPT ![c] = [at |-> "asked", stmt |-> e.means]]
      /\ phase' = [phase EXCEPT ![c] = "draining"]
      /\ UNCHANGED <<running, pc, cur, backlog, link, outbox, buf>>
  BY DEF Ask, IInv, server, Lines
<1>2. /\ inbox' \in [Clients -> Seq(Lines)] /\ inbox'[c] = <<e.text>>
      /\ Len(inbox'[c]) = 1 /\ inbox'[c][1] = e.text
      /\ \A d \in Clients \ {c} : inbox'[d] = inbox[d]
      /\ Serving(c) /\ pc = "read" /\ link[c] = "open" /\ outbox[c] = <<>>
      /\ Unfinished(outbox[c]) /\ ~Queued(c)
  BY <1>1, LineSent
<1>3. /\ phase'[c] = "draining" /\ call'[c] = [at |-> "asked", stmt |-> e.means]
      /\ DOMAIN call' = Clients
      /\ \A d \in Clients \ {c} : phase'[d] = phase[d] /\ call'[d] = call[d]
  BY <1>1 DEF Types
<1>4. Serving(c)' /\ ~Queued(c)'
  BY <1>1, <1>2 DEF Serving, Queued
<1>5. PlaceOK(c)'
  BY <1>1, <1>2, <1>3, <1>4 DEF PlaceOK
<1>6. TalkOK(c)'
  BY <1>1, <1>2, <1>3, <1>4 DEF TalkOK, DrainingOK
<1>7. CallOK(c)' /\ PoliteOK(c)'
  BY <1>2, <1>3 DEF CallOK, PoliteOK
<1>8. ClientOK(c)'
  BY <1>5, <1>6, <1>7 DEF ClientOK
<1>9. Types'
  BY <1>1, <1>2, <1>3, ServerAssumption DEF Types
<1>10. Messages'
  BY <1>1 DEF IInv, Messages
<1> QED BY <1>1, <1>2, <1>3, <1>8, <1>9, <1>10, OthersKept

LEMMA LeaveOK ==
    ASSUME IInv, NEW c \in Clients, Leave(c)
    PROVE  IInv'
<1>1. /\ Types /\ ClientOK(c) /\ phase[c] = "ready" /\ ExitLine \in Lines
      /\ inbox' = [inbox EXCEPT ![c] = Append(@, ExitLine)]
      /\ phase' = [phase EXCEPT ![c] = "leaving"]
      /\ UNCHANGED <<running, pc, cur, backlog, link, outbox, buf, call, queries>>
  BY DEF Leave, IInv, server, Lines
<1>2. /\ inbox' \in [Clients -> Seq(Lines)] /\ inbox'[c] = <<ExitLine>>
      /\ Len(inbox'[c]) = 1 /\ inbox'[c][1] = ExitLine
      /\ \A d \in Clients \ {c} : inbox'[d] = inbox[d]
      /\ Serving(c) /\ pc = "read" /\ link[c] = "open" /\ outbox[c] = <<>> /\ ~Queued(c)
  BY <1>1, LineSent
<1>3. phase'[c] = "leaving" /\ \A d \in Clients \ {c} : phase'[d] = phase[d]
  BY <1>1 DEF Types
<1>4. Serving(c)' /\ ~Queued(c)'
  BY <1>1, <1>2 DEF Serving, Queued
<1>5. PlaceOK(c)'
  BY <1>1, <1>2, <1>3, <1>4 DEF PlaceOK
<1>6. TalkOK(c)'
  BY <1>1, <1>2, <1>3, <1>4 DEF TalkOK
<1>7. CallOK(c)' /\ PoliteOK(c)'
  BY <1>1, <1>2, <1>3, <1>4 DEF CallOK, PoliteOK
<1>8. ClientOK(c)'
  BY <1>5, <1>6, <1>7 DEF ClientOK
<1>9. Types'
  BY <1>1, <1>2 DEF Types
<1>10. Messages'
  BY <1>1 DEF IInv, Messages
<1> QED BY <1>1, <1>2, <1>3, <1>8, <1>9, <1>10, OthersKept

LEMMA ResetOK ==
    ASSUME IInv, NEW c \in Clients, Reset(c)
    PROVE  IInv'
<1>1. /\ Types /\ ClientOK(c) /\ link[c] = "poked" /\ link' = [link EXCEPT ![c] = "reset"]
      /\ UNCHANGED <<running, pc, cur, backlog, inbox, outbox, phase, buf, call, queries>>
  BY DEF Reset, IInv, server, clients
<1>2. link'[c] = "reset" /\ \A d \in Clients \ {c} : link'[d] = link[d]
  BY <1>1 DEF Types
<1>3. (Serving(c)' <=> Serving(c)) /\ (Queued(c)' <=> Queued(c)) /\ Serving(c) /\ ~Queued(c)
  BY <1>1 DEF Serving, Queued, ClientOK, PlaceOK
<1>4. phase[c] = "gone"
  BY <1>1 DEF Types, ClientOK, PlaceOK, TalkOK
<1>5. PlaceOK(c)'
  BY <1>1, <1>2, <1>3, <1>4 DEF ClientOK, PlaceOK
<1>6. TalkOK(c)'
  BY <1>1, <1>4 DEF ClientOK, TalkOK
<1>7. (running => CallOK(c))'
  BY <1>1 DEF ClientOK, CallOK
<1>8. (running /\ c \notin Rude => PoliteOK(c))'
  BY <1>1, <1>3, <1>4 DEF ClientOK, PoliteOK
<1>9. ClientOK(c)'
  BY <1>5, <1>6, <1>7, <1>8 DEF ClientOK
<1>10. Types' /\ Messages'
  BY <1>1 DEF Types, IInv, Messages
<1> QED BY <1>1, <1>2, <1>9, <1>10, OthersKept

LEMMA ConnectOK ==
    ASSUME IInv, NEW a \in Clients, Connect(a)
    PROVE  IInv'
<1>1. /\ Types /\ ClientOK(a) /\ phase[a] = "away" /\ backlog' = Append(backlog, a)
      /\ link' = [link EXCEPT ![a] = "open"] /\ phase' = [phase EXCEPT ![a] = "draining"]
      /\ UNCHANGED <<running, pc, cur, inbox, outbox, buf, call, queries>>
  BY DEF Connect, IInv, server
<1>2. /\ backlog \in Seq(Clients) /\ backlog' \in Seq(Clients) /\ Len(backlog) \in Nat
      /\ Len(backlog') = Len(backlog) + 1 /\ backlog'[Len(backlog) + 1] = a
      /\ \A i \in 1 .. Len(backlog) : backlog'[i] = backlog[i]
  BY <1>1 DEF Types
<1>3. ~Queued(a) /\ ~Serving(a) /\ inbox[a] = <<>> /\ outbox[a] = <<>>
  BY <1>1 DEF ClientOK, PlaceOK, TalkOK
<1>4. ASSUME NEW c \in Clients PROVE Queued(c)' <=> Queued(c) \/ c = a
  <2>1. ASSUME Queued(c) PROVE Queued(c)'
    BY <1>2, <2>1 DEF Queued
  <2>2. CASE c = a
    <3>1. Len(backlog) + 1 \in 1 .. Len(backlog')
      BY <1>2
    <3>2. Queued(c)'
      BY <1>2, <2>2, <3>1 DEF Queued
    <3> QED BY <2>2, <3>2
  <2>3. ASSUME Queued(c)', c # a PROVE Queued(c)
    BY <1>2, <2>3 DEF Queued
  <2> QED BY <2>1, <2>2, <2>3
<1>5. \A c \in Clients : Serving(c)' <=> Serving(c)
  BY <1>1 DEF Serving
<1>6. /\ link'[a] = "open" /\ phase'[a] = "draining"
      /\ \A c \in Clients \ {a} : link'[c] = link[c] /\ phase'[c] = phase[c]
  BY <1>1 DEF Types
<1>7. ASSUME NEW c \in Clients PROVE ClientOK(c)'
  <2>1. CASE c = a
    <3>1. Queued(c)' /\ ~Serving(c)'
      BY <1>3, <1>4, <1>5, <2>1
    <3>2. PlaceOK(c)'
      BY <1>1, <1>3, <1>6, <2>1, <3>1 DEF PlaceOK
    <3>3. Unfinished(outbox[c])'
      BY <1>1, <1>3, <2>1 DEF Unfinished
    <3>4. TalkOK(c)'
      BY <1>1, <1>3, <1>6, <2>1, <3>1, <3>3 DEF TalkOK, DrainingOK
    <3>5. CallOK(c)' /\ PoliteOK(c)'
      BY <1>1, <1>3, <1>6, <2>1 DEF CallOK, PoliteOK
    <3> QED BY <3>2, <3>4, <3>5 DEF ClientOK
  <2>2. CASE c # a
    <3>1. ClientOK(c)
      BY DEF IInv
    <3> QED BY <1>1, <1>4, <1>5, <1>6, <2>2, <3>1, Unaffected
  <2> QED BY <2>1, <2>2
<1>8. NoDup(backlog)'
  <2> SUFFICES ASSUME NEW i \in 1 .. Len(backlog'), NEW j \in 1 .. Len(backlog'),
                      backlog'[i] = backlog'[j]
               PROVE  i = j
    BY DEF NoDup
  <2>1. CASE i \in 1 .. Len(backlog) /\ j \in 1 .. Len(backlog)
    BY <1>2, <2>1 DEF IInv, NoDup
  <2>2. CASE i = Len(backlog) + 1 \/ j = Len(backlog) + 1
    BY <1>2, <1>3, <2>2 DEF Queued
  <2> QED BY <1>2, <2>1, <2>2
<1>9. Types' /\ Messages'
  BY <1>1, <1>2 DEF Types, IInv, Messages
<1> QED BY <1>7, <1>8, <1>9 DEF IInv

-------------------------------------------------------------------------------
(* The server's steps.                                                        *)

\* A step of the session with client a.
LEMMA SessionKept ==
    ASSUME IInv, NEW a \in Clients, a = cur, UNCHANGED <<cur, backlog>>, running' => running,
           \A c \in Clients \ {a} : /\ link'[c] = link[c] /\ inbox'[c] = inbox[c]
                                    /\ outbox'[c] = outbox[c] /\ phase'[c] = phase[c]
                                    /\ call'[c] = call[c],
           Types', Messages', ClientOK(a)'
    PROVE  IInv'
<1>1. ASSUME NEW c \in Clients PROVE ClientOK(c)'
  <2>1. CASE c = a
    BY <2>1
  <2>2. CASE c # a
    <3>1. ~Serving(c)' /\ ~Serving(c) /\ (Queued(c)' <=> Queued(c))
      BY <2>2 DEF Serving, Queued
    <3>2. ClientOK(c)
      BY DEF IInv
    <3> QED BY <2>2, <3>1, <3>2, Unaffected
  <2> QED BY <2>1, <2>2
<1>2. NoDup(backlog)'
  BY DEF IInv, NoDup
<1> QED BY <1>1, <1>2 DEF IInv

\* The server sends: the client that waits gets the prompt exactly when the server
\* reads next, and only a client that broke off can end the process.
LEMMA SendOK ==
    ASSUME IInv, running, pc \in {"greet", "respond", "prompt", "bye"}, NEW msg, NEW next,
           next \in {"read", "prompt", "close"}, Send(msg, next),
           next = "read" <=> msg \in {Welcome, Prompt}, pc = "bye" => next = "close"
    PROVE  IInv' /\ (~running' => cur \in Rude /\ link[cur] = "reset")
<1>1. PICK a \in Clients : a = cur
  BY DEF IInv, Types
<1>2. Types /\ ClientOK(a) /\ Serving(a) /\ ~Queued(a)
  BY <1>1 DEF IInv, Serving, ClientOK, PlaceOK
<1>3. UNCHANGED <<cur, backlog, inbox, phase, buf, queries, call>>
  BY DEF Send, clients
<1>4. PICK S : outbox \in [Clients -> Seq(S)] /\ buf \in [Clients -> Seq(S)]
  BY DEF IInv, Messages
<1>5. phase[a] # "ready" /\ (link[a] # "open" => phase[a] = "gone")
  BY <1>1, <1>2 DEF Types, ClientOK, PlaceOK, TalkOK, Serving
<1>6. ~Queued(a)'
  BY <1>2, <1>3 DEF Queued
<1>7. CASE link[a] = "open"
  <2>1. /\ outbox' = [outbox EXCEPT ![a] = Append(outbox[a], msg)] /\ pc' = next
        /\ UNCHANGED <<running, link>>
    BY <1>1, <1>7 DEF Send
  <2>2. PICK s \in Seq(S) : s = outbox[a]
    BY <1>4
  <2>3. PICK r : r = Append(s, msg)
    OBVIOUS
  <2>4. outbox' = [outbox EXCEPT ![a] = r]
    BY <2>1, <2>2, <2>3
  <2>5. outbox'[a] = r /\ \A c \in Clients \ {a} : outbox'[c] = outbox[c]
    BY <1>4, <2>4
  <2>6. Serving(a)'
    BY <1>1, <1>3, <2>1 DEF Serving
  <2>7. PlaceOK(a)'
    BY <1>2, <1>3, <1>6, <2>1, <2>6 DEF ClientOK, PlaceOK
  <2>8. TalkOK(a)'
    <3>1. ASSUME phase[a] = "draining" PROVE DrainingOK(a)'
      <4>1. inbox[a] = <<>> /\ Unfinished(s)
        BY <1>2, <2>2, <3>1 DEF ClientOK, TalkOK, DrainingOK
      <4>2. IF next = "read" THEN Finished(r) ELSE Unfinished(r)
        BY <2>3, <4>1, AppendMessage
      <4> QED BY <1>3, <2>1, <2>5, <2>6, <4>1, <4>2 DEF DrainingOK
    <3>2. phase[a] # "away"
      BY <1>2, <1>7 DEF ClientOK, PlaceOK
    <3> QED BY <1>2, <1>3, <1>5, <3>1, <3>2 DEF ClientOK, TalkOK
  <2>9. (running => CallOK(a))'
    BY <1>2, <1>3, <2>1 DEF ClientOK, CallOK
  <2>10. (running /\ a \notin Rude => PoliteOK(a))'
    BY <1>2, <1>3, <1>6, <2>1 DEF ClientOK, PoliteOK
  <2>11. ClientOK(a)'
    BY <2>7, <2>8, <2>9, <2>10 DEF ClientOK
  <2>12. Types'
    BY <1>2, <1>3, <2>1 DEF Types
  <2>13. Messages'
    <3> DEFINE T == S \cup {msg}
    <3>1. \A z : z \in Seq(S) => z \in Seq(T)
      BY SeqMonotonic
    <3>2. msg \in T
      OBVIOUS
    <3> HIDE DEF T
    <3>3. r \in Seq(T)
      BY <2>2, <2>3, <3>1, <3>2
    <3>4. outbox' \in [Clients -> Seq(T)] /\ buf' \in [Clients -> Seq(T)]
      BY <1>3, <1>4, <2>4, <3>1, <3>3
    <3> QED BY <3>4 DEF Messages
  <2> QED BY <1>1, <1>3, <2>1, <2>5, <2>11, <2>12, <2>13, SessionKept
<1>8. CASE link[a] # "open"
  <2>1. \/ /\ link' = [link EXCEPT ![a] = "poked"] /\ link[a] \in {"closed", "poked"}
           /\ pc' = next /\ UNCHANGED <<running, outbox>>
        \/ /\ link[a] = "reset" /\ UNCHANGED <<link, outbox>>
           /\ \/ pc' = next /\ UNCHANGED running
              \/ running' = FALSE /\ UNCHANGED pc
    BY <1>1, <1>8 DEF Send
  <2>2. /\ link'[a] \in {"poked", "reset"} /\ UNCHANGED outbox
        /\ \A c \in Clients \ {a} : link'[c] = link[c]
        /\ link' \in [Clients -> {"away", "open", "closed", "poked", "reset", "ended"}]
    BY <1>2, <2>1 DEF Types
  <2>3. Serving(a)'
    BY <1>1, <1>2, <1>3, <2>1 DEF Serving
  <2>4. PlaceOK(a)'
    BY <1>3, <1>5, <1>6, <1>8, <2>2, <2>3 DEF PlaceOK
  <2>5. TalkOK(a)'
    BY <1>2, <1>3, <1>5, <1>8 DEF ClientOK, TalkOK
  <2>6. (running => CallOK(a))'
    BY <1>2, <1>3 DEF ClientOK, CallOK
  <2>7. (running /\ a \notin Rude => PoliteOK(a))'
    BY <1>2, <1>3, <1>5, <1>6, <1>8, <2>1 DEF ClientOK, PoliteOK
  <2>8. ClientOK(a)'
    BY <2>4, <2>5, <2>6, <2>7 DEF ClientOK
  <2>9. Types' /\ Messages' /\ (running' => running)
    BY <1>2, <1>3, <1>4, <2>1, <2>2 DEF Types, Messages
  <2>10. IInv'
    BY <1>1, <1>3, <2>2, <2>8, <2>9, SessionKept
  <2>11. ASSUME ~running' PROVE a \in Rude /\ link[a] = "reset"
    <3>1. link[a] = "reset"
      BY <2>1, <2>11
    <3> QED BY <1>2, <1>5, <3>1 DEF ClientOK, PoliteOK
  <2> QED BY <1>1, <2>10, <2>11
<1> QED BY <1>7, <1>8

LEMMA SendsOK ==
    ASSUME IInv, running, Greet \/ SendResponse \/ SendPrompt \/ SendBye
    PROVE  IInv' /\ (~running' => cur \in Rude /\ link[cur] = "reset")
<1>1. CASE Greet
  <2>1. pc = "greet" /\ Send(Welcome, "read")
    BY <1>1 DEF Greet
  <2> QED BY <2>1, SendOK
<1>2. CASE SendResponse
  <2>1. pc = "respond" /\ Send(Response(response), "prompt")
    BY <1>2 DEF SendResponse
  <2>2. Response(response) \notin {Welcome, Prompt}
    <3>1. /\ Response(response).kind = "response"
          /\ Welcome.kind # "response" /\ Prompt.kind # "response"
      BY DEF Response, Welcome, Prompt
    <3> QED BY <3>1
  <2> QED BY <2>1, <2>2, SendOK
<1>3. CASE SendPrompt
  <2>1. pc = "prompt" /\ Send(Prompt, "read")
    BY <1>3 DEF SendPrompt
  <2> QED BY <2>1, SendOK
<1>4. CASE SendBye
  <2>1. pc = "bye" /\ Send(Bye, "close")
    BY <1>4 DEF SendBye, AfterBye
  <2>2. Bye \notin {Welcome, Prompt}
    <3>1. Bye.kind = "bye" /\ Welcome.kind # "bye" /\ Prompt.kind # "bye"
      BY DEF Bye, Welcome, Prompt
    <3> QED BY <3>1
  <2> QED BY <2>1, <2>2, SendOK
<1> QED BY <1>1, <1>2, <1>3, <1>4

LEMMA AcceptOK ==
    ASSUME IInv, running, Accept
    PROVE  IInv'
<1>1. /\ Types /\ pc = "accept" /\ pc' = "greet" /\ backlog # <<>>
      /\ cur' = Head(backlog) /\ backlog' = Tail(backlog)
      /\ UNCHANGED <<running, link, inbox, outbox, phase, buf, queries, call>>
  BY DEF IInv, Accept, QueueAfterAccept, clients
<1>2. /\ backlog \in Seq(Clients) /\ backlog' \in Seq(Clients) /\ Len(backlog) \in Nat
      /\ Len(backlog) > 0 /\ Len(backlog') = Len(backlog) - 1 /\ cur' = backlog[1]
      /\ \A i \in 1 .. Len(backlog) - 1 : backlog'[i] = backlog[i + 1]
  BY <1>1 DEF Types
<1>3. PICK a \in Clients : a = cur'
  BY <1>2
<1>4. Queued(a) /\ ~Queued(a)'
  <2>1. Queued(a)
    BY <1>2, <1>3 DEF Queued
  <2>2. ~Queued(a)'
    <3> SUFFICES ASSUME NEW i \in 1 .. Len(backlog'), backlog'[i] = a PROVE FALSE
      BY DEF Queued
    <3>1. i + 1 \in 1 .. Len(backlog) /\ 1 \in 1 .. Len(backlog) /\ i + 1 # 1
      BY <1>2
    <3>2. backlog[i + 1] = backlog[1]
      BY <1>2, <1>3
    <3> QED BY <3>1, <3>2 DEF IInv, NoDup
  <2> QED BY <2>1, <2>2
<1>5. ASSUME NEW c \in Clients, c # a PROVE Queued(c)' <=> Queued(c)
  <2>1. ASSUME Queued(c)' PROVE Queued(c)
    <3>1. PICK i \in 1 .. Len(backlog') : backlog'[i] = c
      BY <2>1 DEF Queued
    <3>2. i + 1 \in 1 .. Len(backlog) /\ backlog[i + 1] = c
      BY <1>2, <3>1
    <3> QED BY <3>2 DEF Queued
  <2>2. ASSUME Queued(c) PROVE Queued(c)'
    <3>1. PICK i \in 1 .. Len(backlog) : backlog[i] = c
      BY <2>2 DEF Queued
    <3>2. i # 1
      BY <1>2, <1>3, <1>5, <3>1
    <3>3. i - 1 \in 1 .. Len(backlog) - 1 /\ (i - 1) + 1 = i
      BY <1>2, <3>2
    <3>4. i - 1 \in 1 .. Len(backlog') /\ backlog'[i - 1] = c
      BY <1>2, <3>1, <3>3
    <3> QED BY <3>4 DEF Queued
  <2> QED BY <2>1, <2>2
<1>6. ASSUME NEW c \in Clients PROVE ClientOK(c)'
  <2>0. ClientOK(c)
    BY DEF IInv
  <2>1. CASE c # a
    <3>1. ~Serving(c) /\ ~Serving(c)'
      BY <1>1, <1>3, <2>1 DEF Serving
    <3> QED BY <1>1, <1>5, <2>0, <2>1, <3>1, Unaffected
  <2>2. CASE c = a
    <3>1. ~Serving(c) /\ Serving(c)' /\ Queued(c) /\ ~Queued(c)'
      BY <1>1, <1>3, <1>4, <2>2 DEF Serving
    <3>2. PlaceOK(c)'
      BY <1>1, <2>0, <3>1 DEF ClientOK, PlaceOK
    <3>3. TalkOK(c)'
      BY <1>1, <2>0, <3>1 DEF ClientOK, TalkOK, DrainingOK
    <3>4. (running => CallOK(c))'
      BY <1>1, <2>0 DEF ClientOK, CallOK
    <3>5. (running /\ c \notin Rude => PoliteOK(c))'
      BY <1>1, <2>0, <3>1 DEF ClientOK, PoliteOK
    <3> QED BY <3>2, <3>3, <3>4, <3>5 DEF ClientOK
  <2> QED BY <2>1, <2>2
<1>7. NoDup(backlog)'
  <2> SUFFICES ASSUME NEW i \in 1 .. Len(backlog'), NEW j \in 1 .. Len(backlog'),
                      backlog'[i] = backlog'[j]
               PROVE  i = j
    BY DEF NoDup
  <2>1. /\ i + 1 \in 1 .. Len(backlog) /\ j + 1 \in 1 .. Len(backlog)
        /\ backlog[i + 1] = backlog[j + 1]
    BY <1>2
  <2> QED BY <2>1 DEF IInv, NoDup
<1>8. Types' /\ Messages'
  BY <1>1, <1>2, <1>3 DEF Types, IInv, Messages
<1> QED BY <1>6, <1>7, <1>8 DEF IInv

LEMMA ReadEndOK ==
    ASSUME IInv, running, ReadEnd
    PROVE  IInv'
<1>1. PICK a \in Clients : a = cur
  BY DEF IInv, Types
<1>2. /\ Types /\ ClientOK(a) /\ pc = "read" /\ pc' = "close" /\ inbox[a] = <<>>
      /\ link[a] \in {"closed", "poked", "reset"}
      /\ UNCHANGED <<running, cur, backlog, link, inbox, outbox, phase, buf, queries, call>>
  BY <1>1 DEF IInv, ReadEnd, ClosedByClient, network, clients
<1>3. Serving(a) /\ Serving(a)' /\ (Queued(a)' <=> Queued(a))
  BY <1>1, <1>2 DEF Serving, Queued
<1>4. phase[a] = "gone"
  BY <1>2 DEF Types, ClientOK, PlaceOK, TalkOK
<1>5. PlaceOK(a)' /\ TalkOK(a)'
  BY <1>2, <1>3, <1>4 DEF ClientOK, PlaceOK, TalkOK
<1>6. (running => CallOK(a))'
  BY <1>2 DEF ClientOK, CallOK
<1>7. (running /\ a \notin Rude => PoliteOK(a))'
  BY <1>2, <1>3, <1>4 DEF ClientOK, PoliteOK
<1>8. ClientOK(a)'
  BY <1>5, <1>6, <1>7 DEF ClientOK
<1>9. Types' /\ Messages'
  BY <1>2 DEF Types, IInv, Messages
<1> QED BY <1>1, <1>2, <1>8, <1>9, SessionKept

LEMMA CloseClientOK ==
    ASSUME IInv, running, CloseClient
    PROVE  IInv'
<1>1. PICK a \in Clients : a = cur
  BY DEF IInv, Types
<1>2. /\ Types /\ ClientOK(a) /\ pc = "close" /\ pc' = "accept"
      /\ link' = [link EXCEPT ![a] = "ended"]
      /\ UNCHANGED <<running, cur, backlog, inbox, outbox, phase, buf, queries, call>>
  BY <1>1 DEF IInv, CloseClient, clients
<1>3. link'[a] = "ended" /\ \A c \in Clients \ {a} : link'[c] = link[c]
  BY <1>2 DEF Types
<1>4. Serving(a) /\ ~Serving(a)' /\ (Queued(a)' <=> Queued(a)) /\ ~Queued(a)
  BY <1>1, <1>2 DEF Serving, Queued, ClientOK, PlaceOK
<1>5. PlaceOK(a)'
  BY <1>2, <1>3, <1>4 DEF ClientOK, PlaceOK
<1>6. TalkOK(a)'
  BY <1>2, <1>4 DEF ClientOK, TalkOK, DrainingOK
<1>7. (running => CallOK(a))'
  BY <1>2 DEF ClientOK, CallOK
<1>8. (running /\ a \notin Rude => PoliteOK(a))'
  BY <1>2, <1>4 DEF ClientOK, PoliteOK
<1>9. ClientOK(a)'
  BY <1>5, <1>6, <1>7, <1>8 DEF ClientOK
<1>10. Types' /\ Messages'
  BY <1>2 DEF Types, IInv, Messages
<1> QED BY <1>1, <1>2, <1>3, <1>9, <1>10, SessionKept

\* The line the server reads is the only one there is.
LEMMA LineRead ==
    ASSUME IInv, NEW a \in Clients, a = cur, NEW line, ReadLine(line)
    PROVE  /\ Serving(a) /\ ~Queued(a) /\ line \in Lines /\ line = inbox[a][1]
           /\ inbox[a] # <<>> /\ inbox'[a] = <<>>
           /\ \A c \in Clients \ {a} : inbox'[c] = inbox[c]
           /\ inbox' \in [Clients -> Seq(Lines)]
           /\ phase[a] \in {"draining", "leaving", "gone"}
           /\ phase[a] = "draining" => Unfinished(outbox[a])
<1>1. /\ Types /\ ClientOK(a) /\ pc = "read" /\ inbox[a] # <<>> /\ line = Head(inbox[a])
      /\ inbox' = [inbox EXCEPT ![a] = Tail(inbox[a])]
  BY DEF IInv, ReadLine
<1>2. PICK s \in Seq(Lines) : s = inbox[a]
  BY <1>1 DEF Types
<1>3. Len(s) \in Nat /\ Len(s) <= 1
  BY <1>1, <1>2, OneLine
<1>4. line \in Lines /\ line = s[1] /\ Tail(s) = <<>>
  <2>1. PICK n \in Nat : n = Len(s)
    BY <1>3
  <2>2. n # 0
    BY <1>1, <1>2, <2>1, EmptySeq
  <2>3. n = 1
    BY <1>3, <2>1, <2>2
  <2>4. Len(s) = 1
    BY <2>1, <2>3
  <2>5. Tail(s) \in Seq(Lines) /\ Len(Tail(s)) = 0 /\ s[1] \in Lines
    BY <2>4
  <2>6. Tail(s) = <<>>
    BY <2>5, EmptySeq
  <2> QED BY <1>1, <1>2, <2>4, <2>5, <2>6
<1>5. Serving(a) /\ ~Queued(a)
  BY <1>1 DEF Serving, ClientOK, PlaceOK
<1>6. inbox' = [inbox EXCEPT ![a] = <<>>]
  BY <1>1, <1>2, <1>4
<1>7. <<>> \in Seq(Lines)
  OBVIOUS
<1>8. /\ inbox'[a] = <<>> /\ inbox' \in [Clients -> Seq(Lines)]
      /\ \A c \in Clients \ {a} : inbox'[c] = inbox[c]
  BY <1>1, <1>6, <1>7 DEF Types
<1>9. phase[a] \in {"draining", "leaving", "gone"}
  BY <1>1 DEF Types, ClientOK, TalkOK
<1>10. phase[a] = "draining" => Unfinished(outbox[a])
  BY <1>1, <1>5 DEF ClientOK, TalkOK, DrainingOK
<1> QED BY <1>1, <1>2, <1>4, <1>5, <1>8, <1>9, <1>10

\* Once it has read a line the server owes the client the prompt, or "Bye!" for
\* "exit", or has ended.
LEMMA ReadOK ==
    ASSUME IInv, running, NEW a \in Clients, a = cur, NEW line, ReadLine(line),
           UNCHANGED outbox, DOMAIN call' = Clients,
           \A c \in Clients \ {a} : call'[c] = call[c],
           \/ pc' \in {"prompt", "respond", "bye"} /\ UNCHANGED running
           \/ running' = FALSE /\ UNCHANGED pc,
           line = ExitLine => pc' = "bye"
    PROVE  IInv'
<1>1. /\ Types /\ ClientOK(a) /\ pc = "read"
      /\ UNCHANGED <<cur, backlog, link, phase, buf, queries>>
  BY DEF IInv, ReadLine, clients
<1>2. /\ Serving(a) /\ ~Queued(a) /\ line \in Lines /\ line = inbox[a][1]
      /\ inbox[a] # <<>> /\ inbox'[a] = <<>>
      /\ \A c \in Clients \ {a} : inbox'[c] = inbox[c]
      /\ inbox' \in [Clients -> Seq(Lines)]
      /\ phase[a] \in {"draining", "leaving", "gone"}
      /\ phase[a] = "draining" => Unfinished(outbox[a])
  BY LineRead
<1>3. Serving(a)' /\ ~Queued(a)'
  BY <1>1, <1>2 DEF Serving, Queued
<1>4. PlaceOK(a)'
  BY <1>1, <1>2, <1>3 DEF ClientOK, PlaceOK
<1>5. TalkOK(a)'
  <2>1. Len(<<>>) <= 1
    OBVIOUS
  <2>2. phase[a] = "draining" => DrainingOK(a)'
    BY <1>1, <1>2, <1>3 DEF DrainingOK
  <2> QED BY <1>1, <1>2, <2>1, <2>2 DEF TalkOK
<1>6. CallOK(a)'
  BY <1>2 DEF CallOK
<1>7. (running /\ a \notin Rude => PoliteOK(a))'
  <2> SUFFICES ASSUME running', a \notin Rude, phase[a] \in {"leaving", "gone"}
               PROVE  PoliteOK(a)'
    BY <1>1 DEF PoliteOK
  <2>1. /\ inbox[a] = <<ExitLine>> /\ outbox[a] = <<>> /\ link[a] \in {"open", "closed"}
    BY <1>1, <1>2 DEF ClientOK, PoliteOK
  <2>2. pc' = "bye"
    BY <1>2, <2>1
  <2> QED BY <1>1, <1>3, <2>1, <2>2 DEF PoliteOK
<1>8. ClientOK(a)'
  BY <1>4, <1>5, <1>6, <1>7 DEF ClientOK
<1>9. Types' /\ Messages'
  BY <1>1, <1>2 DEF Types, IInv, Messages
<1> QED BY <1>1, <1>2, <1>8, <1>9, SessionKept

LEMMA ComputedOK ==
    ASSUME DOMAIN call = Clients, NEW a \in Clients, NEW result, Computed(a, result)
    PROVE  DOMAIN call' = Clients /\ \A c \in Clients \ {a} : call'[c] = call[c]
  BY DEF Computed

LEMMA ReadsOK ==
    ASSUME IInv, running, NEW line, ReadEmpty(line) \/ ReadExit(line) \/ ReadStatement(line)
    PROVE  IInv'
<1>1. PICK a \in Clients : a = cur
  BY DEF IInv, Types
<1>2. ReadLine(line) /\ UNCHANGED outbox /\ DOMAIN call = Clients /\ pc = "read"
  BY DEF ReadEmpty, ReadExit, ReadStatement, IInv, Types, ReadLine
<1>3. <<>> # ExitLine
  BY DEF ExitLine
<1>4. CASE ReadEmpty(line)
  <2>1. pc' = "prompt" /\ UNCHANGED running /\ Computed(a, NoAnswer) /\ line = <<>>
    BY <1>1, <1>4 DEF ReadEmpty
  <2>2. DOMAIN call' = Clients /\ \A c \in Clients \ {a} : call'[c] = call[c]
    BY <1>2, <2>1, ComputedOK
  <2> QED BY <1>1, <1>2, <1>3, <2>1, <2>2, ReadOK
<1>5. CASE ReadExit(line)
  <2>1. pc' = "bye" /\ UNCHANGED <<running, call>>
    BY <1>5 DEF ReadExit
  <2> QED BY <1>1, <1>2, <2>1, ReadOK
<1>6. CASE ReadStatement(line)
  <2>1. line # ExitLine
    BY <1>6 DEF ReadStatement
  <2>2. PICK o : \/ running' = FALSE /\ UNCHANGED <<pc, call>>
                 \/ Computed(a, o.result) /\ pc' = "respond" /\ UNCHANGED running
    BY <1>1, <1>6 DEF ReadStatement
  <2>3. DOMAIN call' = Clients /\ \A c \in Clients \ {a} : call'[c] = call[c]
    BY <1>2, <2>2, ComputedOK
  <2> QED BY <1>1, <1>2, <2>1, <2>2, <2>3, ReadOK
<1> QED BY <1>4, <1>5, <1>6

-------------------------------------------------------------------------------

LEMMA InitOK == Init => IInv
<1> SUFFICES ASSUME Init PROVE IInv
  OBVIOUS
<1>1. Types
  <2>1. <<>> \in Seq(Clients) /\ <<>> \in Seq(Lines)
    OBVIOUS
  <2> QED BY <2>1, ServerAssumption DEF Init, Types
<1>2. Messages
  <2>1. <<>> \in Seq({})
    OBVIOUS
  <2> QED BY <2>1 DEF Init, Messages
<1>3. NoDup(backlog)
  BY DEF Init, NoDup
<1>4. ASSUME NEW c \in Clients PROVE ClientOK(c)
  <2>1. ~Serving(c) /\ ~Queued(c)
    BY DEF Init, Serving, Queued
  <2> QED BY <2>1 DEF Init, ClientOK, PlaceOK, TalkOK, CallOK, PoliteOK
<1> QED BY <1>1, <1>2, <1>3, <1>4 DEF IInv

LEMMA StepOK == IInv /\ [Next]_vars => IInv'
<1> SUFFICES ASSUME IInv, [Next]_vars PROVE IInv'
  OBVIOUS
<1>1. ASSUME ServerStep PROVE IInv'
  BY <1>1, AcceptOK, SendsOK, ReadEndOK, ReadsOK, CloseClientOK DEF ServerStep
<1>2. ASSUME NEW c \in Clients, Connect(c) \/ ClientStep(c) \/ BreakOff(c) \/ Reset(c)
      PROVE  IInv'
  BY <1>2, ConnectOK, RecvOK, AskOK, LeaveOK, CloseOK, RecvEndOK, ResetOK DEF ClientStep
<1>3. CASE UNCHANGED vars
  <2>1. UNCHANGED <<running, pc, cur, backlog, link, inbox, outbox, phase, buf, queries, call>>
    BY <1>3 DEF vars, server, network, clients
  <2>2. ASSUME NEW c \in Clients PROVE ClientOK(c)'
    <3>1. (Serving(c)' <=> Serving(c)) /\ (Queued(c)' <=> Queued(c)) /\ ClientOK(c)
      BY <2>1 DEF Serving, Queued, IInv
    <3> QED BY <2>1, <3>1, Unaffected
  <2>3. Types' /\ Messages' /\ NoDup(backlog)'
    BY <2>1 DEF IInv, Types, Messages, NoDup
  <2> QED BY <2>2, <2>3 DEF IInv
<1> QED BY <1>1, <1>2, <1>3 DEF Next

LEMMA Invariance == Spec => []IInv
  BY InitOK, StepOK, PTL DEF Spec

\* Every connection is in one place: in the listen queue, once, being served or over.
THEOREM ServerTypeCorrect == Spec => []ServerTypeOK
<1>1. IInv => ServerTypeOK
  <2> SUFFICES ASSUME IInv PROVE ServerTypeOK
    OBVIOUS
  <2>1. Types /\ NoDup(backlog) /\ \A c \in Clients : PlaceOK(c)
    BY DEF IInv, ClientOK
  <2>2. \A i \in 1 .. Len(backlog) : backlog[i] \in Clients /\ Queued(backlog[i])
    BY <2>1 DEF Types, Queued
  <2>3. \A i \in 1 .. Len(backlog) : link[backlog[i]] \in {"open", "closed"}
    BY <2>1, <2>2 DEF PlaceOK
  <2>4. pc # "accept" => \A i \in 1 .. Len(backlog) : backlog[i] # cur
    BY <2>1, <2>2 DEF PlaceOK, Serving
  <2>5. \A c \in Clients : link[c] = "away" <=> phase[c] = "away"
    BY <2>1 DEF PlaceOK
  <2> QED BY <2>1, <2>3, <2>4, <2>5 DEF Types, NoDup, ServerTypeOK
<1> QED BY <1>1, Invariance, PTL

\* No client ever has two lines under way, so that what one read of HandleClient
\* returns is one statement, and a client that may send has read everything.
THEOREM LinesAreSingle == Spec => []OneLineInFlight
<1>1. IInv => OneLineInFlight
  BY OneLine DEF IInv, OneLineInFlight, ClientOK, TalkOK
<1> QED BY <1>1, Invariance, PTL

-------------------------------------------------------------------------------
(* Why the process ends.                                                      *)

TablesOK(db) ==
    \A n \in DOMAIN db : DOMAIN db[n] = {"columns", "rows"} /\ IsSchema(db[n].columns)

\* An exception that nothing catches comes from an INSERT into a table, of a value
\* for which there is no column, or that its column's type does not have.
LEMMA ThrowsForCause ==
    ASSUME NEW db, NEW stmt, NEW o \in Execute(db, stmt), o.throws
    PROVE  /\ stmt.type = "INSERT" /\ stmt.table_name \in DOMAIN db
           /\ \E i \in 1 .. Len(stmt.raw_values) :
                 \/ i > Len(db[stmt.table_name].columns)
                 \/ Conversion(stmt.raw_values[i],
                               db[stmt.table_name].columns[i].type_id) # "value"
<1>1. \A t, r : Outcome(t, r).throws = FALSE
  BY DEF Outcome
<1>2. stmt.type = "INSERT"
  <2> SUFFICES ASSUME stmt.type # "INSERT" PROVE FALSE
    OBVIOUS
  <2>1. ASSUME o \in ExecuteCreate(db, stmt) PROVE FALSE
    BY <1>1, <2>1 DEF ExecuteCreate
  <2>2. ASSUME o \in ExecuteSelect(db, stmt) PROVE FALSE
    BY <1>1, <2>2 DEF ExecuteSelect
  <2>3. ASSUME o \in ExecuteCommit(db) PROVE FALSE
    BY <1>1, <2>3 DEF ExecuteCommit
  <2>4. ASSUME o \in ExecuteDelete(db, stmt) PROVE FALSE
    BY <1>1, <2>4 DEF ExecuteDelete
  <2>5. ASSUME o \in {Outcome(db, Failure)} PROVE FALSE
    BY <1>1, <2>5
  <2> QED BY <2>1, <2>2, <2>3, <2>4, <2>5 DEF Execute
<1>3. o \in ExecuteInsert(db, stmt)
  BY <1>2 DEF Execute
<1> QED BY <1>1, <1>2, <1>3 DEF ExecuteInsert

\* A statement leaves every table with its columns and their types.
LEMMA TablesKept ==
    ASSUME NEW db, NEW stmt, NEW o \in Execute(db, stmt), TablesOK(db),
           stmt.type = "CREATE_TABLE" => IsSchema(stmt.columns)
    PROVE  TablesOK(o.tables)
<1>1. \A t, r : Outcome(t, r).tables = t /\ Throws(t).tables = t
  BY DEF Outcome, Throws
<1> DEFINE SameSchemas(d) == /\ DOMAIN d = DOMAIN db
                            /\ \A n \in DOMAIN db : /\ DOMAIN d[n] = DOMAIN db[n]
                                                     /\ d[n].columns = db[n].columns
<1>2. \A d : SameSchemas(d) => TablesOK(d)
  BY DEF TablesOK
<1>3. CASE stmt.type = "CREATE_TABLE"
  <2>1. o \in ExecuteCreate(db, stmt)
    BY <1>3 DEF Execute
  <2>2. PICK table : /\ DOMAIN table = {"columns", "rows"} /\ table.columns = stmt.columns
                     /\ o.tables = db \/ o.tables = WithTable(db, stmt.table_name, table)
    BY <1>1, <2>1 DEF ExecuteCreate
  <2> QED BY <1>3, <2>2 DEF WithTable, TablesOK
<1>4. CASE stmt.type = "INSERT"
  <2>1. o \in ExecuteInsert(db, stmt)
    BY <1>4 DEF Execute
  <2> DEFINE columns == db[stmt.table_name].columns
             raw == stmt.raw_values
             tuple == Tuple([i \in 1 .. Len(raw) |-> FromString(raw[i], columns[i].type_id)],
                            columns)
  <2>2. \/ o.tables = db
        \/ /\ stmt.table_name \in DOMAIN db
           /\ o.tables = WithTuple(db, stmt.table_name, tuple)
    BY <1>1, <2>1 DEF ExecuteInsert
  <2> HIDE DEF tuple
  <2>3. SameSchemas(o.tables)
    BY <2>2 DEF WithTuple, TablesOK
  <2> QED BY <1>2, <2>3
<1>5. CASE stmt.type = "DELETE"
  <2>1. o \in ExecuteDelete(db, stmt)
    BY <1>5 DEF Execute
  <2>2. SameSchemas(o.tables)
    BY <1>1, <2>1 DEF ExecuteDelete, TablesOK
  <2> QED BY <1>2, <2>2
<1>6. CASE stmt.type \notin {"CREATE_TABLE", "INSERT", "DELETE"}
  <2>1. o.tables = db
    BY <1>1, <1>6 DEF Execute, ExecuteSelect, ExecuteCommit
  <2> QED BY <2>1
<1> QED BY <1>3, <1>4, <1>5, <1>6

\* The line a statement is read from is a client's, and its client waits for it.
LEMMA StatementRead ==
    ASSUME IInv, running, NEW line, ReadStatement(line)
    PROVE  \E e \in Corpus : /\ e.text = line
                             /\ call[cur] = [at |-> "asked", stmt |-> e.means]
<1>1. PICK a \in Clients : a = cur
  BY DEF IInv, Types
<1>2. ReadLine(line) /\ line # ExitLine
  BY DEF ReadStatement
<1>3. line = inbox[a][1] /\ inbox[a] # <<>>
  BY <1>1, <1>2, LineRead
<1>4. CallOK(a)
  BY DEF IInv, ClientOK
<1> QED BY <1>1, <1>2, <1>3, <1>4 DEF CallOK

LEMMA TablesStep == IInv /\ TablesOK(tables) /\ [Next]_vars => TablesOK(tables)'
<1> SUFFICES ASSUME IInv, TablesOK(tables), [Next]_vars PROVE TablesOK(tables')
  OBVIOUS
<1>1. CASE \E line : running /\ ReadStatement(line)
  <2>1. PICK line : running /\ ReadStatement(line)
    BY <1>1
  <2>2. \/ UNCHANGED tables
        \/ \E o \in Execute(tables, Parse(line)) : tables' = o.tables
    BY <2>1 DEF ReadStatement
  <2>3. Parse(line).type = "CREATE_TABLE" => IsSchema(Parse(line).columns)
    <3>1. PICK e \in Corpus : e.text = line
      BY <2>1, StatementRead
    <3> QED BY <3>1, CorpusAssumption
  <2> QED BY <2>2, <2>3, TablesKept
<1>2. CASE ~\E line : running /\ ReadStatement(line)
  <2>1. UNCHANGED tables
    <3>1. ASSUME ServerStep PROVE UNCHANGED tables
      <4>1. Accept \/ ReadEnd \/ CloseClient => UNCHANGED tables
        BY DEF Accept, ReadEnd, CloseClient
      <4>2. Greet \/ SendResponse \/ SendPrompt \/ SendBye => UNCHANGED tables
        BY DEF Greet, SendResponse, SendPrompt, SendBye, Send
      <4>3. ASSUME NEW line, ReadEmpty(line) \/ ReadExit(line) PROVE UNCHANGED tables
        BY <4>3 DEF ReadEmpty, ReadExit
      <4> QED BY <1>2, <3>1, <4>1, <4>2, <4>3 DEF ServerStep
    <3>2. ASSUME NEW c \in Clients, Connect(c) \/ ClientStep(c) \/ BreakOff(c) \/ Reset(c)
          PROVE  UNCHANGED tables
      BY <3>2 DEF Connect, ClientStep, Recv, Ask, Leave, Close, RecvEnd, BreakOff, Gone, Reset,
         server
    <3>3. CASE UNCHANGED vars
      BY <3>3 DEF vars, server
    <3> QED BY <3>1, <3>2, <3>3 DEF Next
  <2> QED BY <2>1
<1> QED BY <1>1, <1>2

LEMMA TablesInvariance == Spec => []TablesOK(tables)
<1>1. Init => TablesOK(tables)
  BY CorpusAssumption DEF Init, TablesOK
<1> QED BY <1>1, TablesStep, Invariance, PTL DEF Spec

\* The process ends only at an INSERT whose values do not fit the columns, which
\* FromString throws at and HandleClient does not catch, or at a send to a client
\* that broke off.
THEOREM StopsOnlyForCause == Spec => StopsForCause
<1> DEFINE Cause == \/ cur \in Rude /\ link[cur] = "reset"
                    \/ /\ call[cur].at = "asked" /\ call[cur].stmt.op = "insert"
                       /\ ~Service!WellTyped(call[cur].stmt, Shown(tables))
<1>1. ASSUME IInv, TablesOK(tables), Next, running, ~running' PROVE Cause
  <2>1. ServerStep
    BY <1>1 DEF Next, Connect, ClientStep, Recv, Ask, Leave, Close, RecvEnd, BreakOff, Gone, Reset
  <2>2. ~(Accept \/ ReadEnd \/ CloseClient)
    BY <1>1 DEF Accept, ReadEnd, CloseClient
  <2>3. ASSUME Greet \/ SendResponse \/ SendPrompt \/ SendBye PROVE Cause
    BY <1>1, <2>3, SendsOK
  <2>4. \A line : ~ReadEmpty(line) /\ ~ReadExit(line)
    BY <1>1 DEF ReadEmpty, ReadExit
  <2>5. ASSUME NEW line, ReadStatement(line) PROVE Cause
    <3>1. PICK e \in Corpus : e.text = line /\ call[cur] = [at |-> "asked", stmt |-> e.means]
      BY <1>1, <2>5, StatementRead
    <3>2. PICK stmt : stmt = Parse(line)
      OBVIOUS
    <3>3. PICK o \in Execute(tables, stmt) : o.throws
      BY <1>1, <2>5, <3>2 DEF ReadStatement
    <3>4. stmt.type = "INSERT" /\ stmt.table_name \in DOMAIN tables
      BY <3>3, ThrowsForCause
    <3>5. PICK columns : columns = tables[stmt.table_name].columns
      OBVIOUS
    <3>6. PICK i \in 1 .. Len(stmt.raw_values) :
             i > Len(columns) \/ Conversion(stmt.raw_values[i], columns[i].type_id) # "value"
      BY <3>3, <3>5, ThrowsForCause
    <3>7. /\ e.means.op = "insert" /\ e.means.table = stmt.table_name
          /\ Len(e.means.row) = Len(stmt.raw_values)
          /\ \A k \in 1 .. Len(e.means.row), type_id \in TypeIds :
                e.means.row[k] \in Literal[type_id] =>
                    Conversion(stmt.raw_values[k], type_id) = "value"
      BY <3>1, <3>2, <3>4, CorpusAssumption
    <3>8. Len(columns) \in Nat /\ \A k \in 1 .. Len(columns) : columns[k].type_id \in TypeIds
      <4>1. IsSchema(columns)
        BY <1>1, <3>4, <3>5 DEF TablesOK
      <4>2. PICK S : columns \in Seq([name : S, type_id : TypeIds])
        BY <4>1 DEF IsSchema
      <4> DEFINE Columns == [name : S, type_id : TypeIds]
      <4>3. columns \in Seq(Columns) /\ \A r \in Columns : r.type_id \in TypeIds
        BY <4>2
      <4> HIDE DEF Columns
      <4> QED BY <4>3
    <3>9. Shown(tables)[e.means.table].columns = columns
      BY <3>4, <3>5, <3>7 DEF Shown
    <3>10. ~Service!WellTyped(e.means, Shown(tables))
      <4> SUFFICES ASSUME Len(e.means.row) <= Len(columns),
                          \A k \in 1 .. Len(e.means.row) :
                              e.means.row[k] \in Literal[columns[k].type_id]
                   PROVE  FALSE
        BY <3>9 DEF Service!WellTyped
      <4>1. i \in 1 .. Len(e.means.row) /\ i <= Len(columns) /\ i \in 1 .. Len(columns)
        BY <3>7, <3>8
      <4>2. columns[i].type_id \in TypeIds
        BY <3>8, <4>1
      <4> QED BY <3>6, <3>7, <3>8, <4>1, <4>2
    <3> QED BY <3>1, <3>7, <3>10
  <2> QED BY <2>1, <2>2, <2>3, <2>4, <2>5 DEF ServerStep
<1>2. IInv /\ TablesOK(tables) /\ [Next]_vars => [running /\ ~running' => Cause]_vars
  BY <1>1
<1> QED BY <1>2, Invariance, TablesInvariance, PTL DEF Spec, StopsForCause
===============================================================================
