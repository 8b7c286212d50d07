--------------------------- MODULE CommandProtocol ---------------------------
(***************************************************************************)
(* The command protocol: clients send lines over TCP, which cuts them into *)
(* pieces as it likes, and messageHandler collects the pieces in the       *)
(* connection's commandBuffer, parses a message once it holds a newline,   *)
(* carries the command out and answers. One handler runs per connection    *)
(* (Connections shows it), handlers of different connections interleave.   *)
(*                                                                         *)
(* A byte stream is a sequence of words and newlines; a word and the blank *)
(* that ends it count as one unit of length. A client may be ahead of its  *)
(* answers by Window lines.                                                *)
(***************************************************************************)
EXTENDS Naturals, Sequences, FiniteSets

CONSTANTS
    Clients,
    Words,      \* the words of the lines, the commands' names among them
    Lines,      \* the lines clients send, as sequences of words
    Newline,
    Empty,      \* the empty string: a missing word, a missing value
    None,       \* no answer
    RecvSize,   \* sizeof(tempBuffer)
    MaxBuffer,  \* MAX_COMMAND_BUFFER_LENGTH
    Window,     \* lines a client sends before it has their answers
    MaxLines    \* bound: lines all clients send

ASSUME ConstantsAssumption ==
    /\ {"INSERT", "GET", "DELETE"} \subseteq Words
    /\ Newline \notin Words /\ Empty \notin Words
    /\ Lines \subseteq Seq(Words)
    /\ RecvSize \in Nat \ {0} /\ MaxBuffer \in Nat
    /\ Window \in Nat \ {0} /\ MaxLines \in Nat

VARIABLES
    (* Clients and the kernel. *)
    client,     \* client[c]: "in", or "left" (its end is closed)
    waiting,    \* waiting[c]: the lines c has sent and has no answer to
    stream,     \* stream[c]: what c has sent and recv has not returned
    inbox,      \* inbox[c]: answers sent to c that it has not read
    reset,      \* the clients that left and whose host has refused an answer
    sent,       \* lines sent so far
    (* The server. *)
    up,         \* the process lives
    open,       \* open[c]: the connection to c is open
    buffer,     \* buffer[c]: commandBuffer
    pc,         \* pc[c]: the handler of c: "idle", "execute", "log", "send"
    cmd,        \* cmd[c]: the command it has parsed
    answer,     \* answer[c]: its answer, until it is sent
    store,      \* the map
    log         \* appendonly.log

clientVars == <<client, waiting, stream, inbox, reset, sent>>
vars == <<client, waiting, stream, inbox, reset, sent, up, open, buffer, pc, cmd, answer,
          store, log>>

Strings == Words \union {Empty}

Commands == [command : Strings, key : Strings, value : Strings]

NoCommand == [command |-> Empty, key |-> Empty, value |-> Empty]

Answers ==
    {<<"inserted">>, <<"deleted">>, <<"not found">>, <<"empty value">>, <<"no command">>}
    \union {<<"found", v>> : v \in Words}

ASSUME NoneIsNoAnswer == None \notin Lines \union Answers

Contains(s, x) == \E i \in DOMAIN s : s[i] = x

Init ==
    /\ client = [c \in Clients |-> "in"]
    /\ waiting = [c \in Clients |-> <<>>]
    /\ stream = [c \in Clients |-> <<>>]
    /\ inbox = [c \in Clients |-> <<>>]
    /\ reset = {}
    /\ sent = 0
    /\ up = TRUE
    /\ open = [c \in Clients |-> TRUE]
    /\ buffer = [c \in Clients |-> <<>>]
    /\ pc = [c \in Clients |-> "idle"]
    /\ cmd = [c \in Clients |-> NoCommand]
    /\ answer = [c \in Clients |-> None]
    /\ store = [k \in Strings |-> Empty]
    /\ log = <<>>

-----------------------------------------------------------------------------
(* Clients. *)

SendLine(c, l) ==
    /\ client[c] = "in" /\ open[c]
    /\ Len(waiting[c]) < Window
    /\ sent < MaxLines
    /\ sent' = sent + 1
    /\ stream' = [stream EXCEPT ![c] = stream[c] \o Append(l, Newline)]
    /\ waiting' = [waiting EXCEPT ![c] = Append(waiting[c], l)]
    /\ UNCHANGED <<client, inbox, reset, up, open, buffer, pc, cmd, answer, store, log>>

ReadAnswer(c) ==
    /\ client[c] = "in"
    /\ inbox[c] # <<>>
    /\ inbox' = [inbox EXCEPT ![c] = Tail(inbox[c])]
    /\ waiting' = [waiting EXCEPT ![c] = Tail(waiting[c])]
    /\ UNCHANGED <<client, stream, reset, sent, up, open, buffer, pc, cmd, answer, store, log>>

(* The client closes its end; some of what it meant to send may be missing. *)
Leave(c) ==
    /\ client[c] = "in"
    /\ client' = [client EXCEPT ![c] = "left"]
    /\ \E n \in 0 .. Len(stream[c]) :
         stream' = [stream EXCEPT ![c] = SubSeq(stream[c], 1, n)]
    /\ UNCHANGED <<waiting, inbox, reset, sent, up, open, buffer, pc, cmd, answer, store, log>>

-----------------------------------------------------------------------------
(* messageHandler: one recv. *)

(* Mutant: the bytes of an earlier recv are forgotten. *)
CollectedAlone(c, n) == SubSeq(stream[c], 1, n)

(* commandBuffer after a recv of n units. *)
Collected(c, n) == buffer[c] \o SubSeq(stream[c], 1, n)

(* Mutant: off by one. *)
TooLongAtLimit(message) == Len(message) >= MaxBuffer

TooLong(message) == Len(message) > MaxBuffer

(* Mutant: a lone newline is taken for no message. *)
CompleteNotBlank(message) == Len(message) > 1 /\ Contains(message, Newline)

Complete(message) == Contains(message, Newline)

(* Mutant: the buffer is not cleared. *)
LeftOverKept(message) == message

(* clear() drops everything, what follows the first command included. *)
LeftOver(message) == <<>>

(* The n-th word; a string that operator>> finds no word for stays empty. *)
Word(message, n) ==
    LET words == {i \in DOMAIN message : message[i] # Newline}
        nth == {i \in words : Cardinality({j \in words : j <= i}) = n}
    IN  IF nth = {} THEN Empty ELSE message[CHOOSE i \in nth : TRUE]

(* Three times operator>>: blanks and newlines alike only separate words. *)
Parse(message) ==
    [command |-> Word(message, 1), key |-> Word(message, 2),
     value |-> IF Word(message, 1) = "INSERT" THEN Word(message, 3) ELSE Empty]

CanRecv(c) == up /\ open[c] /\ pc[c] = "idle"

Received(c, n) ==
    /\ CanRecv(c)
    /\ n <= Len(stream[c])
    /\ stream' = [stream EXCEPT ![c] = SubSeq(stream[c], n + 1, Len(stream[c]))]
    /\ UNCHANGED <<client, waiting, inbox, reset, sent, up, answer, store, log>>

RecvTooMuch(c, n) ==
    /\ Received(c, n)
    /\ TooLong(Collected(c, n))
    /\ open' = [open EXCEPT ![c] = FALSE]
    /\ UNCHANGED <<buffer, pc, cmd>>

RecvPart(c, n) ==
    /\ Received(c, n)
    /\ ~TooLong(Collected(c, n)) /\ ~Complete(Collected(c, n))
    /\ buffer' = [buffer EXCEPT ![c] = Collected(c, n)]
    /\ UNCHANGED <<open, pc, cmd>>

RecvMessage(c, n) ==
    /\ Received(c, n)
    /\ ~TooLong(Collected(c, n)) /\ Complete(Collected(c, n))
    /\ cmd' = [cmd EXCEPT ![c] = Parse(Collected(c, n))]
    /\ buffer' = [buffer EXCEPT ![c] = LeftOver(Collected(c, n))]
    /\ pc' = [pc EXCEPT ![c] = "execute"]
    /\ UNCHANGED open

(* Mutant: a recv of 0 bytes is handled as a message. *)
RecvEndAnswered(c) ==
    /\ CanRecv(c)
    /\ stream[c] = <<>> /\ client[c] = "left"
    /\ pc' = [pc EXCEPT ![c] = "execute"]
    /\ UNCHANGED <<clientVars, up, open, buffer, cmd, answer, store, log>>

(* recv returns 0, or an error after a reset: closeConnection. *)
RecvEnd(c) ==
    /\ CanRecv(c)
    /\ stream[c] = <<>> /\ client[c] = "left"
    /\ open' = [open EXCEPT ![c] = FALSE]
    /\ UNCHANGED <<clientVars, up, buffer, pc, cmd, answer, store, log>>

-----------------------------------------------------------------------------
(* messageHandler: the command. *)

(* Mutant: the handler answers a write before it logs it. *)
AfterWriteUnlogged == "send"

AfterWrite == "log"

(* The command's call on the map is done and a is the answer to be sent. *)
Executed(c, a, next) ==
    /\ up
    /\ pc[c] = "execute"
    /\ answer' = [answer EXCEPT ![c] = a]
    /\ pc' = [pc EXCEPT ![c] = next]
    /\ UNCHANGED <<clientVars, up, open, buffer, cmd, log>>

Insert(c) ==
    /\ cmd[c].command = "INSERT"
    /\ cmd[c].value # Empty
    /\ Executed(c, <<"inserted">>, AfterWrite)
    /\ store' = [store EXCEPT ![cmd[c].key] = cmd[c].value]

InsertNothing(c) ==
    /\ cmd[c].command = "INSERT"
    /\ cmd[c].value = Empty
    /\ Executed(c, <<"empty value">>, "send")
    /\ UNCHANGED store

Get(c) ==
    LET resultGet == store[cmd[c].key]
    IN  /\ cmd[c].command = "GET"
        /\ Executed(c, IF resultGet = Empty THEN <<"not found">> ELSE <<"found", resultGet>>,
                    "send")
        /\ UNCHANGED store

Delete(c) ==
    /\ cmd[c].command = "DELETE"
    /\ Executed(c, <<"deleted">>, AfterWrite)
    /\ store' = [store EXCEPT ![cmd[c].key] = Empty]

Unknown(c) ==
    /\ cmd[c].command \notin {"INSERT", "GET", "DELETE"}
    /\ Executed(c, <<"no command">>, "send")
    /\ UNCHANGED store

AppendToLog(c) ==
    /\ up
    /\ pc[c] = "log"
    /\ log' = Append(log, cmd[c])
    /\ pc' = [pc EXCEPT ![c] = "send"]
    /\ UNCHANGED <<clientVars, up, open, buffer, cmd, answer, store>>

(* send and rearmSocket. The host of a client that has left answers the first *)
(* data with a reset; a send after that raises SIGPIPE, which ends the process *)
(* (main handles SIGTERM and SIGINT only).                                     *)
SendAnswer(c) ==
    /\ up
    /\ pc[c] = "send"
    /\ inbox' = [inbox EXCEPT ![c] = Append(inbox[c], answer[c])]
    /\ answer' = [answer EXCEPT ![c] = None]
    /\ reset' = IF client[c] = "left" THEN reset \union {c} ELSE reset
    /\ up' = (c \notin reset)
    /\ pc' = [pc EXCEPT ![c] = "idle"]
    /\ UNCHANGED <<client, waiting, stream, sent, open, buffer, cmd, store, log>>

-----------------------------------------------------------------------------

Recv(c) ==
    \/ \E n \in 1 .. RecvSize : RecvTooMuch(c, n) \/ RecvPart(c, n) \/ RecvMessage(c, n)
    \/ RecvEnd(c)

Handle(c) ==
    \/ Recv(c)
    \/ Insert(c) \/ InsertNothing(c) \/ Get(c) \/ Delete(c) \/ Unknown(c)
    \/ AppendToLog(c)
    \/ SendAnswer(c)

Next ==
    \E c \in Clients :
        \/ \E l \in Lines : SendLine(c, l)
        \/ ReadAnswer(c)
        \/ Leave(c)
        \/ Handle(c)

Spec == Init /\ [][Next]_vars

(* A handler whose socket is readable is run to its end (Connections shows    *)
(* that no readiness is lost) and a client that waits reads what it gets.     *)
FairSpec == Spec /\ \A c \in Clients : WF_vars(Handle(c)) /\ WF_vars(ReadAnswer(c))

-----------------------------------------------------------------------------

(* Between two handlers commandBuffer holds an unfinished line within limits, *)
(* and a handler that sends has an answer.                                    *)
TypeOK ==
    /\ client \in [Clients -> {"in", "left"}]
    /\ waiting \in [Clients -> Seq(Lines)]
    /\ stream \in [Clients -> Seq(Words \union {Newline})]
    /\ inbox \in [Clients -> Seq(Answers)]
    /\ reset \subseteq Clients
    /\ sent \in 0 .. MaxLines
    /\ up \in BOOLEAN
    /\ open \in [Clients -> BOOLEAN]
    /\ buffer \in [Clients -> Seq(Words)]
    /\ \A c \in Clients : Len(buffer[c]) <= MaxBuffer
    /\ pc \in [Clients -> {"idle", "execute", "log", "send"}]
    /\ cmd \in [Clients -> Commands]
    /\ answer \in [Clients -> Answers \union {None}]
    /\ \A c \in Clients : pc[c] \in {"log", "send"} => answer[c] # None
    /\ store \in [Strings -> Strings]
    /\ log \in Seq(Commands)

Service ==
    INSTANCE KVService WITH
        request <- [c \in Clients |-> IF waiting[c] = <<>> THEN None ELSE Head(waiting[c])],
        result <- [c \in Clients |-> IF inbox[c] = <<>> THEN answer[c] ELSE Head(inbox[c])]

(* However TCP cuts the lines, and though handlers of several clients        *)
(* interleave, a line of a client that waits for its answers is one command, *)
(* carried out at most once and atomically, and its answer is that moment's. *)
ImplementsKVService == Service!Spec

(* Server.h gives MAX_COMMAND_BUFFER_LENGTH as the limit: a client that      *)
(* waits for its answers loses its connection only over a line that exceeds  *)
(* it, wherever the pieces end, and never over one that just fits. (So far    *)
(* as handlers go: Connections has the expiry of idle sessions.)             *)
OnlyOverlongLinesDisconnect ==
    \A c \in Clients :
        client[c] = "in" /\ ~open[c] => Len(Head(waiting[c])) + 1 > MaxBuffer

(* The server outlives clients that go away before their answer: it sends    *)
(* no second answer on a connection whose peer has refused the first. Only   *)
(* clients that close are meant: for one that shuts down its sending side    *)
(* and then aborts the connection, the first answer may be one too many.     *)
SurvivesDepartedClients == up

(* A write whose success a client can read is in the log: the line is        *)
(* written before the answer, also when the process is about to end. Which   *)
(* of several equal lines is this write's is not told apart.                 *)
AnsweredWritesAreLogged ==
    \A c \in Clients :
        inbox[c] # <<>> /\ Head(inbox[c]) \in {<<"inserted">>, <<"deleted">>} =>
            Contains(log, Parse(Append(Head(waiting[c]), Newline)))

(* Every line gets its answer, unless the client leaves or loses its         *)
(* connection. README: "Connect to the server using `ncat` or any TCP        *)
(* client".                                                                  *)
EveryLineIsAnswered ==
    \A c \in Clients :
        waiting[c] # <<>> ~> (waiting[c] = <<>> \/ client[c] = "left" \/ ~open[c])

=============================================================================
