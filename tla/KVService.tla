------------------------------ MODULE KVService ------------------------------
(***************************************************************************)
(* What the server promises a client that waits for each answer: every     *)
(* line it sends is one command, which takes effect on the store at one    *)
(* moment, once, and whose answer is what that moment gives. The commands  *)
(* are the README's, by the words of the line: INSERT key value, GET key,  *)
(* DELETE key. CommandProtocol is shown to implement it.                   *)
(***************************************************************************)
EXTENDS Naturals, Sequences

CONSTANTS
    Clients,
    Words,      \* the words lines are made of
    Lines,      \* the lines clients send, as sequences of words
    Empty,      \* no word, the empty string
    None        \* no line, or no answer

VARIABLES
    store,      \* store[k]: the value under k, or Empty
    request,    \* request[c]: the line client c waits for, or None
    result      \* result[c]: the answer to it, once it was carried out

vars == <<store, request, result>>

Init ==
    /\ store = [k \in Words \union {Empty} |-> Empty]
    /\ request = [c \in Clients |-> None]
    /\ result = [c \in Clients |-> None]

Is(l, command) == l # <<>> /\ l[1] = command

Effect(l) ==
    CASE Is(l, "INSERT") /\ Len(l) >= 3 -> [store EXCEPT ![l[2]] = l[3]]
      [] Is(l, "DELETE") /\ Len(l) >= 2 -> [store EXCEPT ![l[2]] = Empty]
      [] OTHER -> store

Reply(l) ==
    CASE Is(l, "INSERT") -> IF Len(l) >= 3 THEN <<"inserted">> ELSE <<"empty value">>
      [] Is(l, "DELETE") -> <<"deleted">>
      [] Is(l, "GET") -> IF Len(l) >= 2 /\ store[l[2]] # Empty THEN <<"found", store[l[2]]>>
                         ELSE <<"not found">>
      [] OTHER -> <<"no command">>

Call(c, l) ==
    /\ request[c] = None
    /\ request' = [request EXCEPT ![c] = l]
    /\ UNCHANGED <<store, result>>

Execute(c) ==
    /\ request[c] # None
    /\ result[c] = None
    /\ store' = Effect(request[c])
    /\ result' = [result EXCEPT ![c] = Reply(request[c])]
    /\ UNCHANGED request

Return(c) ==
    /\ result[c] # None
    /\ request' = [request EXCEPT ![c] = None]
    /\ result' = [result EXCEPT ![c] = None]
    /\ UNCHANGED store

Next == \E c \in Clients : Execute(c) \/ Return(c) \/ \E l \in Lines : Call(c, l)

Spec == Init /\ [][Next]_vars

=============================================================================
