-------------------------------- MODULE KVMap --------------------------------
(***************************************************************************)
(* What the in-memory store promises its callers: a call of insert, get,   *)
(* remove or forEach takes effect at one moment before it returns, on a    *)
(* map from keys to values, on the key it was given, and what it gives the *)
(* caller is what the map holds at that moment. HashMap is shown to        *)
(* implement it.                                                           *)
(***************************************************************************)
CONSTANTS
    Keys,
    Values,
    Absent,     \* the empty string, get()'s answer for a missing key
    Threads,
    NoResult    \* the thread has no answer at hand

(* Calls by their arguments; an argument a call does not take is Absent. *)
Calls ==
    [op : {"insert"}, key : Keys, value : Values] \union
    [op : {"get", "remove"}, key : Keys, value : {Absent}] \union
    [op : {"forEach"}, key : {<<>>}, value : {Absent}]

NoCall == [op |-> "none"]

VARIABLES
    store,      \* the map; Absent where there is no entry
    call,       \* call[t]: the call thread t is in, or NoCall
    result      \* result[t]: what thread t's get or forEach gave it

vars == <<store, call, result>>

Init ==
    /\ store = [k \in Keys |-> Absent]
    /\ call = [t \in Threads |-> NoCall]
    /\ result = [t \in Threads |-> NoResult]

Begin(t, c) ==
    /\ call[t] = NoCall
    /\ result[t] = NoResult
    /\ call' = [call EXCEPT ![t] = c]
    /\ UNCHANGED <<store, result>>

Insert(t) ==
    /\ call[t].op = "insert"
    /\ store' = [store EXCEPT ![call[t].key] = call[t].value]
    /\ call' = [call EXCEPT ![t] = NoCall]
    /\ UNCHANGED result

Remove(t) ==
    /\ call[t].op = "remove"
    /\ store' = [store EXCEPT ![call[t].key] = Absent]
    /\ call' = [call EXCEPT ![t] = NoCall]
    /\ UNCHANGED result

Get(t) ==
    /\ call[t].op = "get"
    /\ result' = [result EXCEPT ![t] = store[call[t].key]]
    /\ call' = [call EXCEPT ![t] = NoCall]
    /\ UNCHANGED store

(* The callback is given all entries of one moment. *)
ForEach(t) ==
    /\ call[t].op = "forEach"
    /\ result' = [result EXCEPT ![t] = store]
    /\ call' = [call EXCEPT ![t] = NoCall]
    /\ UNCHANGED store

(* The caller is done with its answer. *)
Forget(t) ==
    /\ result[t] # NoResult
    /\ result' = [result EXCEPT ![t] = NoResult]
    /\ UNCHANGED <<store, call>>

Next ==
    \E t \in Threads :
        \/ \E c \in Calls : Begin(t, c)
        \/ Insert(t) \/ Remove(t) \/ Get(t) \/ ForEach(t)
        \/ Forget(t)

Spec == Init /\ [][Next]_vars

=============================================================================
