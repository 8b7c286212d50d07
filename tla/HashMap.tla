------------------------------- MODULE HashMap -------------------------------
(***************************************************************************)
(* HashMap: separate chaining over raw pointers, shared by the worker      *)
(* threads (insert, get, remove), the loader (insert, remove) and the      *)
(* snapshot thread (forEach). A call takes sm (exclusively to insert or    *)
(* remove, shared to get or forEach), walks a chain one node per step, and *)
(* takes effect and releases sm in its last step.                          *)
(***************************************************************************)
EXTENDS Integers, Sequences, FiniteSets

CONSTANTS
    Keys,       \* keys, as sequences of (signed) character codes
    Values,     \* the non-empty values
    Absent,     \* the empty string
    Workers,    \* threads that insert, get and remove
    Scanners,   \* threads that call forEach (the snapshot scheduler's)
    Addrs,      \* addresses operator new can return
    Null,       \* nullptr
    Free,       \* the content of an address that is not allocated
    NoResult,   \* the thread has no answer at hand
    Capacity,   \* number of buckets
    Word        \* 2^(width of unsigned long long)

ASSUME ConstantsAssumption ==
    /\ Keys \subseteq Seq(Int)
    /\ Absent \notin Values
    /\ Null \notin Addrs
    /\ Capacity \in Nat \ {0}
    /\ Word \in Nat \ {0}
    /\ IsFiniteSet(Keys) /\ IsFiniteSet(Addrs)
    /\ Cardinality(Addrs) >= Cardinality(Keys)  \* new never throws bad_alloc

Threads == Workers \union Scanners

Buckets == 0 .. Capacity - 1

Ptrs == Addrs \union {Null}

Nodes == [key : Keys, value : Values, next : Ptrs]

Maps == [Keys -> Values \union {Absent}]

ASSUME FreeAssumption == Free \notin Nodes

EmptyMap == [k \in Keys |-> Absent]

(* hashValue += p * hashValue + c for each character, in unsigned arithmetic. *)
hashFunction(key) ==
    LET hashValue[n \in 0 .. Len(key)] ==
            IF n = 0 THEN 0
            ELSE (hashValue[n - 1] + (31 * hashValue[n - 1] + key[n])) % Word
    IN  hashValue[Len(key)] % Capacity

ASSUME HashAssumption == \A k \in Keys : hashFunction(k) \in Buckets

(* Calls by their arguments; an argument a call does not take is Absent. *)
Calls ==
    [op : {"insert"}, key : Keys, value : Values] \union
    [op : {"get", "remove"}, key : Keys, value : {Absent}] \union
    [op : {"forEach"}, key : {<<>>}, value : {Absent}]

NoCall == [op |-> "none"]

VARIABLES
    table,      \* table[b]: the head of bucket b's chain
    heap,       \* heap[a]: the node at address a, or Free
    call,       \* call[t]: the call of thread t, or NoCall
    bucket,     \* bucket[t]: hashValue, or i in forEach
    curr,       \* curr[t]: the node the walk is at
    prev,       \* prev[t]: the node before it, in remove
    scanned,    \* scanned[t]: what forEach has passed to its callback
    result      \* result[t]: what get or forEach gave the caller

walkVars == <<call, bucket, curr, prev, scanned>>
vars == <<table, heap, call, bucket, curr, prev, scanned, result>>

Running(t) == call[t] # NoCall

Exclusive(op) == op \in {"insert", "remove"}

(* Mutant: insert and remove exclude each other but not readers. *)
CanLockWritersOnly(op) ==
    \A u \in Threads : Running(u) => ~(Exclusive(op) /\ Exclusive(call[u].op))

(* sm can be taken for op: a shared_mutex. *)
CanLock(op) ==
    \A u \in Threads : Running(u) => ~Exclusive(op) /\ ~Exclusive(call[u].op)

(* The call returns: its locals and its hold on sm are gone. *)
Release(t) ==
    /\ call' = [call EXCEPT ![t] = NoCall]
    /\ bucket' = [bucket EXCEPT ![t] = 0]
    /\ curr' = [curr EXCEPT ![t] = Null]
    /\ prev' = [prev EXCEPT ![t] = Null]
    /\ scanned' = [scanned EXCEPT ![t] = EmptyMap]

AtKey(t) == curr[t] # Null /\ heap[curr[t]].key = call[t].key

-----------------------------------------------------------------------------

Init ==
    /\ table = [b \in Buckets |-> Null]
    /\ heap = [a \in Addrs |-> Free]
    /\ call = [t \in Threads |-> NoCall]
    /\ bucket = [t \in Threads |-> 0]
    /\ curr = [t \in Threads |-> Null]
    /\ prev = [t \in Threads |-> Null]
    /\ scanned = [t \in Threads |-> EmptyMap]
    /\ result = [t \in Threads |-> NoResult]

(* Take sm and point at the head of the chain; forEach starts at bucket 0. *)
Begin(t, c) ==
    LET b == IF c.op = "forEach" THEN 0 ELSE hashFunction(c.key)
    IN  /\ ~Running(t)
        /\ result[t] = NoResult
        /\ t \in IF c.op = "forEach" THEN Scanners ELSE Workers
        /\ CanLock(c.op)
        /\ call' = [call EXCEPT ![t] = c]
        /\ bucket' = [bucket EXCEPT ![t] = b]
        /\ curr' = [curr EXCEPT ![t] = table[b]]
        /\ UNCHANGED <<table, heap, prev, scanned, result>>

(* Mutant: only remove moves on to the next node. *)
NextNodeInRemove(t) == IF call[t].op = "remove" THEN heap[curr[t]].next ELSE curr[t]

NextNode(t) == heap[curr[t]].next

(* curr = curr->next, past a node with another key. *)
Advance(t) ==
    /\ Running(t)
    /\ call[t].op # "forEach"
    /\ curr[t] # Null
    /\ ~AtKey(t)
    /\ curr' = [curr EXCEPT ![t] = NextNode(t)]
    /\ prev' = [prev EXCEPT ![t] = IF call[t].op = "remove" THEN curr[t] ELSE Null]
    /\ UNCHANGED <<table, heap, call, bucket, scanned, result>>

(* insert finds the key and replaces its value. *)
InsertUpdate(t) ==
    /\ call[t].op = "insert"
    /\ AtKey(t)
    /\ heap' = [heap EXCEPT ![curr[t]].value = call[t].value]
    /\ Release(t)
    /\ UNCHANGED <<table, result>>

(* insert reaches the end and links a new node in front of the chain. *)
InsertNew(t, a) ==
    /\ call[t].op = "insert"
    /\ curr[t] = Null
    /\ heap[a] = Free
    /\ heap' = [heap EXCEPT ![a] = [key |-> call[t].key, value |-> call[t].value,
                                    next |-> table[bucket[t]]]]
    /\ table' = [table EXCEPT ![bucket[t]] = a]
    /\ Release(t)
    /\ UNCHANGED result

(* Mutant: a missing key answers with curr, which is nullptr. *)
MissingNull == Null

Missing == Absent

(* Mutant: get answers with the head of the chain it has walked. *)
FoundValueOfHead(t) == heap[table[bucket[t]]].value

FoundValue(t) == heap[curr[t]].value

(* get returns the value of the node it found, or the empty string. *)
Get(t) ==
    /\ call[t].op = "get"
    /\ curr[t] = Null \/ AtKey(t)
    /\ result' = [result EXCEPT ![t] = IF AtKey(t) THEN FoundValue(t) ELSE Missing]
    /\ Release(t)
    /\ UNCHANGED <<table, heap>>

(* Mutant: delete is left out. *)
DeletedNot(a) == heap[a]

Deleted(a) == Free

(* remove unlinks the node, at the head or after prev, and deletes it. *)
RemoveNode(t) ==
    LET next == heap[curr[t]].next
    IN  /\ call[t].op = "remove"
        /\ AtKey(t)
        /\ table' = IF prev[t] = Null THEN [table EXCEPT ![bucket[t]] = next] ELSE table
        /\ heap' = IF prev[t] = Null THEN [heap EXCEPT ![curr[t]] = Deleted(curr[t])]
                   ELSE [heap EXCEPT ![prev[t]].next = next, ![curr[t]] = Deleted(curr[t])]
        /\ Release(t)
        /\ UNCHANGED result

RemoveNothing(t) ==
    /\ call[t].op = "remove"
    /\ curr[t] = Null
    /\ Release(t)
    /\ UNCHANGED <<table, heap, result>>

(* forEach passes a node to the callback and moves on. *)
ForEachNode(t) ==
    /\ call[t].op = "forEach"
    /\ curr[t] # Null
    /\ LET node == heap[curr[t]]
       IN  /\ scanned' = [scanned EXCEPT ![t][node.key] = node.value]
           /\ curr' = [curr EXCEPT ![t] = node.next]
    /\ UNCHANGED <<table, heap, call, bucket, prev, result>>

ForEachBucket(t) ==
    /\ call[t].op = "forEach"
    /\ curr[t] = Null
    /\ bucket[t] + 1 < Capacity
    /\ bucket' = [bucket EXCEPT ![t] = bucket[t] + 1]
    /\ curr' = [curr EXCEPT ![t] = table[bucket[t] + 1]]
    /\ UNCHANGED <<table, heap, call, prev, scanned, result>>

ForEachEnd(t) ==
    /\ call[t].op = "forEach"
    /\ curr[t] = Null
    /\ bucket[t] + 1 = Capacity
    /\ result' = [result EXCEPT ![t] = scanned[t]]
    /\ Release(t)
    /\ UNCHANGED <<table, heap>>

(* The caller has used its answer and may call again. *)
Consume(t) ==
    /\ result[t] # NoResult
    /\ result' = [result EXCEPT ![t] = NoResult]
    /\ UNCHANGED <<table, heap, walkVars>>

-----------------------------------------------------------------------------

Step(t) ==
    \/ Advance(t)
    \/ InsertUpdate(t)
    \/ \E a \in Addrs : InsertNew(t, a)
    \/ Get(t)
    \/ RemoveNode(t)
    \/ RemoveNothing(t)
    \/ ForEachNode(t)
    \/ ForEachBucket(t)
    \/ ForEachEnd(t)

Next == \E t \in Threads : Step(t) \/ Consume(t) \/ \E c \in Calls : Begin(t, c)

Spec == Init /\ [][Next]_vars

(* A thread inside a call keeps running; nobody has to call. *)
FairSpec == Spec /\ \A t \in Threads : WF_vars(Step(t))

-----------------------------------------------------------------------------

Allocated == {a \in Addrs : heap[a] # Free}

(* S has, with each of its nodes, the node that one links to. *)
Closed(S) == \A a \in S : heap[a].next \in S \union {Null}

(* The nodes a walk from pointer p meets: those every closed set with p has. *)
From(p) ==
    {a \in Allocated :
        \A S \in SUBSET Allocated : p \in S \union {Null} /\ Closed(S) => a \in S}

Chain(b) == From(table[b])

Holds(k) == \E a \in Allocated : heap[a].key = k

(* The map the heap represents. *)
Store ==
    [k \in Keys |->
        IF Holds(k) THEN heap[CHOOSE a \in Allocated : heap[a].key = k].value ELSE Absent]

(* Pointers are addresses or null; a call's locals are those of its kind. *)
TypeOK ==
    /\ table \in [Buckets -> Ptrs]
    /\ heap \in [Addrs -> Nodes \union {Free}]
    /\ call \in [Threads -> Calls \union {NoCall}]
    /\ bucket \in [Threads -> Buckets]
    /\ curr \in [Threads -> Ptrs]
    /\ prev \in [Threads -> Ptrs]
    /\ scanned \in [Threads -> Maps]
    /\ result = [t \in Threads |-> result[t]]
    /\ \A t \in Threads : result[t] \in Values \union {Absent, NoResult} \union Maps

(* No use after delete: no head, no link and no walking thread (get and      *)
(* forEach walk while other threads wait to remove) holds a deleted node.    *)
NoDanglingPointer ==
    /\ \A b \in Buckets : table[b] # Null => table[b] \in Allocated
    /\ \A a \in Allocated : heap[a].next # Null => heap[a].next \in Allocated
    /\ \A t \in Threads : {curr[t], prev[t]} \ {Null} \subseteq Allocated

(* No node leaks and none is found twice: each allocated node is in the      *)
(* chain of its key's bucket, in no other, and no two share a key, whatever  *)
(* order inserts and removes come in.                                        *)
NodesAreChained ==
    /\ \A b \in Buckets : Chain(b) = {a \in Allocated : hashFunction(heap[a].key) = b}
    /\ \A a, c \in Allocated : heap[a].key = heap[c].key => a = c

KV == INSTANCE KVMap WITH store <- Store

(* HashMap.h: insert "Updates the value if the key exists", get is "the      *)
(* value associated with a given key", remove and forEach likewise. Every    *)
(* call has that effect, on its own key and with its own answer, at one      *)
(* moment, though threads interleave and forEach takes many steps: the table *)
(* implements the abstract map.                                              *)
ImplementsKVMap == KV!Spec

(* Every walk ends: no call hangs in a cyclic chain while it holds sm. *)
CallsReturn == \A t \in Threads : Running(t) ~> ~Running(t)

=============================================================================
