---------------------------- MODULE HashMapProofs ----------------------------
(***************************************************************************)
(* Proofs about HashMap for any keys, threads, addresses and capacity: no  *)
(* pointer outlives the node it points to. A node can only be deleted      *)
(* safely because nothing else points to it, so the invariant says that no *)
(* two pointers of the table share a node, that remove's prev is the node  *)
(* before curr, and that a thread that changes the table is alone in it.   *)
(***************************************************************************)
EXTENDS HashMap, TLAPS

(* Heads and links point to different nodes. *)
NoSharing ==
    /\ \A b, d \in Buckets : table[b] = table[d] /\ table[b] # Null => b = d
    /\ \A b \in Buckets : \A a \in Allocated : table[b] # Null => heap[a].next # table[b]
    /\ \A a, c \in Allocated : heap[a].next = heap[c].next /\ heap[a].next # Null => a = c

(* sm excludes: a call that changes the table runs alone. *)
Alone ==
    \A t, u \in Threads : Running(t) /\ Running(u) /\ Exclusive(call[t].op) => t = u

(* A thread outside a call has no pointers. *)
NoLocals == \A t \in Threads : ~Running(t) => curr[t] = Null /\ prev[t] = Null

(* What remove relies on when it unlinks curr. *)
PrevIsBefore ==
    \A t \in Threads : Running(t) /\ call[t].op = "remove" /\ curr[t] # Null =>
        IF prev[t] = Null THEN table[bucket[t]] = curr[t] ELSE heap[prev[t]].next = curr[t]

IInv ==
    /\ TypeOK
    /\ NoDanglingPointer
    /\ NoSharing
    /\ Alone
    /\ NoLocals
    /\ PrevIsBefore

-----------------------------------------------------------------------------

(* The empty table satisfies the invariant. *)
LEMMA IInvInit == Init => IInv
<1> SUFFICES ASSUME Init
             PROVE  IInv
  OBVIOUS
<1>1. TypeOK
  BY ConstantsAssumption DEF Init, TypeOK, Buckets, Ptrs, EmptyMap, Maps
<1>2. Allocated = {}
  BY DEF Init, Allocated
<1> QED
  BY <1>1, <1>2 DEF IInv, Init, NoDanglingPointer, NoSharing, Alone, NoLocals, PrevIsBefore, Running

(* Facts about a thread inside a call. *)
LEMMA InCall ==
    ASSUME TypeOK, NEW t \in Threads, Running(t)
    PROVE  /\ call[t] \in Calls
           /\ call[t].op \in {"insert", "get", "remove", "forEach"}
           /\ call[t].op \in {"insert", "get", "remove"} => call[t].key \in Keys
           /\ call[t].op = "insert" => call[t].value \in Values
BY DEF TypeOK, Running, Calls

(* A thread that has an operation under way is inside a call. *)
LEMMA OpRuns ==
    ASSUME TypeOK, NEW t \in Threads, call[t].op \in {"insert", "get", "remove", "forEach"}
    PROVE  Running(t)
BY DEF TypeOK, Running, NoCall

(* A walking thread's node is a node. *)
LEMMA AtNode ==
    ASSUME TypeOK, NoDanglingPointer, NEW t \in Threads, curr[t] # Null
    PROVE  curr[t] \in Addrs /\ curr[t] \in Allocated /\ heap[curr[t]] \in Nodes
BY DEF TypeOK, NoDanglingPointer, Allocated, Ptrs

-----------------------------------------------------------------------------
(* What a call's return, and the exclusive lock, leave of the threads' locals. *)

(* A thread that returns gives up its locals, and the other threads keep theirs. *)
LEMMA Released ==
    ASSUME IInv, NEW t \in Threads, Release(t)
    PROVE  /\ call' \in [Threads -> Calls \union {NoCall}]
           /\ bucket' \in [Threads -> Buckets]
           /\ curr' \in [Threads -> Ptrs] /\ prev' \in [Threads -> Ptrs]
           /\ scanned' \in [Threads -> Maps]
           /\ Alone' /\ NoLocals'
           /\ call'[t] = NoCall /\ curr'[t] = Null /\ prev'[t] = Null
           /\ \A u \in Threads : u # t => /\ call'[u] = call[u] /\ bucket'[u] = bucket[u]
                                          /\ curr'[u] = curr[u] /\ prev'[u] = prev[u]
<1>1. /\ call' \in [Threads -> Calls \union {NoCall}]
      /\ curr' \in [Threads -> Ptrs] /\ prev' \in [Threads -> Ptrs]
  BY DEF IInv, TypeOK, Release, Ptrs
<1>2. bucket' \in [Threads -> Buckets]
  BY ConstantsAssumption DEF IInv, TypeOK, Release, Buckets
<1>3. EmptyMap \in Maps
  BY DEF EmptyMap, Maps
<1>4. scanned' \in [Threads -> Maps]
  BY <1>3 DEF IInv, TypeOK, Release
<1>5. call'[t] = NoCall /\ curr'[t] = Null /\ prev'[t] = Null
  BY DEF IInv, TypeOK, Release
<1>6. \A u \in Threads : u # t => /\ call'[u] = call[u] /\ bucket'[u] = bucket[u]
                                  /\ curr'[u] = curr[u] /\ prev'[u] = prev[u]
  BY DEF IInv, TypeOK, Release
<1>7. Alone' /\ NoLocals'
  BY <1>5, <1>6 DEF IInv, Alone, NoLocals, Running
<1> QED
  BY <1>1, <1>2, <1>4, <1>5, <1>6, <1>7

(* While a thread inserts or removes, no other thread has a pointer. *)
LEMMA NobodyElse ==
    ASSUME IInv, NEW t \in Threads, Running(t), Exclusive(call[t].op)
    PROVE  \A u \in Threads : u # t => ~Running(u) /\ curr[u] = Null /\ prev[u] = Null
BY DEF IInv, Alone, NoLocals

(* After a change of the table nobody walks it. *)
LEMMA NobodyWalks ==
    ASSUME IInv, NEW t \in Threads, Running(t), Exclusive(call[t].op), Release(t)
    PROVE  /\ \A u \in Threads : curr'[u] = Null /\ prev'[u] = Null
           /\ PrevIsBefore'
<1>1. \A u \in Threads : curr'[u] = Null /\ prev'[u] = Null
  BY Released, NobodyElse
<1> QED
  BY <1>1 DEF PrevIsBefore

(* A return that leaves the table alone keeps the invariant but for the answer. *)
LEMMA QuietReturn ==
    ASSUME IInv, NEW t \in Threads, Release(t), UNCHANGED <<table, heap>>,
           result' = [u \in Threads |-> result'[u]],
           \A u \in Threads : result'[u] \in Values \union {Absent, NoResult} \union Maps
    PROVE  IInv'
<1>1. TypeOK'
  BY Released DEF IInv, TypeOK
<1>2. NoDanglingPointer'
  BY Released DEF IInv, NoDanglingPointer, Allocated
<1>3. NoSharing'
  BY DEF IInv, NoSharing, Allocated
<1>4. PrevIsBefore'
  BY Released DEF IInv, PrevIsBefore, Running
<1> QED
  BY <1>1, <1>2, <1>3, <1>4, Released DEF IInv

-----------------------------------------------------------------------------
(* One lemma per action. *)

(* sm is free for the call, so a writer comes in alone. *)
LEMMA BeginStep ==
    ASSUME IInv, NEW t \in Threads, NEW c \in Calls, Begin(t, c)
    PROVE  IInv'
<1> DEFINE b == IF c.op = "forEach" THEN 0 ELSE hashFunction(c.key)
<1>1. b \in Buckets
  <2>1. CASE c.op = "forEach"
    BY <2>1, ConstantsAssumption DEF Buckets
  <2>2. CASE c.op # "forEach"
    <3>1. c.key \in Keys
      BY <2>2 DEF Calls
    <3> QED
      BY <2>2, <3>1, HashAssumption
  <2> QED
    BY <2>1, <2>2
<1>2. /\ ~Running(t) /\ CanLock(c.op)
      /\ call' = [call EXCEPT ![t] = c]
      /\ bucket' = [bucket EXCEPT ![t] = b]
      /\ curr' = [curr EXCEPT ![t] = table[b]]
      /\ UNCHANGED <<table, heap, prev, scanned, result>>
  BY DEF Begin
<1> HIDE DEF b
<1>3. TypeOK'
  BY <1>1, <1>2 DEF IInv, TypeOK
<1>4. NoDanglingPointer'
  BY <1>1, <1>2 DEF IInv, TypeOK, NoDanglingPointer, Allocated
<1>5. NoSharing'
  BY <1>2 DEF IInv, NoSharing, Allocated
<1>6. Alone'
  BY <1>2 DEF IInv, TypeOK, Alone, Running, CanLock
<1>7. NoLocals'
  <2>1. c # NoCall
    BY DEF Calls, NoCall
  <2> QED
    BY <1>2, <2>1 DEF IInv, TypeOK, NoLocals, Running
<1>8. PrevIsBefore'
  <2>1. prev[t] = Null
    BY <1>2 DEF IInv, NoLocals
  <2> QED
    BY <1>1, <1>2, <2>1 DEF IInv, TypeOK, PrevIsBefore, Running
<1> QED
  BY <1>3, <1>4, <1>5, <1>6, <1>7, <1>8 DEF IInv

(* The walk moves along a link, and remove's prev is where the link starts. *)
LEMMA AdvanceStep ==
    ASSUME IInv, NEW t \in Threads, Advance(t)
    PROVE  IInv'
<1>1. /\ curr[t] \in Addrs /\ curr[t] \in Allocated /\ heap[curr[t]] \in Nodes
      /\ heap[curr[t]].next \in Ptrs
  BY AtNode DEF IInv, Advance, Nodes
<1>2. /\ Running(t)
      /\ curr' = [curr EXCEPT ![t] = heap[curr[t]].next]
      /\ prev' = [prev EXCEPT ![t] = IF call[t].op = "remove" THEN curr[t] ELSE Null]
      /\ UNCHANGED <<table, heap, call, bucket, scanned, result>>
  BY DEF Advance, NextNode
<1>3. TypeOK'
  BY <1>1, <1>2 DEF IInv, TypeOK, Ptrs
<1>4. NoDanglingPointer'
  BY <1>1, <1>2 DEF IInv, TypeOK, NoDanglingPointer, Allocated
<1>5. NoSharing' /\ Alone' /\ NoLocals'
  BY <1>2 DEF IInv, TypeOK, NoSharing, Allocated, Alone, NoLocals, Running
<1>6. PrevIsBefore'
  BY <1>1, <1>2, ConstantsAssumption DEF IInv, TypeOK, PrevIsBefore, Running
<1> QED
  BY <1>3, <1>4, <1>5, <1>6 DEF IInv

(* The value changes and no pointer does. *)
LEMMA InsertUpdateStep ==
    ASSUME IInv, NEW t \in Threads, InsertUpdate(t)
    PROVE  IInv'
<1>1. Running(t) /\ Exclusive(call[t].op) /\ call[t].value \in Values
  BY OpRuns, InCall DEF IInv, InsertUpdate, Exclusive
<1>2. curr[t] \in Addrs /\ curr[t] \in Allocated /\ heap[curr[t]] \in Nodes
  BY AtNode DEF IInv, InsertUpdate, AtKey
<1>3. /\ heap' = [heap EXCEPT ![curr[t]].value = call[t].value]
      /\ Release(t) /\ UNCHANGED <<table, result>>
  BY DEF InsertUpdate
<1>4. heap' \in [Addrs -> Nodes \union {Free}]
  BY <1>1, <1>2, <1>3 DEF IInv, TypeOK, Nodes
<1>5. \A a \in Addrs : /\ heap'[a] # Free <=> heap[a] # Free
                       /\ heap[a] # Free => heap'[a].next = heap[a].next
  <2>1. [heap[curr[t]] EXCEPT !.value = call[t].value] \in Nodes
    BY <1>1, <1>2 DEF Nodes
  <2>2. heap'[curr[t]].next = heap[curr[t]].next /\ heap'[curr[t]] # Free
    BY <1>2, <1>3, <2>1, FreeAssumption DEF IInv, TypeOK, Nodes
  <2> QED
    BY <1>2, <1>3, <2>2 DEF IInv, TypeOK, Allocated
<1>6. TypeOK'
  BY <1>3, <1>4, Released DEF IInv, TypeOK
<1>7. Allocated' = Allocated
  BY <1>5 DEF Allocated
<1>8. NoDanglingPointer'
  BY <1>1, <1>3, <1>5, <1>7, NobodyWalks DEF IInv, NoDanglingPointer, Allocated
<1>9. NoSharing'
  BY <1>3, <1>5, <1>7 DEF IInv, NoSharing, Allocated
<1> QED
  BY <1>1, <1>3, <1>6, <1>8, <1>9, NobodyWalks, Released DEF IInv

(* Nothing points to a free address, so the new node is shared by nobody. *)
LEMMA InsertNewStep ==
    ASSUME IInv, NEW t \in Threads, NEW a \in Addrs, InsertNew(t, a)
    PROVE  IInv'
<1> DEFINE b == bucket[t]
           node == [key |-> call[t].key, value |-> call[t].value, next |-> table[b]]
<1>1. /\ Running(t) /\ Exclusive(call[t].op)
      /\ call[t].key \in Keys /\ call[t].value \in Values
  BY OpRuns, InCall DEF IInv, InsertNew, Exclusive
<1>2. /\ heap[a] = Free /\ heap' = [heap EXCEPT ![a] = node]
      /\ table' = [table EXCEPT ![b] = a]
      /\ Release(t) /\ UNCHANGED result
  BY DEF InsertNew
<1>3. b \in Buckets /\ node \in Nodes /\ node.next = table[b]
  BY <1>1 DEF IInv, TypeOK, Nodes
<1> HIDE DEF node, b
<1>4. TypeOK'
  BY <1>2, <1>3, Released DEF IInv, TypeOK, Ptrs
<1>5. /\ a # Null /\ a \notin Allocated /\ Allocated' = Allocated \union {a}
      /\ heap'[a].next = table[b]
      /\ \A c \in Allocated : heap'[c] = heap[c]
      /\ table'[b] = a
      /\ \A d \in Buckets : d # b => table'[d] = table[d]
  BY <1>2, <1>3, FreeAssumption, ConstantsAssumption DEF IInv, TypeOK, Allocated
<1>6. /\ \A d \in Buckets : table[d] # a
      /\ \A c \in Allocated : heap[c].next # a
  BY <1>5 DEF IInv, NoDanglingPointer
<1>7. NoDanglingPointer'
  <2>1. \A d \in Buckets : table'[d] # Null => table'[d] \in Allocated'
    BY <1>5 DEF IInv, NoDanglingPointer
  <2>2. \A c \in Allocated' : heap'[c].next # Null => heap'[c].next \in Allocated'
    BY <1>3, <1>5 DEF IInv, NoDanglingPointer
  <2> QED
    BY <1>1, <1>2, <2>1, <2>2, NobodyWalks DEF NoDanglingPointer
<1>8. NoSharing'
  <2>1. \A d, e \in Buckets : table'[d] = table'[e] /\ table'[d] # Null => d = e
    BY <1>5, <1>6 DEF IInv, NoSharing
  <2>2. \A d \in Buckets : \A c \in Allocated' : table'[d] # Null => heap'[c].next # table'[d]
    BY <1>3, <1>5, <1>6 DEF IInv, NoSharing
  <2>3. \A c, d \in Allocated' :
          heap'[c].next = heap'[d].next /\ heap'[c].next # Null => c = d
    BY <1>3, <1>5, <1>6 DEF IInv, NoSharing
  <2> QED
    BY <2>1, <2>2, <2>3 DEF NoSharing
<1> QED
  BY <1>1, <1>2, <1>4, <1>7, <1>8, NobodyWalks, Released DEF IInv

(* get answers with a value of the map or with the empty string. *)
LEMMA GetStep ==
    ASSUME IInv, NEW t \in Threads, Get(t)
    PROVE  IInv'
<1>1. AtKey(t) => heap[curr[t]].value \in Values
  BY AtNode DEF IInv, AtKey, Nodes
<1>2. /\ Release(t) /\ UNCHANGED <<table, heap>>
      /\ result' = [result EXCEPT ![t] = IF AtKey(t) THEN heap[curr[t]].value ELSE Absent]
  BY DEF Get, FoundValue, Missing
<1>3. \A u \in Threads : result'[u] \in Values \union {Absent, NoResult} \union Maps
  BY <1>1, <1>2 DEF IInv, TypeOK
<1>4. result' = [u \in Threads |-> result'[u]]
  BY <1>2 DEF IInv, TypeOK
<1> QED
  BY <1>2, <1>3, <1>4, QuietReturn

(* The node has one pointer to it, and that pointer is moved past it. *)
LEMMA RemoveNodeStep ==
    ASSUME IInv, NEW t \in Threads, RemoveNode(t)
    PROVE  IInv'
<1> DEFINE b == bucket[t]
           n == curr[t]
           p == prev[t]
           next == heap[n].next
<1>1. /\ Running(t) /\ Exclusive(call[t].op) /\ call[t].op = "remove"
      /\ b \in Buckets /\ n # Null
  BY OpRuns DEF IInv, TypeOK, RemoveNode, Exclusive, AtKey
<1>2. /\ n \in Addrs /\ n \in Allocated /\ heap[n] \in Nodes /\ next \in Ptrs
  BY <1>1, AtNode DEF IInv, Nodes
<1>3. /\ table' = IF p = Null THEN [table EXCEPT ![b] = next] ELSE table
      /\ heap' = IF p = Null THEN [heap EXCEPT ![n] = Free]
                 ELSE [heap EXCEPT ![p].next = next, ![n] = Free]
      /\ Release(t) /\ UNCHANGED result
  BY DEF RemoveNode, Deleted
<1>4. next # Null => next \in Allocated
  BY <1>2 DEF IInv, NoDanglingPointer
<1>5. \A u \in Threads : curr'[u] = Null /\ prev'[u] = Null
  BY <1>1, <1>3, NobodyWalks
<1>6. CASE p = Null
  <2>1. table[b] = n
    BY <1>1, <1>6 DEF IInv, PrevIsBefore
  <2>2. /\ table' = [table EXCEPT ![b] = next]
        /\ heap' = [heap EXCEPT ![n] = Free]
    BY <1>3, <1>6
  <2> HIDE DEF b, n, p, next
  <2>3. TypeOK'
    BY <1>1, <1>2, <1>3, <2>2, Released DEF IInv, TypeOK
  <2>4. /\ Allocated' = Allocated \ {n}
        /\ \A c \in Allocated' : heap'[c] = heap[c]
        /\ table'[b] = next
        /\ \A d \in Buckets : d # b => table'[d] = table[d]
    BY <1>1, <1>2, <2>2 DEF IInv, TypeOK, Allocated
  <2>5. /\ \A d \in Buckets : d # b => table[d] # n
        /\ \A c \in Allocated : heap[c].next # n
    BY <1>1, <2>1 DEF IInv, NoSharing
  <2>6. next # n
    BY <1>2, <2>5 DEF next
  <2>7. NoDanglingPointer'
    <3>1. \A d \in Buckets : table'[d] # Null => table'[d] \in Allocated'
      BY <1>4, <2>4, <2>5, <2>6 DEF IInv, NoDanglingPointer
    <3>2. \A c \in Allocated' : heap'[c].next # Null => heap'[c].next \in Allocated'
      BY <2>4, <2>5 DEF IInv, NoDanglingPointer
    <3> QED
      BY <1>5, <3>1, <3>2 DEF NoDanglingPointer
  <2>8. NoSharing'
    <3>1. \A d \in Buckets : d # b /\ next # Null => table[d] # next
      BY <1>2 DEF IInv, NoSharing, next
    <3>2. \A c \in Allocated' : next # Null => heap[c].next # next
      BY <1>2, <2>4 DEF IInv, NoSharing, next
    <3>3. \A d, e \in Buckets : table'[d] = table'[e] /\ table'[d] # Null => d = e
      BY <2>4, <3>1 DEF IInv, NoSharing
    <3>4. \A d \in Buckets : \A c \in Allocated' :
            table'[d] # Null => heap'[c].next # table'[d]
      BY <2>4, <3>2 DEF IInv, NoSharing
    <3>5. \A c, d \in Allocated' :
            heap'[c].next = heap'[d].next /\ heap'[c].next # Null => c = d
      BY <2>4 DEF IInv, NoSharing
    <3> QED
      BY <3>3, <3>4, <3>5 DEF NoSharing
  <2> QED
    BY <1>1, <1>3, <2>3, <2>7, <2>8, NobodyWalks, Released DEF IInv
<1>7. CASE p # Null
  <2>1. /\ p \in Addrs /\ p \in Allocated /\ heap[p] \in Nodes /\ heap[p].next = n
    BY <1>1, <1>7 DEF IInv, TypeOK, PrevIsBefore, NoDanglingPointer, Allocated
  <2>2. /\ table' = table
        /\ heap' = [heap EXCEPT ![p].next = next, ![n] = Free]
    BY <1>3, <1>7
  <2> HIDE DEF b, n, p, next
  <2>3. /\ [heap[p] EXCEPT !.next = next] \in Nodes
        /\ [heap[p] EXCEPT !.next = next].next = next
    BY <1>2, <2>1 DEF Nodes
  <2>4. heap' \in [Addrs -> Nodes \union {Free}]
    BY <1>2, <2>1, <2>2, <2>3 DEF IInv, TypeOK
  <2>5. TypeOK'
    BY <1>3, <2>2, <2>4, Released DEF IInv, TypeOK
  <2>6. /\ Allocated' = Allocated \ {n}
        /\ \A c \in Allocated' : c # p => heap'[c] = heap[c]
        /\ p # n => heap'[p].next = next
    BY <1>2, <2>1, <2>2, <2>3, FreeAssumption DEF IInv, TypeOK, Allocated
  <2>7. /\ \A d \in Buckets : table[d] # n
        /\ \A c \in Allocated : c # p => heap[c].next # n
    BY <1>1, <1>2, <2>1 DEF IInv, NoSharing
  <2>8. p # n => next # n
    BY <1>2, <2>7 DEF next
  <2>9. NoDanglingPointer'
    <3>1. \A d \in Buckets : table'[d] # Null => table'[d] \in Allocated'
      BY <2>2, <2>6, <2>7 DEF IInv, NoDanglingPointer
    <3>2. \A c \in Allocated' : heap'[c].next # Null => heap'[c].next \in Allocated'
      BY <1>4, <2>6, <2>7, <2>8 DEF IInv, NoDanglingPointer
    <3> QED
      BY <1>5, <3>1, <3>2 DEF NoDanglingPointer
  <2>10. NoSharing'
    <3>1. \A d \in Buckets : next # Null => table[d] # next
      BY <1>2 DEF IInv, NoSharing, next
    <3>2. \A c \in Allocated' : next # Null => heap[c].next # next
      BY <1>2, <2>6 DEF IInv, NoSharing, next
    <3>3. \A d, e \in Buckets : table'[d] = table'[e] /\ table'[d] # Null => d = e
      BY <2>2 DEF IInv, NoSharing
    <3>4. \A d \in Buckets : \A c \in Allocated' :
            table'[d] # Null => heap'[c].next # table'[d]
      BY <2>2, <2>6, <3>1 DEF IInv, NoSharing
    <3>5. \A c, d \in Allocated' :
            heap'[c].next = heap'[d].next /\ heap'[c].next # Null => c = d
      BY <2>6, <3>2 DEF IInv, NoSharing
    <3> QED
      BY <3>3, <3>4, <3>5 DEF NoSharing
  <2> QED
    BY <1>1, <1>3, <2>5, <2>9, <2>10, NobodyWalks, Released DEF IInv
<1> QED
  BY <1>6, <1>7

(* remove found no node and changes nothing. *)
LEMMA RemoveNothingStep ==
    ASSUME IInv, NEW t \in Threads, RemoveNothing(t)
    PROVE  IInv'
<1>1. Release(t) /\ UNCHANGED <<table, heap, result>>
  BY DEF RemoveNothing
<1> QED
  BY <1>1, QuietReturn DEF IInv, TypeOK

(* forEach moves along a link. *)
LEMMA ForEachNodeStep ==
    ASSUME IInv, NEW t \in Threads, ForEachNode(t)
    PROVE  IInv'
<1> DEFINE node == heap[curr[t]]
<1>1. /\ Running(t) /\ call[t].op = "forEach"
  BY OpRuns DEF IInv, ForEachNode
<1>2. /\ curr[t] \in Allocated
      /\ node.key \in Keys /\ node.value \in Values /\ node.next \in Ptrs
  BY AtNode DEF IInv, ForEachNode, Nodes
<1>3. /\ scanned' = [scanned EXCEPT ![t] = [scanned[t] EXCEPT ![node.key] = node.value]]
      /\ curr' = [curr EXCEPT ![t] = node.next]
      /\ UNCHANGED <<table, heap, call, bucket, prev, result>>
  BY DEF ForEachNode
<1>4. node.next # Null => node.next \in Allocated
  BY <1>2 DEF IInv, NoDanglingPointer
<1> HIDE DEF node
<1>5. [scanned[t] EXCEPT ![node.key] = node.value] \in Maps
  BY <1>2 DEF IInv, TypeOK, Maps
<1>6. TypeOK'
  BY <1>2, <1>3, <1>5 DEF IInv, TypeOK
<1>7. NoDanglingPointer'
  BY <1>3, <1>4 DEF IInv, TypeOK, NoDanglingPointer, Allocated
<1>8. NoSharing' /\ Alone' /\ NoLocals'
  BY <1>1, <1>3 DEF IInv, TypeOK, NoSharing, Allocated, Alone, NoLocals, Running
<1>9. PrevIsBefore'
  BY <1>1, <1>3 DEF IInv, TypeOK, PrevIsBefore, Running
<1> QED
  BY <1>6, <1>7, <1>8, <1>9 DEF IInv

(* forEach goes on to the head of the next bucket. *)
LEMMA ForEachBucketStep ==
    ASSUME IInv, NEW t \in Threads, ForEachBucket(t)
    PROVE  IInv'
<1>1. /\ Running(t) /\ call[t].op = "forEach"
  BY OpRuns DEF IInv, ForEachBucket
<1>2. bucket[t] + 1 \in Buckets
  BY ConstantsAssumption DEF IInv, TypeOK, ForEachBucket, Buckets
<1>3. /\ bucket' = [bucket EXCEPT ![t] = bucket[t] + 1]
      /\ curr' = [curr EXCEPT ![t] = table[bucket[t] + 1]]
      /\ UNCHANGED <<table, heap, call, prev, scanned, result>>
  BY DEF ForEachBucket
<1>4. TypeOK'
  BY <1>2, <1>3 DEF IInv, TypeOK
<1>5. NoDanglingPointer'
  BY <1>2, <1>3 DEF IInv, TypeOK, NoDanglingPointer, Allocated
<1>6. NoSharing' /\ Alone' /\ NoLocals'
  BY <1>1, <1>3 DEF IInv, TypeOK, NoSharing, Allocated, Alone, NoLocals, Running
<1>7. PrevIsBefore'
  BY <1>1, <1>3 DEF IInv, TypeOK, PrevIsBefore, Running
<1> QED
  BY <1>4, <1>5, <1>6, <1>7 DEF IInv

(* forEach answers with what it scanned. *)
LEMMA ForEachEndStep ==
    ASSUME IInv, NEW t \in Threads, ForEachEnd(t)
    PROVE  IInv'
<1>1. /\ Release(t) /\ UNCHANGED <<table, heap>>
      /\ result' = [result EXCEPT ![t] = scanned[t]]
  BY DEF ForEachEnd
<1>2. /\ result' = [u \in Threads |-> result'[u]]
      /\ \A u \in Threads : result'[u] \in Values \union {Absent, NoResult} \union Maps
  BY <1>1 DEF IInv, TypeOK
<1> QED
  BY <1>1, <1>2, QuietReturn

(* The caller uses its answer. *)
LEMMA ConsumeStep ==
    ASSUME IInv, NEW t \in Threads, Consume(t)
    PROVE  IInv'
<1>1. /\ UNCHANGED <<table, heap, call, bucket, curr, prev, scanned>>
      /\ result' = [result EXCEPT ![t] = NoResult]
  BY DEF Consume, walkVars
<1>2. TypeOK'
  BY <1>1 DEF IInv, TypeOK
<1> QED
  BY <1>1, <1>2 DEF IInv, NoDanglingPointer, NoSharing, Allocated, Alone, NoLocals, PrevIsBefore,
                    Running

(* Every step keeps the invariant. *)
LEMMA IInvStep == IInv /\ [Next]_vars => IInv'
<1> SUFFICES ASSUME IInv, [Next]_vars
             PROVE  IInv'
  OBVIOUS
<1>1. CASE UNCHANGED vars
  BY <1>1 DEF vars, IInv, TypeOK, NoDanglingPointer, NoSharing, Allocated, Alone, NoLocals,
              PrevIsBefore, Running
<1>2. CASE Next
  <2>1. PICK t \in Threads : Step(t) \/ Consume(t) \/ \E c \in Calls : Begin(t, c)
    BY <1>2 DEF Next
  <2> QED
    BY <2>1, BeginStep, AdvanceStep, InsertUpdateStep, InsertNewStep, GetStep, RemoveNodeStep,
       RemoveNothingStep, ForEachNodeStep, ForEachBucketStep, ForEachEndStep, ConsumeStep DEF Step
<1> QED
  BY <1>1, <1>2

-----------------------------------------------------------------------------

(* The table, the nodes and every thread's locals keep their types. *)
THEOREM TypeCorrect == Spec => []TypeOK
<1>1. IInv => TypeOK
  BY DEF IInv
<1> QED
  BY <1>1, IInvInit, IInvStep, PTL DEF Spec

(* No use after delete: remove deletes a node only when no head, no link and *)
(* no thread's walk can still lead to it.                                    *)
THEOREM NoDanglingCorrect == Spec => []NoDanglingPointer
<1>1. IInv => NoDanglingPointer
  BY DEF IInv
<1> QED
  BY <1>1, IInvInit, IInvStep, PTL DEF Spec

(* sm works as the code means it: a call that changes the table is alone in  *)
(* it, and remove's prev is the node before the one it unlinks.              *)
THEOREM WritersAlone == Spec => [](Alone /\ PrevIsBefore)
<1>1. IInv => Alone /\ PrevIsBefore
  BY DEF IInv
<1> QED
  BY <1>1, IInvInit, IInvStep, PTL DEF Spec

=============================================================================
