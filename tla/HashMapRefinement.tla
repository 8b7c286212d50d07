-------------------------- MODULE HashMapRefinement --------------------------
(***************************************************************************)
(* Proofs that HashMap's chains hold the nodes they should, and that the   *)
(* table implements the abstract map KVMap, for any keys, threads,         *)
(* addresses and capacity. What a walk still has ahead of it is said with  *)
(* sets closed under the links, so that no proof counts nodes.             *)
(***************************************************************************)
EXTENDS HashMapProofs

(* The nodes that belong in bucket b. *)
InBucket(b) == {a \in Allocated : hashFunction(heap[a].key) = b}

(* A call of t on one key walks that key's bucket, and a node with the key,  *)
(* if there is one, is still ahead of it.                                    *)
AheadOf(t) ==
    Running(t) /\ call[t].op # "forEach" =>
        /\ bucket[t] = hashFunction(call[t].key)
        /\ \A a \in Allocated : heap[a].key = call[t].key => a \in From(curr[t])

Ahead == \A t \in Threads : AheadOf(t)

(* A node that forEach of t has passed to its callback. *)
Seen(t, a) == scanned[t][heap[a].key] = heap[a].value

(* forEach has seen the nodes of the buckets before its own and, of its own, *)
(* those that are not ahead of it; and it has seen nodes only.               *)
ScanningOf(t) ==
    Running(t) /\ call[t].op = "forEach" =>
        /\ \A a \in Allocated : hashFunction(heap[a].key) < bucket[t] => Seen(t, a)
        /\ \A a \in Allocated : hashFunction(heap[a].key) = bucket[t] =>
              a \in From(curr[t]) \/ Seen(t, a)
        /\ \A k \in Keys : scanned[t][k] # Absent =>
              \E a \in Allocated : heap[a].key = k /\ Seen(t, a)

Scanning == \A t \in Threads : ScanningOf(t)

(* A thread calls with an empty scan and no answer, and gets one at the end. *)
FreshCalls ==
    \A t \in Threads : /\ ~Running(t) => scanned[t] = EmptyMap
                       /\ Running(t) => result[t] = NoResult

ChainInv ==
    /\ IInv
    /\ NodesAreChained
    /\ Ahead
    /\ Scanning
    /\ FreshCalls

-----------------------------------------------------------------------------
(* What From says. *)

(* From the null pointer a walk meets nothing. *)
LEMMA FromNull == From(Null) = {}
<1>1. {} \in SUBSET Allocated /\ Null \in {} \union {Null} /\ Closed({})
  BY DEF Closed
<1> QED
  BY <1>1 DEF From

(* A walk from p meets p, and nothing that a closed set with p does not have. *)
LEMMA FromStart ==
    ASSUME NEW p \in Allocated, p # Null
    PROVE  p \in From(p)
BY DEF From

(* A walk from p meets p and what a walk from its link meets. *)
LEMMA FromNext ==
    ASSUME NoDanglingPointer, NEW p \in Allocated, NEW a \in From(p), a # p
    PROVE  a \in From(heap[p].next)
<1> SUFFICES ASSUME NEW S \in SUBSET Allocated, heap[p].next \in S \union {Null}, Closed(S)
             PROVE  a \in S
  BY DEF From
<1>1. S \union {p} \in SUBSET Allocated /\ p \in (S \union {p}) \union {Null}
  OBVIOUS
<1>2. Closed(S \union {p})
  BY DEF Closed
<1>3. a \in S \union {p}
  BY <1>1, <1>2 DEF From
<1> QED
  BY <1>3

(* A walk goes on along the links. *)
LEMMA FromClosed ==
    ASSUME NoDanglingPointer, NEW p, NEW a \in From(p), heap[a].next # Null
    PROVE  heap[a].next \in From(p)
<1>1. a \in Allocated /\ heap[a].next \in Allocated
  BY DEF From, NoDanglingPointer
<1> SUFFICES ASSUME NEW S \in SUBSET Allocated, p \in S \union {Null}, Closed(S)
             PROVE  heap[a].next \in S
  BY <1>1 DEF From
<1>2. a \in S
  BY DEF From
<1> QED
  BY <1>2 DEF Closed

(* A walk does not leave a closed set. *)
LEMMA FromWithin ==
    ASSUME NEW p, NEW S \in SUBSET Allocated, p \in S \union {Null}, Closed(S)
    PROVE  From(p) \subseteq S
BY DEF From

(* Heads and links stay in their bucket. *)
LEMMA LinksStay ==
    ASSUME IInv, NodesAreChained
    PROVE  /\ \A b \in Buckets : table[b] # Null => table[b] \in InBucket(b)
           /\ \A b \in Buckets : \A a \in InBucket(b) :
                 heap[a].next # Null => heap[a].next \in InBucket(b)
<1>1. \A b \in Buckets : From(table[b]) = InBucket(b)
  BY DEF NodesAreChained, Chain, InBucket
<1>2. \A b \in Buckets : table[b] # Null => table[b] \in InBucket(b)
  BY <1>1, FromStart DEF IInv, NoDanglingPointer
<1>3. \A b \in Buckets : \A a \in InBucket(b) :
         heap[a].next # Null => heap[a].next \in InBucket(b)
  BY <1>1, FromClosed DEF IInv
<1> QED
  BY <1>2, <1>3

(* Every node is in a bucket. *)
LEMMA NodeBucket ==
    ASSUME TypeOK, NEW a \in Allocated
    PROVE  /\ heap[a] \in Nodes /\ heap[a].key \in Keys /\ heap[a].value \in Values
           /\ hashFunction(heap[a].key) \in Buckets
BY HashAssumption DEF TypeOK, Allocated, Nodes

(* What makes the chains hold their buckets: a bucket is closed and has its  *)
(* head, and every closed set with the head has the bucket.                  *)
Covered ==
    /\ \A b \in Buckets : table[b] # Null => table[b] \in InBucket(b)
    /\ \A b \in Buckets : \A a \in InBucket(b) :
          heap[a].next # Null => heap[a].next \in InBucket(b)
    /\ \A b \in Buckets : \A S \in SUBSET Allocated :
          table[b] \in S \union {Null} /\ Closed(S) => InBucket(b) \subseteq S

UniqueKeys == \A a, c \in Allocated : heap[a].key = heap[c].key => a = c

(* Covered buckets are what the chains hold. *)
LEMMA CoveredChained == Covered /\ UniqueKeys => NodesAreChained
<1> SUFFICES ASSUME Covered, NEW b \in Buckets
             PROVE  From(table[b]) = InBucket(b)
  BY DEF NodesAreChained, UniqueKeys, Chain, InBucket
<1>1. InBucket(b) \in SUBSET Allocated /\ table[b] \in InBucket(b) \union {Null}
  BY DEF InBucket, Covered
<1>2. Closed(InBucket(b))
  BY DEF Closed, Covered
<1>3. From(table[b]) \subseteq InBucket(b)
  BY <1>1, <1>2, FromWithin
<1>4. InBucket(b) \subseteq From(table[b])
  BY <1>1 DEF From, Covered
<1> QED
  BY <1>3, <1>4

(* And chains that hold their buckets are covered. *)
LEMMA ChainedCovered ==
    ASSUME IInv, NodesAreChained
    PROVE  Covered /\ UniqueKeys
<1>1. ASSUME NEW b \in Buckets, NEW S \in SUBSET Allocated,
             table[b] \in S \union {Null}, Closed(S)
      PROVE  InBucket(b) \subseteq S
  <2>1. From(table[b]) = InBucket(b)
    BY DEF NodesAreChained, Chain, InBucket
  <2> QED
    BY <1>1, <2>1, FromWithin
<1> QED
  BY <1>1, LinksStay DEF Covered, UniqueKeys, NodesAreChained

-----------------------------------------------------------------------------
(* What Store says. *)

(* A node's value is what the map has for its key. *)
LEMMA StoreNode ==
    ASSUME TypeOK, NodesAreChained, NEW a \in Allocated
    PROVE  Store[heap[a].key] = heap[a].value
<1>1. heap[a].key \in Keys /\ Holds(heap[a].key)
  BY NodeBucket DEF Holds
<1>2. (CHOOSE c \in Allocated : heap[c].key = heap[a].key) = a
  BY DEF NodesAreChained
<1> QED
  BY <1>1, <1>2 DEF Store

(* A key without a node is absent. *)
LEMMA StoreNone ==
    ASSUME NEW k \in Keys, \A a \in Allocated : heap[a].key # k
    PROVE  Store[k] = Absent
BY DEF Store, Holds

(* One map has what the nodes have and nothing more. *)
StoreIsUnique ==
    \A m : /\ TypeOK /\ NodesAreChained
           /\ m = [k \in Keys |-> m[k]]
           /\ \A a \in Allocated : m[heap[a].key] = heap[a].value
           /\ \A k \in Keys : (\A a \in Allocated : heap[a].key # k) => m[k] = Absent
           => Store = m

(* That map is Store. *)
LEMMA StoreIs == StoreIsUnique
<1> SUFFICES ASSUME NEW m, TypeOK, NodesAreChained, m = [k \in Keys |-> m[k]],
                    \A a \in Allocated : m[heap[a].key] = heap[a].value,
                    \A k \in Keys : (\A a \in Allocated : heap[a].key # k) => m[k] = Absent
             PROVE  Store = m
  BY DEF StoreIsUnique
<1>1. \A k \in Keys : Store[k] = m[k]
  BY StoreNode, StoreNone
<1>2. Store = [k \in Keys |-> Store[k]]
  BY DEF Store
<1> QED
  BY <1>1, <1>2

-----------------------------------------------------------------------------
(* The same after a step. *)

(* What the map is after a step. *)
LEMMA StoreBecomes ==
    ASSUME TypeOK', NodesAreChained', NEW m, m = [k \in Keys |-> m[k]],
           \A a \in Allocated' : m[heap'[a].key] = heap'[a].value,
           \A k \in Keys : (\A a \in Allocated' : heap'[a].key # k) => m[k] = Absent
    PROVE  Store' = m
<1>1. StoreIsUnique'
  BY StoreIs, PTL
<1> QED
  BY <1>1 DEF StoreIsUnique

(* When the chains are sound after a step. *)
LEMMA BecomesChained ==
    ASSUME Covered', UniqueKeys'
    PROVE  NodesAreChained'
<1>1. (Covered /\ UniqueKeys => NodesAreChained)'
  BY CoveredChained, PTL
<1> QED
  BY <1>1

-----------------------------------------------------------------------------
(* Steps that change the table: the thread is alone, and returns. *)

(* Nobody is inside a call after a change of the table. *)
LEMMA NobodyRuns ==
    ASSUME ChainInv, NEW t \in Threads, Running(t), Exclusive(call[t].op), Release(t),
           UNCHANGED result
    PROVE  Ahead' /\ Scanning' /\ FreshCalls'
<1>1. \A u \in Threads : ~Running(u)'
  BY Released, NobodyElse DEF ChainInv, Running
<1>2. \A u \in Threads : u # t => scanned'[u] = EmptyMap
  BY NobodyElse DEF ChainInv, FreshCalls, Release, IInv, TypeOK
<1>3. scanned'[t] = EmptyMap
  BY DEF ChainInv, Release, IInv, TypeOK
<1> QED
  BY <1>1, <1>2, <1>3 DEF Ahead, AheadOf, Scanning, ScanningOf, FreshCalls

(* The value changes: the map has it for the key. *)
LEMMA UpdateChain ==
    ASSUME ChainInv, NEW t \in Threads, InsertUpdate(t)
    PROVE  /\ ChainInv'
           /\ Store' = [Store EXCEPT ![call[t].key] = call[t].value]
<1> DEFINE n == curr[t]
           k == call[t].key
           v == call[t].value
<1>0. IInv /\ IInv' /\ TypeOK /\ TypeOK' /\ NodesAreChained
  BY InsertUpdateStep DEF ChainInv, IInv
<1>1. /\ Running(t) /\ Exclusive(call[t].op) /\ v \in Values /\ k \in Keys
  BY <1>0, OpRuns, InCall DEF InsertUpdate, Exclusive
<1>2. n \in Addrs /\ n \in Allocated /\ heap[n] \in Nodes /\ heap[n].key = k
  BY <1>0, AtNode DEF IInv, InsertUpdate, AtKey
<1>3. /\ heap' = [heap EXCEPT ![n] = [heap[n] EXCEPT !.value = v]]
      /\ Release(t) /\ UNCHANGED <<table, result>>
  BY DEF InsertUpdate
<1> HIDE DEF n, k, v
<1>4. /\ [heap[n] EXCEPT !.value = v].key = heap[n].key
      /\ [heap[n] EXCEPT !.value = v].value = v
      /\ [heap[n] EXCEPT !.value = v].next = heap[n].next
      /\ [heap[n] EXCEPT !.value = v] \in Nodes
  BY <1>1, <1>2 DEF Nodes
<1>5. Allocated' = Allocated
  BY <1>0, <1>2, <1>3, <1>4, FreeAssumption DEF Allocated, TypeOK
<1>6. \A a \in Allocated : /\ heap'[a].key = heap[a].key /\ heap'[a].next = heap[a].next
                           /\ a # n => heap'[a].value = heap[a].value
                           /\ a = n => heap'[a].value = v
  BY <1>0, <1>2, <1>3, <1>4 DEF Allocated, TypeOK
<1>7. NodesAreChained'
  <2>1. Covered /\ UniqueKeys
    BY <1>0, ChainedCovered
  <2>2. \A b \in Buckets : InBucket(b)' = InBucket(b)
    BY <1>5, <1>6 DEF InBucket
  <2>3. \A S \in SUBSET Allocated : Closed(S)' <=> Closed(S)
    BY <1>6 DEF Closed
  <2>4. Covered'
    <3>1. \A b \in Buckets : table'[b] # Null => table'[b] \in InBucket(b)'
      BY <1>3, <2>1, <2>2 DEF Covered
    <3>2. \A b \in Buckets : \A a \in InBucket(b)' :
             heap'[a].next # Null => heap'[a].next \in InBucket(b)'
      <4>1. \A b \in Buckets : \A a \in InBucket(b) : heap'[a].next = heap[a].next
        BY <1>6 DEF InBucket
      <4> QED
        BY <4>1, <2>1, <2>2 DEF Covered
    <3>3. \A b \in Buckets : \A S \in SUBSET Allocated' :
             table'[b] \in S \union {Null} /\ Closed(S)' => InBucket(b)' \subseteq S
      BY <1>3, <1>5, <2>1, <2>2, <2>3 DEF Covered
    <3> QED
      BY <3>1, <3>2, <3>3 DEF Covered
  <2>5. UniqueKeys'
    BY <1>5, <1>6, <2>1 DEF UniqueKeys
  <2> QED
    BY <2>4, <2>5, BecomesChained
<1>8. ChainInv'
  BY <1>0, <1>1, <1>3, <1>7, NobodyRuns DEF ChainInv
<1>9. Store' = [Store EXCEPT ![k] = v]
  <2> DEFINE m == [Store EXCEPT ![k] = v]
  <2>1. Store = [j \in Keys |-> Store[j]]
    BY DEF Store
  <2>2. m = [j \in Keys |-> IF j = k THEN v ELSE Store[j]]
    BY <1>1, <2>1
  <2> HIDE DEF m
  <2>3. \A a \in Allocated : heap[a].key \in Keys /\ Store[heap[a].key] = heap[a].value
    BY <1>0, StoreNode, NodeBucket
  <2>4. \A a \in Allocated : heap[a].key = k => a = n
    BY <1>0, <1>2 DEF NodesAreChained
  <2>5. \A a \in Allocated' : m[heap'[a].key] = heap'[a].value
    BY <1>2, <1>5, <1>6, <2>2, <2>3, <2>4
  <2>6. \A j \in Keys : (\A a \in Allocated' : heap'[a].key # j) => m[j] = Absent
    BY <1>2, <1>5, <1>6, <2>2, StoreNone
  <2> QED
    BY <1>0, <1>7, <2>2, <2>5, <2>6, StoreBecomes DEF m
<1> QED
  BY <1>8, <1>9 DEF k, v

(* The walk to the end of the chain met no node with the key, so the new     *)
(* node is the only one; it has the old chain behind it.                     *)
LEMMA NewChain ==
    ASSUME ChainInv, NEW t \in Threads, NEW a \in Addrs, InsertNew(t, a)
    PROVE  /\ ChainInv'
           /\ Store' = [Store EXCEPT ![call[t].key] = call[t].value]
<1>0. /\ IInv /\ IInv' /\ TypeOK /\ TypeOK' /\ NodesAreChained /\ Covered /\ UniqueKeys
      /\ NoDanglingPointer
  BY InsertNewStep, ChainedCovered DEF ChainInv, IInv
<1> PICK b \in Buckets : b = bucket[t]
  BY <1>0 DEF TypeOK
<1> DEFINE k == call[t].key
           v == call[t].value
           node == [key |-> k, value |-> v, next |-> table[b]]
<1>1. /\ Running(t) /\ Exclusive(call[t].op) /\ call[t].op = "insert"
      /\ v \in Values /\ k \in Keys /\ curr[t] = Null
  BY <1>0, OpRuns, InCall DEF InsertNew, Exclusive
<1>2. /\ heap[a] = Free /\ heap' = [heap EXCEPT ![a] = node]
      /\ table' = [table EXCEPT ![b] = a]
      /\ Release(t) /\ UNCHANGED result
  BY DEF InsertNew
<1>3. node \in Nodes /\ node.next = table[b] /\ node.key = k /\ node.value = v
  BY <1>0, <1>1 DEF TypeOK, Nodes
(* No node has the key. *)
<1>4. b = hashFunction(k) /\ \A c \in Allocated : heap[c].key # k
  BY <1>1, FromNull DEF ChainInv, Ahead, AheadOf
<1> HIDE DEF k, v, node
<1>5. /\ a # Null /\ a \notin Allocated /\ Allocated' = Allocated \union {a}
      /\ heap'[a] = node
      /\ \A c \in Allocated : heap'[c] = heap[c]
      /\ table'[b] = a
      /\ \A d \in Buckets : d # b => table'[d] = table[d]
  BY <1>0, <1>2, <1>3, FreeAssumption, ConstantsAssumption DEF TypeOK, Allocated
<1>6. /\ \A d \in Buckets : table[d] # a
      /\ \A c \in Allocated : heap[c].next # a
  BY <1>0, <1>5 DEF NoDanglingPointer
<1>7. /\ InBucket(b)' = InBucket(b) \union {a}
      /\ \A d \in Buckets : d # b => InBucket(d)' = InBucket(d)
  BY <1>3, <1>4, <1>5 DEF InBucket
<1>8. Covered'
  <2>1. \A d \in Buckets : table'[d] # Null => table'[d] \in InBucket(d)'
    BY <1>0, <1>3, <1>5, <1>7 DEF Covered
  <2>2. ASSUME NEW d \in Buckets, NEW c \in InBucket(d)', heap'[c].next # Null
        PROVE  heap'[c].next \in InBucket(d)'
    <3>1. CASE c = a
      <4>1. d = b
        BY <3>1, <1>5, <1>7, <2>2 DEF InBucket
      <4> QED
        BY <3>1, <4>1, <1>0, <1>3, <1>5, <1>7, <2>2 DEF Covered
    <3>2. CASE c # a
      <4>1. c \in InBucket(d) /\ heap'[c] = heap[c]
        BY <3>2, <1>5, <1>7, <2>2 DEF InBucket
      <4> QED
        BY <4>1, <1>0, <1>7, <2>2 DEF Covered
    <3> QED
      BY <3>1, <3>2
  <2>3. ASSUME NEW d \in Buckets, NEW S \in SUBSET Allocated',
               table'[d] \in S \union {Null}, Closed(S)'
        PROVE  InBucket(d)' \subseteq S
    <3> DEFINE R == S \ {a}
    <3>1. R \in SUBSET Allocated
      BY <1>5
    <3>2. Closed(R)
      BY <1>5, <1>6, <2>3 DEF Closed
    <3>3. a \in S => table[b] \in S \union {Null}
      BY <1>3, <1>5, <2>3 DEF Closed
    <3>4. table[d] \in R \union {Null}
      BY <1>5, <1>6, <2>3, <3>3
    <3>5. InBucket(d) \subseteq R
      BY <1>0, <3>1, <3>2, <3>4 DEF Covered
    <3>6. d = b => a \in S
      BY <1>5, <2>3
    <3> QED
      BY <3>5, <3>6, <1>7
  <2> QED
    BY <2>1, <2>2, <2>3 DEF Covered
<1>9. UniqueKeys'
  BY <1>0, <1>3, <1>4, <1>5 DEF UniqueKeys
<1>10. NodesAreChained'
  BY <1>8, <1>9, BecomesChained
<1>11. ChainInv'
  BY <1>0, <1>1, <1>2, <1>10, NobodyRuns DEF ChainInv
<1>12. Store' = [Store EXCEPT ![k] = v]
  <2> DEFINE m == [Store EXCEPT ![k] = v]
  <2>1. Store = [j \in Keys |-> Store[j]]
    BY DEF Store
  <2>2. m = [j \in Keys |-> IF j = k THEN v ELSE Store[j]]
    BY <1>1, <2>1
  <2> HIDE DEF m
  <2>3. \A c \in Allocated : heap[c].key \in Keys /\ Store[heap[c].key] = heap[c].value
    BY <1>0, StoreNode, NodeBucket
  <2>4. \A c \in Allocated' : m[heap'[c].key] = heap'[c].value
    BY <1>1, <1>3, <1>4, <1>5, <2>2, <2>3
  <2>5. \A j \in Keys : (\A c \in Allocated' : heap'[c].key # j) => m[j] = Absent
    BY <1>3, <1>5, <2>2, StoreNone
  <2> QED
    BY <1>0, <1>10, <2>2, <2>4, <2>5, StoreBecomes DEF m
<1> QED
  BY <1>11, <1>12 DEF k, v

(* A closed set after the removal is one before it, with the node if it has  *)
(* the pointer to the node.                                                  *)
LEMMA RemoveChain ==
    ASSUME ChainInv, NEW t \in Threads, RemoveNode(t)
    PROVE  /\ ChainInv'
           /\ Store' = [Store EXCEPT ![call[t].key] = Absent]
<1> DEFINE b == bucket[t]
           k == call[t].key
           n == curr[t]
           p == prev[t]
           next == heap[n].next
<1>0. /\ IInv /\ IInv' /\ TypeOK /\ TypeOK' /\ NodesAreChained /\ Covered /\ UniqueKeys
      /\ NoDanglingPointer /\ NoDanglingPointer'
  BY RemoveNodeStep, ChainedCovered DEF ChainInv, IInv
<1>1. /\ Running(t) /\ Exclusive(call[t].op) /\ call[t].op = "remove"
      /\ b \in Buckets /\ n # Null /\ k \in Keys
  BY <1>0, OpRuns, InCall DEF TypeOK, RemoveNode, Exclusive, AtKey
<1>2. /\ n \in Addrs /\ n \in Allocated /\ heap[n] \in Nodes /\ next \in Ptrs /\ heap[n].key = k
  BY <1>0, <1>1, AtNode DEF Nodes, RemoveNode, AtKey
<1>3. /\ table' = IF p = Null THEN [table EXCEPT ![b] = next] ELSE table
      /\ heap' = IF p = Null THEN [heap EXCEPT ![n] = Free]
                 ELSE [heap EXCEPT ![p].next = next, ![n] = Free]
      /\ Release(t) /\ UNCHANGED result
  BY DEF RemoveNode, Deleted
<1>4. p = Null => table[b] = n
  BY <1>0, <1>1 DEF IInv, PrevIsBefore
<1>5. p # Null => p \in Addrs /\ p \in Allocated /\ heap[p] \in Nodes /\ heap[p].next = n
  BY <1>0, <1>1 DEF IInv, TypeOK, PrevIsBefore, NoDanglingPointer, Allocated
<1> HIDE DEF b, k, n, p
(* What is left: the same nodes but for n, the same links but for p's. *)
<1>6. /\ Allocated' = Allocated \ {n}
      /\ \A c \in Allocated' : heap'[c].key = heap[c].key /\ heap'[c].value = heap[c].value
      /\ \A c \in Allocated' : heap'[c].next = IF c = p THEN next ELSE heap[c].next
      /\ \A d \in Buckets : table'[d] = IF p = Null /\ d = b THEN next ELSE table[d]
  <2>1. CASE p = Null
    <3>1. p \notin Allocated
      BY <2>1, ConstantsAssumption DEF Allocated
    <3> QED
      BY <2>1, <3>1, <1>0, <1>1, <1>2, <1>3 DEF TypeOK, Allocated
  <2>2. CASE p # Null
    <3> DEFINE q == [heap[p] EXCEPT !.next = next]
    <3>1. /\ q \in Nodes /\ q.next = next /\ q.key = heap[p].key /\ q.value = heap[p].value
      BY <2>2, <1>2, <1>5 DEF Nodes
    <3>2. heap' = [[heap EXCEPT ![p] = q] EXCEPT ![n] = Free] /\ table' = table
      BY <2>2, <1>3
    <3> HIDE DEF q, next
    <3> QED
      BY <2>2, <3>1, <3>2, <1>0, <1>2, <1>5, FreeAssumption DEF TypeOK, Allocated
  <2> QED
    BY <2>1, <2>2
<1>7. \A d \in Buckets : InBucket(d)' = InBucket(d) \ {n}
  BY <1>6 DEF InBucket
<1>8. Covered'
  <2>1. \A d \in Buckets : \A c \in InBucket(d) : heap[c].next = n => n \in InBucket(d)
    BY <1>0, <1>1 DEF Covered
  <2>2. \A d \in Buckets : n \in InBucket(d) /\ next # Null => next \in InBucket(d)
    BY <1>0 DEF Covered
  <2>3. p = Null => n \in InBucket(b)
    BY <1>0, <1>1, <1>4 DEF Covered
  <2>4. /\ \A d \in Buckets : table'[d] # Null => table'[d] # n
        /\ \A c \in Allocated' : heap'[c].next # Null => heap'[c].next # n
    BY <1>0, <1>6 DEF NoDanglingPointer
  <2> HIDE DEF next
  <2>5. \A d \in Buckets : table'[d] # Null => table'[d] \in InBucket(d)'
    BY <1>0, <1>1, <1>6, <1>7, <2>2, <2>3, <2>4 DEF Covered
  <2>6. ASSUME NEW d \in Buckets, NEW c \in InBucket(d)', heap'[c].next # Null
        PROVE  heap'[c].next \in InBucket(d)'
    <3>1. c \in InBucket(d) /\ c \in Allocated' /\ c # n
      BY <2>6, <1>7 DEF InBucket
    <3>2. CASE c = p
      <4>1. p # Null
        BY <3>1, <3>2, ConstantsAssumption DEF Allocated
      <4>2. n \in InBucket(d)
        BY <3>1, <3>2, <4>1, <1>5, <2>1
      <4> QED
        BY <3>1, <3>2, <4>2, <1>6, <1>7, <2>2, <2>4, <2>6
    <3>3. CASE c # p
      BY <3>1, <3>3, <1>0, <1>6, <1>7, <2>4, <2>6 DEF Covered
    <3> QED
      BY <3>2, <3>3
  <2>7. ASSUME NEW d \in Buckets, NEW S \in SUBSET Allocated',
               table'[d] \in S \union {Null}, Closed(S)'
        PROVE  InBucket(d)' \subseteq S
    <3> DEFINE has == p \in S \/ (p = Null /\ next \in S \union {Null})
               R == IF has THEN S \union {n} ELSE S
    <3>1. R \in SUBSET Allocated
      BY <1>2, <1>6
    <3>2. \A c \in S : c \in Allocated' /\ heap'[c].next \in S \union {Null}
      BY <2>7 DEF Closed
    <3>3. has => next \in S \union {Null}
      BY <1>6, <3>2
    <3>4. Closed(R)
      <4> SUFFICES ASSUME NEW c \in R
                   PROVE  heap[c].next \in R \union {Null}
        BY DEF Closed
      <4>1. CASE c = n
        BY <4>1, <1>6, <3>2, <3>3 DEF next
      <4>2. CASE c # n /\ c = p
        BY <4>2, <1>5, <3>2, ConstantsAssumption DEF Allocated
      <4>3. CASE c # n /\ c # p
        BY <4>3, <1>6, <3>2
      <4> QED
        BY <4>1, <4>2, <4>3
    <3>5. table[d] \in R \union {Null}
      BY <1>4, <1>6, <2>7
    <3>6. InBucket(d) \subseteq R
      BY <1>0, <3>1, <3>4, <3>5 DEF Covered
    <3> QED
      BY <3>6, <1>7
  <2> QED
    BY <2>5, <2>6, <2>7 DEF Covered
<1>9. UniqueKeys'
  BY <1>0, <1>6 DEF UniqueKeys
<1>10. NodesAreChained'
  BY <1>8, <1>9, BecomesChained
<1>11. ChainInv'
  BY <1>0, <1>1, <1>3, <1>10, NobodyRuns DEF ChainInv
<1>12. Store' = [Store EXCEPT ![k] = Absent]
  <2> DEFINE m == [Store EXCEPT ![k] = Absent]
  <2>1. Store = [j \in Keys |-> Store[j]]
    BY DEF Store
  <2>2. m = [j \in Keys |-> IF j = k THEN Absent ELSE Store[j]]
    BY <1>1, <2>1
  <2> HIDE DEF m
  <2>3. \A c \in Allocated : heap[c].key \in Keys /\ Store[heap[c].key] = heap[c].value
    BY <1>0, StoreNode, NodeBucket
  <2>4. \A c \in Allocated' : heap[c].key # k
    BY <1>0, <1>2, <1>6 DEF UniqueKeys
  <2>5. \A c \in Allocated' : m[heap'[c].key] = heap'[c].value
    BY <1>6, <2>2, <2>3, <2>4
  <2>6. \A j \in Keys : (\A c \in Allocated' : heap'[c].key # j) => m[j] = Absent
    BY <1>2, <1>6, <2>2, StoreNone
  <2> QED
    BY <1>0, <1>10, <2>2, <2>5, <2>6, StoreBecomes DEF m
<1> QED
  BY <1>11, <1>12 DEF k

-----------------------------------------------------------------------------
(* Steps that leave the table alone. *)

(* The chains and the map stay, and so do the walks of the other threads. *)
LEMMA SameTable ==
    ASSUME ChainInv, UNCHANGED <<table, heap>>
    PROVE  /\ NodesAreChained' /\ Store' = Store
           /\ \A u \in Threads :
                call'[u] = call[u] /\ bucket'[u] = bucket[u] /\ curr'[u] = curr[u]
                  /\ scanned'[u] = scanned[u]
                => AheadOf(u)' /\ ScanningOf(u)'
<1>1. NodesAreChained'
  BY DEF ChainInv, NodesAreChained, Chain, From, Closed, Allocated
<1>2. Store' = Store
  BY DEF Store, Holds, Allocated
<1>3. ASSUME NEW u \in Threads, call'[u] = call[u], bucket'[u] = bucket[u], curr'[u] = curr[u],
             scanned'[u] = scanned[u]
      PROVE  AheadOf(u)' /\ ScanningOf(u)'
  BY <1>3 DEF ChainInv, Ahead, AheadOf, Scanning, ScanningOf, Seen, Running, From, Closed, Allocated
<1> QED
  BY <1>1, <1>2, <1>3

(* A call starts at the head of its key's bucket, a scan at bucket 0. *)
LEMMA BeginChain ==
    ASSUME ChainInv, NEW t \in Threads, NEW c \in Calls, Begin(t, c)
    PROVE  ChainInv' /\ Store' = Store
<1> DEFINE b == IF c.op = "forEach" THEN 0 ELSE hashFunction(c.key)
<1>0. IInv' /\ TypeOK /\ NodesAreChained
  BY BeginStep DEF ChainInv, IInv
<1>1. /\ ~Running(t) /\ result[t] = NoResult
      /\ call' = [call EXCEPT ![t] = c]
      /\ bucket' = [bucket EXCEPT ![t] = b]
      /\ curr' = [curr EXCEPT ![t] = table[b]]
      /\ UNCHANGED <<table, heap, prev, scanned, result>>
  BY DEF Begin
<1>2. /\ call'[t] = c /\ bucket'[t] = b /\ curr'[t] = table[b]
      /\ scanned[t] = EmptyMap
      /\ \A u \in Threads : u # t => /\ call'[u] = call[u] /\ bucket'[u] = bucket[u]
                                     /\ curr'[u] = curr[u]
  BY <1>0, <1>1 DEF TypeOK, ChainInv, FreshCalls
<1>3. b \in Buckets
  <2>1. c.op # "forEach" => c.key \in Keys
    BY DEF Calls
  <2>2. 0 \in Buckets
    BY ConstantsAssumption DEF Buckets
  <2> QED
    BY <2>1, <2>2, HashAssumption
<1>4. \A a \in Allocated : hashFunction(heap[a].key) = b => a \in From(table[b])
  BY <1>0, <1>3 DEF NodesAreChained, Chain
<1>5. AheadOf(t)'
  <2> SUFFICES ASSUME c.op # "forEach"
               PROVE  /\ bucket'[t] = hashFunction(c.key)
                      /\ \A a \in Allocated' : heap'[a].key = c.key => a \in From(curr[t])'
    BY <1>2 DEF AheadOf
  <2>1. b = hashFunction(c.key)
    OBVIOUS
  <2>2. \A a \in Allocated : heap[a].key = c.key => a \in From(table[b])
    BY <1>4, <2>1
  <2> QED
    BY <1>1, <1>2, <2>1, <2>2 DEF From, Closed, Allocated
<1>6. ScanningOf(t)'
  <2> SUFFICES ASSUME c.op = "forEach"
               PROVE  /\ \A a \in Allocated' : ~(hashFunction(heap'[a].key) < 0)
                      /\ \A a \in Allocated' : hashFunction(heap'[a].key) = 0 =>
                            a \in From(curr[t])'
                      /\ \A k \in Keys : scanned'[t][k] = Absent
    BY <1>2 DEF ScanningOf
  <2>1. \A a \in Allocated : ~(hashFunction(heap[a].key) < 0)
    BY <1>0, NodeBucket, ConstantsAssumption DEF Buckets
  <2>2. \A k \in Keys : scanned'[t][k] = Absent
    BY <1>1, <1>2 DEF EmptyMap
  <2>3. b = 0
    OBVIOUS
  <2> QED
    BY <1>1, <1>2, <1>4, <2>1, <2>2, <2>3 DEF From, Closed, Allocated
<1>7. FreshCalls'
  BY <1>0, <1>1, <1>2 DEF ChainInv, FreshCalls, Running
<1> QED
  BY <1>0, <1>1, <1>2, <1>5, <1>6, <1>7, SameTable DEF ChainInv, Ahead, Scanning

(* The node passed has another key, so the one looked for is still ahead. *)
LEMMA AdvanceChain ==
    ASSUME ChainInv, NEW t \in Threads, Advance(t)
    PROVE  ChainInv' /\ Store' = Store
<1>0. IInv' /\ TypeOK /\ NoDanglingPointer
  BY AdvanceStep DEF ChainInv, IInv
<1>1. /\ Running(t) /\ call[t].op # "forEach" /\ ~AtKey(t) /\ curr[t] # Null
      /\ curr' = [curr EXCEPT ![t] = heap[curr[t]].next]
      /\ UNCHANGED <<table, heap, call, bucket, scanned, result>>
  BY DEF Advance, NextNode
<1>2. /\ curr'[t] = heap[curr[t]].next
      /\ \A u \in Threads : u # t => curr'[u] = curr[u]
  BY <1>0, <1>1 DEF TypeOK
<1>3. curr[t] \in Allocated /\ heap[curr[t]].key # call[t].key
  BY <1>0, <1>1, AtNode DEF AtKey
<1>4. \A a \in Allocated : heap[a].key = call[t].key => a \in From(heap[curr[t]].next)
  BY <1>0, <1>1, <1>3, FromNext DEF ChainInv, Ahead, AheadOf
<1>5. AheadOf(t)'
  BY <1>1, <1>2, <1>4 DEF ChainInv, Ahead, AheadOf, Running, From, Closed, Allocated
<1>6. ScanningOf(t)'
  BY <1>1 DEF ScanningOf, Running
<1>7. FreshCalls'
  BY <1>1 DEF ChainInv, FreshCalls, Running
<1> QED
  BY <1>0, <1>1, <1>2, <1>5, <1>6, <1>7, SameTable DEF ChainInv, Ahead, Scanning

(* A call that returns without a change keeps the chains. *)
LEMMA ReturnChain ==
    ASSUME ChainInv, IInv', NEW t \in Threads, Release(t), UNCHANGED <<table, heap>>,
           \A u \in Threads : u # t => result'[u] = result[u]
    PROVE  ChainInv' /\ Store' = Store
<1>1. /\ call'[t] = NoCall /\ scanned'[t] = EmptyMap
      /\ \A u \in Threads : u # t => /\ call'[u] = call[u] /\ bucket'[u] = bucket[u]
                                     /\ curr'[u] = curr[u] /\ scanned'[u] = scanned[u]
  BY DEF Release, ChainInv, IInv, TypeOK
<1>2. AheadOf(t)' /\ ScanningOf(t)'
  BY <1>1 DEF AheadOf, ScanningOf, Running
<1>3. FreshCalls'
  BY <1>1 DEF ChainInv, FreshCalls, Running
<1> QED
  BY <1>1, <1>2, <1>3, SameTable DEF ChainInv, Ahead, Scanning

(* The node joins what has been seen; keys are unique, so nothing seen is    *)
(* overwritten.                                                              *)
LEMMA ForEachNodeChain ==
    ASSUME ChainInv, NEW t \in Threads, ForEachNode(t)
    PROVE  ChainInv' /\ Store' = Store
<1> DEFINE n == curr[t]
           node == heap[n]
<1>0. IInv' /\ TypeOK /\ NoDanglingPointer /\ NodesAreChained
  BY ForEachNodeStep DEF ChainInv, IInv
<1>1. Running(t) /\ call[t].op = "forEach"
  BY <1>0, OpRuns DEF ForEachNode
<1>2. /\ n \in Allocated /\ node.key \in Keys /\ node.value \in Values /\ node.value # Absent
  BY <1>0, AtNode, ConstantsAssumption DEF ForEachNode, Nodes
<1>3. /\ scanned' = [scanned EXCEPT ![t] = [scanned[t] EXCEPT ![node.key] = node.value]]
      /\ curr' = [curr EXCEPT ![t] = node.next]
      /\ UNCHANGED <<table, heap, call, bucket, prev, result>>
  BY DEF ForEachNode
<1>4. \A a \in Allocated : a \in From(n) => a = n \/ a \in From(node.next)
  BY <1>0, <1>2, FromNext
<1>5. \A a \in Allocated : heap[a].key = node.key => a = n
  BY <1>0, <1>2 DEF NodesAreChained
<1>6. ScanningOf(t)
  BY DEF ChainInv, Scanning
<1> HIDE DEF n, node
<1>7. /\ curr'[t] = node.next /\ scanned[t] \in Maps
      /\ \A u \in Threads : u # t => curr'[u] = curr[u] /\ scanned'[u] = scanned[u]
      /\ \A k \in Keys : scanned'[t][k] = IF k = node.key THEN node.value ELSE scanned[t][k]
  BY <1>0, <1>2, <1>3 DEF TypeOK, Maps
<1>8. \A a \in Allocated : heap[a].key \in Keys
  BY <1>0, NodeBucket
<1>9. Allocated' = Allocated /\ \A a \in From(node.next) : a \in From(curr[t])'
  BY <1>3, <1>7 DEF From, Closed, Allocated
<1>10. \A a \in Allocated : Seen(t, a) \/ a = n => Seen(t, a)'
  BY <1>3, <1>5, <1>7, <1>8 DEF Seen, node
<1>11. ScanningOf(t)'
  <2> SUFFICES /\ \A a \in Allocated : hashFunction(heap[a].key) < bucket[t] => Seen(t, a)'
               /\ \A a \in Allocated : hashFunction(heap[a].key) = bucket[t] =>
                     a \in From(curr[t])' \/ Seen(t, a)'
               /\ \A k \in Keys : scanned'[t][k] # Absent =>
                     \E a \in Allocated : heap[a].key = k /\ Seen(t, a)'
    BY <1>3, <1>9 DEF ScanningOf
  <2>1. \A a \in Allocated : hashFunction(heap[a].key) < bucket[t] => Seen(t, a)'
    BY <1>1, <1>6, <1>10 DEF ScanningOf
  <2>2. \A a \in Allocated : hashFunction(heap[a].key) = bucket[t] =>
           a \in From(curr[t])' \/ Seen(t, a)'
    BY <1>1, <1>4, <1>6, <1>9, <1>10 DEF ScanningOf, n
  <2>3. ASSUME NEW k \in Keys, scanned'[t][k] # Absent
        PROVE  \E a \in Allocated : heap[a].key = k /\ Seen(t, a)'
    <3>1. CASE k = node.key
      BY <3>1, <1>2, <1>10 DEF node
    <3>2. CASE k # node.key
      BY <3>2, <2>3, <1>1, <1>6, <1>7, <1>10 DEF ScanningOf
    <3> QED
      BY <3>1, <3>2
  <2> QED
    BY <2>1, <2>2, <2>3
<1>12. AheadOf(t)'
  BY <1>1, <1>3 DEF AheadOf
<1>13. FreshCalls'
  BY <1>1, <1>3, <1>7 DEF ChainInv, FreshCalls, Running
<1> QED
  BY <1>0, <1>3, <1>7, <1>11, <1>12, <1>13, SameTable DEF ChainInv, Ahead, Scanning

(* Nothing is ahead in the bucket that ends, so all of it has been seen. *)
LEMMA ForEachBucketChain ==
    ASSUME ChainInv, NEW t \in Threads, ForEachBucket(t)
    PROVE  ChainInv' /\ Store' = Store
<1> DEFINE b == bucket[t]
<1>0. IInv' /\ TypeOK /\ NodesAreChained
  BY ForEachBucketStep DEF ChainInv, IInv
<1>1. Running(t) /\ call[t].op = "forEach" /\ curr[t] = Null
  BY <1>0, OpRuns DEF ForEachBucket
<1>2. b \in Int /\ b + 1 \in Buckets
  BY <1>0, ConstantsAssumption DEF TypeOK, ForEachBucket, Buckets
<1>3. /\ bucket' = [bucket EXCEPT ![t] = b + 1]
      /\ curr' = [curr EXCEPT ![t] = table[b + 1]]
      /\ UNCHANGED <<table, heap, call, prev, scanned, result>>
  BY DEF ForEachBucket
<1>4. ScanningOf(t)
  BY DEF ChainInv, Scanning
<1>5. /\ bucket'[t] = b + 1 /\ curr'[t] = table[b + 1]
      /\ \A u \in Threads : u # t => bucket'[u] = bucket[u] /\ curr'[u] = curr[u]
  BY <1>0, <1>3 DEF TypeOK
<1>6. \A a \in Allocated : hashFunction(heap[a].key) \in Int
  BY <1>0, NodeBucket DEF Buckets
<1>7. \A a \in Allocated : hashFunction(heap[a].key) < b + 1 => Seen(t, a)
  BY <1>1, <1>2, <1>4, <1>6, FromNull DEF ScanningOf
<1>8. \A a \in Allocated : hashFunction(heap[a].key) = b + 1 => a \in From(table[b + 1])
  BY <1>0, <1>2 DEF NodesAreChained, Chain
<1> HIDE DEF b
<1>9. /\ Allocated' = Allocated /\ \A a \in From(table[b + 1]) : a \in From(curr[t])'
      /\ \A a \in Allocated : Seen(t, a)' <=> Seen(t, a)
  BY <1>3, <1>5 DEF From, Closed, Allocated, Seen
<1>10. ScanningOf(t)'
  BY <1>1, <1>3, <1>4, <1>5, <1>7, <1>8, <1>9 DEF ScanningOf, Running
<1>11. AheadOf(t)'
  BY <1>1, <1>3 DEF AheadOf
<1>12. FreshCalls'
  BY <1>1, <1>3 DEF ChainInv, FreshCalls, Running
<1> QED
  BY <1>0, <1>3, <1>5, <1>10, <1>11, <1>12, SameTable DEF ChainInv, Ahead, Scanning

(* The caller forgets its answer. *)
LEMMA ConsumeChain ==
    ASSUME ChainInv, NEW t \in Threads, Consume(t)
    PROVE  ChainInv' /\ Store' = Store
<1>0. IInv'
  BY ConsumeStep DEF ChainInv
<1>1. /\ UNCHANGED <<table, heap, call, bucket, curr, prev, scanned>>
      /\ result' = [result EXCEPT ![t] = NoResult]
  BY DEF Consume, walkVars
<1>2. FreshCalls'
  BY <1>1 DEF ChainInv, IInv, TypeOK, FreshCalls, Running
<1> QED
  BY <1>0, <1>1, <1>2, SameTable DEF ChainInv, Ahead, Scanning

-----------------------------------------------------------------------------
(* The table implements the map. *)

(* get answers with what the map has for its key. *)
LEMMA GetAnswers ==
    ASSUME ChainInv, NEW t \in Threads, Get(t)
    PROVE  ChainInv' /\ KV!Next
<1> DEFINE k == call[t].key
<1>0. IInv' /\ TypeOK /\ NoDanglingPointer /\ NodesAreChained
  BY GetStep DEF ChainInv, IInv
<1>1. Running(t) /\ k \in Keys /\ result[t] = NoResult
  BY <1>0, OpRuns, InCall DEF Get, ChainInv, FreshCalls
<1>2. /\ Release(t) /\ UNCHANGED <<table, heap>> /\ call[t].op = "get"
      /\ curr[t] = Null \/ AtKey(t)
      /\ result' = [result EXCEPT ![t] = IF AtKey(t) THEN heap[curr[t]].value ELSE Absent]
  BY DEF Get, FoundValue, Missing
<1>3. ChainInv' /\ Store' = Store
  <2>1. \A u \in Threads : u # t => result'[u] = result[u]
    BY <1>0, <1>2 DEF TypeOK
  <2> QED
    BY <1>0, <1>2, <2>1, ReturnChain
<1>4. (IF AtKey(t) THEN heap[curr[t]].value ELSE Absent) = Store[k]
  <2>1. CASE AtKey(t)
    <3>1. curr[t] \in Allocated /\ heap[curr[t]].key = k
      BY <2>1, <1>0, AtNode DEF AtKey
    <3> QED
      BY <2>1, <3>1, <1>0, StoreNode
  <2>2. CASE ~AtKey(t)
    <3>1. \A a \in Allocated : heap[a].key # k
      BY <2>2, <1>1, <1>2, FromNull DEF ChainInv, Ahead, AheadOf
    <3> QED
      BY <2>2, <3>1, <1>1, StoreNone
  <2> QED
    BY <2>1, <2>2
<1>5. KV!Get(t)
  BY <1>2, <1>3, <1>4 DEF KV!Get, KV!NoCall, Release, NoCall
<1> QED
  BY <1>3, <1>5 DEF KV!Next

(* A remove that reaches the end of the chain had nothing to remove. *)
LEMMA RemoveMisses ==
    ASSUME ChainInv, NEW t \in Threads, RemoveNothing(t)
    PROVE  ChainInv' /\ KV!Remove(t)
<1> DEFINE k == call[t].key
<1>1. /\ Release(t) /\ UNCHANGED <<table, heap, result>>
      /\ call[t].op = "remove" /\ curr[t] = Null
  BY DEF RemoveNothing
<1>2. IInv' /\ TypeOK
  BY RemoveNothingStep DEF ChainInv, IInv
<1>3. ChainInv' /\ Store' = Store
  BY <1>1, <1>2, ReturnChain
<1>4. Running(t) /\ k \in Keys
  BY <1>1, <1>2, OpRuns, InCall
<1>5. \A a \in Allocated : heap[a].key # k
  BY <1>1, <1>4, FromNull DEF ChainInv, Ahead, AheadOf
<1>6. Store[k] = Absent
  BY <1>4, <1>5, StoreNone
<1>7. Store = [Store EXCEPT ![k] = Absent]
  <2>1. Store = [x \in Keys |-> Store[x]]
    BY DEF Store
  <2> QED
    BY <1>6, <2>1
<1> QED
  BY <1>1, <1>3, <1>7 DEF Release, NoCall, KV!Remove, KV!NoCall

(* forEach answers with the whole map as it is when it ends. *)
LEMMA ForEachAnswers ==
    ASSUME ChainInv, NEW t \in Threads, ForEachEnd(t)
    PROVE  ChainInv' /\ KV!Next
<1>0. IInv' /\ TypeOK /\ NodesAreChained
  BY ForEachEndStep DEF ChainInv, IInv
<1>1. /\ Release(t) /\ UNCHANGED <<table, heap>> /\ call[t].op = "forEach"
      /\ curr[t] = Null /\ bucket[t] + 1 = Capacity
      /\ result' = [result EXCEPT ![t] = scanned[t]]
  BY DEF ForEachEnd
<1>2. Running(t) /\ result[t] = NoResult
  BY <1>0, <1>1, OpRuns DEF ChainInv, FreshCalls
<1>3. ChainInv' /\ Store' = Store
  <2>1. \A u \in Threads : u # t => result'[u] = result[u]
    BY <1>0, <1>1 DEF TypeOK
  <2> QED
    BY <1>0, <1>1, <2>1, ReturnChain
<1>4. Store = scanned[t]
  <2>1. ScanningOf(t)
    BY DEF ChainInv, Scanning
  <2>2. \A a \in Allocated : hashFunction(heap[a].key) \in Buckets /\ bucket[t] \in Buckets
    BY <1>0, NodeBucket DEF TypeOK
  <2>3. \A a \in Allocated : \/ hashFunction(heap[a].key) < bucket[t]
                             \/ hashFunction(heap[a].key) = bucket[t]
    BY <1>1, <2>2, ConstantsAssumption DEF Buckets
  <2>4. \A a \in Allocated : scanned[t][heap[a].key] = heap[a].value
    BY <1>1, <1>2, <2>1, <2>3, FromNull DEF ScanningOf, Seen
  <2>5. \A k \in Keys : (\A a \in Allocated : heap[a].key # k) => scanned[t][k] = Absent
    BY <1>1, <1>2, <2>1 DEF ScanningOf
  <2>6. scanned[t] = [k \in Keys |-> scanned[t][k]]
    BY <1>0 DEF TypeOK, Maps
  <2> QED
    BY <1>0, <2>4, <2>5, <2>6, StoreIs DEF StoreIsUnique
<1>5. KV!ForEach(t)
  BY <1>1, <1>3, <1>4 DEF KV!ForEach, KV!NoCall, Release, NoCall
<1> QED
  BY <1>3, <1>5 DEF KV!Next

(* The empty table is the empty map, and nobody walks it. *)
LEMMA ChainInit == Init => ChainInv /\ KV!Init
<1> SUFFICES ASSUME Init
             PROVE  ChainInv /\ KV!Init
  OBVIOUS
<1>0. IInv /\ TypeOK
  BY IInvInit DEF IInv
<1>1. Allocated = {} /\ \A b \in Buckets : table[b] = Null
  BY DEF Init, Allocated
<1>2. Covered /\ UniqueKeys
  BY <1>1, ConstantsAssumption DEF Covered, UniqueKeys, InBucket
<1>3. NodesAreChained
  BY <1>2, CoveredChained
<1>4. \A t \in Threads : ~Running(t) /\ scanned[t] = EmptyMap
  BY DEF Init, Running
<1>5. KV!Init
  BY <1>1 DEF Init, KV!Init, KV!NoCall, NoCall, Store, Holds
<1> QED
  BY <1>0, <1>3, <1>4, <1>5 DEF ChainInv, Ahead, AheadOf, Scanning, ScanningOf, FreshCalls

(* Every step of a call keeps the chains, and is a step of the map or none. *)
LEMMA CallImplements ==
    ASSUME ChainInv, NEW t \in Threads, Step(t)
    PROVE  ChainInv' /\ (KV!Next \/ UNCHANGED <<Store, call, result>>)
<1>0. TypeOK
  BY DEF ChainInv, IInv
<1>1. CASE Advance(t)
  BY <1>1, AdvanceChain DEF Advance
<1>2. CASE InsertUpdate(t)
  <2>1. KV!Insert(t)
    BY <1>2, UpdateChain DEF InsertUpdate, Release, NoCall, KV!Insert, KV!NoCall
  <2> QED
    BY <1>2, <2>1, UpdateChain DEF KV!Next
<1>3. ASSUME NEW a \in Addrs, InsertNew(t, a)
      PROVE  ChainInv' /\ KV!Next
  <2>1. KV!Insert(t)
    BY <1>3, NewChain DEF InsertNew, Release, NoCall, KV!Insert, KV!NoCall
  <2> QED
    BY <1>3, <2>1, NewChain DEF KV!Next
<1>4. CASE RemoveNode(t)
  <2>1. KV!Remove(t)
    BY <1>4, RemoveChain DEF RemoveNode, Release, NoCall, KV!Remove, KV!NoCall
  <2> QED
    BY <1>4, <2>1, RemoveChain DEF KV!Next
<1>5. CASE RemoveNothing(t)
  BY <1>5, RemoveMisses DEF KV!Next
<1>6. CASE ForEachNode(t)
  BY <1>6, ForEachNodeChain DEF ForEachNode
<1>7. CASE ForEachBucket(t)
  BY <1>7, ForEachBucketChain DEF ForEachBucket
<1> QED
  BY <1>1, <1>2, <1>3, <1>4, <1>5, <1>6, <1>7, GetAnswers, ForEachAnswers DEF Step

(* The same for every step of the program. *)
LEMMA StepImplements ==
    ASSUME ChainInv, [Next]_vars
    PROVE  ChainInv' /\ [KV!Next]_(KV!vars)
<1>1. CASE UNCHANGED vars
  <2>1. IInv'
    BY <1>1, IInvStep DEF ChainInv
  <2>2. FreshCalls'
    BY <1>1 DEF ChainInv, FreshCalls, Running, vars
  <2> QED
    BY <1>1, <2>1, <2>2, SameTable DEF ChainInv, Ahead, Scanning, vars, KV!vars
<1>2. ASSUME NEW t \in Threads, Step(t)
      PROVE  ChainInv' /\ [KV!Next]_(KV!vars)
  BY <1>2, CallImplements DEF KV!vars
<1>3. ASSUME NEW t \in Threads, Consume(t)
      PROVE  ChainInv' /\ [KV!Next]_(KV!vars)
  <2>1. KV!Forget(t)
    BY <1>3, ConsumeChain DEF Consume, walkVars, KV!Forget
  <2> QED
    BY <1>3, <2>1, ConsumeChain DEF KV!Next
<1>4. ASSUME NEW t \in Threads, NEW c \in Calls, Begin(t, c)
      PROVE  ChainInv' /\ [KV!Next]_(KV!vars)
  <2>1. KV!Begin(t, c)
    BY <1>4, BeginChain DEF Begin, Running, NoCall, KV!Begin, KV!NoCall
  <2>2. c \in KV!Calls
    BY <1>4 DEF Calls, KV!Calls
  <2> QED
    BY <1>4, <2>1, <2>2, BeginChain DEF KV!Next
<1> QED
  BY <1>1, <1>2, <1>3, <1>4 DEF Next

(* No node leaks and none is found twice: each node is in the chain of its   *)
(* key's bucket and no other, and no two share a key, after any inserts,     *)
(* updates and removes.                                                      *)
THEOREM ChainsAreSound == Spec => []NodesAreChained
<1>1. ChainInv /\ [Next]_vars => ChainInv'
  BY StepImplements
<1>2. ChainInv => NodesAreChained
  BY DEF ChainInv
<1>3. Init => ChainInv
  BY ChainInit
<1> QED
  BY <1>1, <1>2, <1>3, PTL DEF Spec

(* The table implements the abstract map: insert, get, remove and forEach    *)
(* each act on it at one moment, on the key they were given and with that    *)
(* moment's answer, though threads interleave.                               *)
THEOREM TableIsAMap == Spec => ImplementsKVMap
<1>1. ChainInv /\ [Next]_vars => ChainInv' /\ [KV!Next]_(KV!vars)
  BY StepImplements
<1> QED
  BY <1>1, ChainInit, PTL DEF Spec, ImplementsKVMap, KV!Spec

=============================================================================
