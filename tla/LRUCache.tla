------------------------------- MODULE LRUCache -------------------------------
(***************************************************************************)
(* The LRUCache of look_for_job.cpp: a hash table into a doubly linked     *)
(* list between two sentinels.  Nodes are addresses: new takes any free    *)
(* one, and delete frees it whoever still points at it.                    *)
(***************************************************************************)
EXTENDS Naturals, Sequences, FiniteSets, SequencesExt

CONSTANTS Key, Value, capacity, NotFound,
          Node,       \* addresses of nodes; the sentinels are not among them
          head, tail, NULL

VARIABLES cache,  \* key -> node
          nodes,  \* the fields of each allocated node and of the sentinels
          size,
          result  \* what the last get returned
vars == <<cache, nodes, size, result>>

Live == DOMAIN nodes
Without(f, x) == [y \in DOMAIN f \ {x} |-> f[y]]
With(f, x, v) == [y \in DOMAIN f \cup {x} |-> IF y = x THEN v ELSE f[y]]

Init ==
  /\ cache = [k \in {} |-> NULL]
  /\ nodes = [n \in {head, tail} |-> [key |-> NULL, value |-> NULL,
                                      prev |-> IF n = tail THEN head ELSE NULL,
                                      next |-> IF n = head THEN tail ELSE NULL]]
  /\ size = 0
  /\ result = NotFound

addToHead(ns, n) ==
  LET first == ns[head].next
  IN [ns EXCEPT ![n].prev = head, ![n].next = first, ![first].prev = n, ![head].next = n]

removeNode(ns, n) ==
  LET p == ns[n].prev
      q == ns[n].next
  IN [ns EXCEPT ![p].next = q, ![q].prev = p]

moveToHead(ns, n) == addToHead(removeNode(ns, n), n)

\* get() that does not count as a use.
GetNoMove(key) ==
  /\ key \in DOMAIN cache
  /\ result' = nodes[cache[key]].value
  /\ UNCHANGED <<cache, nodes, size>>

get(key) ==
  \/ /\ key \notin DOMAIN cache
     /\ result' = NotFound
     /\ UNCHANGED <<cache, nodes, size>>
  \/ /\ key \in DOMAIN cache
     /\ nodes' = moveToHead(nodes, cache[key])
     /\ result' = nodes[cache[key]].value
     /\ UNCHANGED <<cache, size>>

\* put() of a key that is there.
Update(key, value) ==
  /\ key \in DOMAIN cache
  /\ nodes' = moveToHead([nodes EXCEPT ![cache[key]].value = value], cache[key])
  /\ UNCHANGED <<cache, size, result>>

\* put() of a new key, and the eviction of the last when it is one too many.
Insert(key, value) ==
  /\ key \notin DOMAIN cache
  /\ \E n \in Node \ Live :
       LET c == With(cache, key, n)
           ns == addToHead(With(nodes, n, [key |-> key, value |-> value, prev |-> NULL, next |-> NULL]), n)
           removed == ns[tail].prev IN
         IF size + 1 > capacity
         THEN /\ nodes' = Without(removeNode(ns, removed), removed)
              /\ cache' = Without(c, ns[removed].key)
              /\ size' = size
         ELSE nodes' = ns /\ cache' = c /\ size' = size + 1
  /\ UNCHANGED result

Next == \E key \in Key : get(key) \/ \E value \in Value : Update(key, value) \/ Insert(key, value)
Spec == Init /\ [][Next]_vars

-----------------------------------------------------------------------------
\* s is the list: from head along next pointers, and back along prev ones.
IsList(s) ==
  /\ s[1] = nodes[head].next /\ s[Len(s)] = tail
  /\ \A i \in 1 .. Len(s) - 1 : nodes[s[i]].next = s[i + 1]
  /\ \A i \in 1 .. Len(s) : nodes[s[i]].prev = IF i = 1 THEN head ELSE s[i - 1]
Chain == CHOOSE s \in [1 .. Cardinality(Live) - 1 -> Live] : IsList(s)

\* The linked structure implements a cache that evicts the least recently used.
Abstract == INSTANCE RecencyCache WITH
  recent <- LET c == Front(Chain) IN [i \in DOMAIN c |-> <<nodes[c[i]].key, nodes[c[i]].value>>]
ImplementsRecencyCache == Abstract!Spec
=============================================================================
