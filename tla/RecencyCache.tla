----------------------------- MODULE RecencyCache -----------------------------
(***************************************************************************)
(* What an LRU cache promises: it holds the capacity most recently used    *)
(* keys, most recent first, each with the value last put.                  *)
(***************************************************************************)
EXTENDS Naturals, Sequences

CONSTANTS Key, Value, capacity, NotFound

VARIABLES recent, \* <<key, value>> pairs, the most recently used first
          result  \* what the last get returned
vars == <<recent, result>>

Holds(key) == \E i \in DOMAIN recent : recent[i][1] = key
ValueOf(key) == recent[CHOOSE i \in DOMAIN recent : recent[i][1] = key][2]
Others(key) == SelectSeq(recent, LAMBDA p : p[1] # key)
Newest(s) == IF Len(s) > capacity THEN SubSeq(s, 1, capacity) ELSE s

Init == recent = << >> /\ result = NotFound

Hit(key) ==
  /\ Holds(key)
  /\ recent' = <<<<key, ValueOf(key)>>>> \o Others(key)
  /\ result' = ValueOf(key)

Miss(key) ==
  /\ ~Holds(key)
  /\ result' = NotFound
  /\ UNCHANGED recent

Put(key, value) ==
  /\ recent' = Newest(<<<<key, value>>>> \o Others(key))
  /\ UNCHANGED result

Next == \E key \in Key : Hit(key) \/ Miss(key) \/ \E value \in Value : Put(key, value)
Spec == Init /\ [][Next]_vars
=============================================================================
